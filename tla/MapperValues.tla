---------------------------- MODULE MapperValues ----------------------------
(***************************************************************************)
(* How go-anymapper's MapReflContext picks the values it maps between      *)
(* (mapper.go 346-422): srcValue unpacks pointers and interfaces, dstValue *)
(* unpacks them to a value the MapFunc can write, initialising nil         *)
(* pointers, maps and slices on the way (initValue).                       *)
(*                                                                         *)
(* A reflect.Value is a chain of layers, outermost first: layer i+1 is     *)
(* what v.Elem() returns for the pointer or interface at layer i.  A layer *)
(* has its type (a ReflectTypes record), whether it is nil and whether it  *)
(* is settable (CanSet).  The pointee of a pointer is settable, the        *)
(* content of an interface is not.  Behind a nil pointer the chain holds   *)
(* the zero value of its element type, which initValue makes reachable.    *)
(* A position of 0 stands for the invalid reflect.Value.                   *)
(***************************************************************************)
EXTENDS Naturals, Sequences, ReflectTypes

CONSTANTS
    MapperKeys,         \* the types m.Mappers has a provider for
    SrcHookTypes,       \* values Hooks.SourceValueHook returns as they are
    DstHookTypes        \* values Hooks.DestinationValueHook returns as they are

(* reflect.Kind numbers: initValue compares them as integers.              *)
KArray == 17
KInterface == 20
KMap == 21
KPointer == 22
KSlice == 23

KindOf(t) ==
    CASE t.kind = "array"     -> KArray
      [] t.kind = "interface" -> KInterface
      [] t.kind = "map"       -> KMap
      [] t.kind = "ptr"       -> KPointer
      [] t.kind = "slice"     -> KSlice
      [] OTHER                -> 0

Kind(v, i) == KindOf(v[i].type)

IsIndirect(v, i) == Kind(v, i) \in {KInterface, KPointer}

(* v.Elem() of layer i: the next layer, or invalid for a nil pointer or    *)
(* interface.                                                              *)
Elem(v, i) == IF v[i].nil THEN 0 ELSE i + 1

(* Mutant: the kind range check misses maps (<= instead of <).             *)
InitValueSkipsMaps(v, i) ==
    IF Kind(v, i) <= KMap \/ Kind(v, i) > KSlice \/ ~v[i].nil \/ ~v[i].set
    THEN v
    ELSE [v EXCEPT ![i].nil = FALSE]

(* initValue (410-422): a settable nil pointer, map or slice gets a new    *)
(* value (reflect.New, MakeMap, MakeSlice).                                *)
InitValue(v, i) ==
    IF Kind(v, i) < KMap \/ Kind(v, i) > KSlice \/ ~v[i].nil \/ ~v[i].set
    THEN v
    ELSE [v EXCEPT ![i].nil = FALSE]

(* srcValue (348-364): the hook's value if valid, else unpack pointers and *)
(* interfaces while the type is not simple.                                *)
RECURSIVE SrcLoop(_, _)
SrcLoop(v, i) ==
    CASE i = 0                             -> 0
      [] ~IsIndirect(v, i)                 -> i
      [] IsSimpleType(v[i].type)           -> i
      [] OTHER                             -> SrcLoop(v, Elem(v, i))

SrcValue(v) ==
    IF v[1].type \in SrcHookTypes THEN 1 ELSE SrcLoop(v, 1)

(***************************************************************************)
(* dstValue (371-407) returns the chain after initialisation and the       *)
(* position it stopped at.  The loop keeps the last settable layer and     *)
(* returns it when it runs out of pointers and interfaces.                 *)
(***************************************************************************)
Result(v, i) == [val |-> v, at |-> i]

RECURSIVE DstLoop(_, _, _)
DstLoop(v, i, settable) ==
    IF i = 0 THEN Result(v, settable)
    ELSE LET w  == InitValue(v, i)
             s2 == IF w[i].set THEN i ELSE settable
         IN CASE w[i].set /\ IsSimpleType(w[i].type) -> Result(w, i)
              [] w[i].type \in MapperKeys            -> Result(w, i)
              [] Kind(w, i) = KMap /\ ~w[i].nil      -> Result(w, i)
              [] ~IsIndirect(w, i)                   -> Result(w, s2)
              [] OTHER                               -> DstLoop(w, Elem(w, i), s2)

DstValue(v) ==
    CASE v[1].type \in DstHookTypes             -> Result(v, 1)
      [] ~IsIndirect(v, 1) /\ v[1].set          -> Result(v, 1)
      [] OTHER                                  -> DstLoop(v, 1, 0)


(***************************************************************************)
(* Properties of one input chain v                                         *)
(***************************************************************************)
(* The dstValue comment: once it unpacks, the pointers, maps and slices    *)
(* it meets are initialised; no settable nil pointer, map or slice is left *)
(* between the outer value and the one returned.  (A value the hook claims *)
(* or a settable direct value is returned as it is.)                       *)
DstValueInitialised(v) ==
    LET r == DstValue(v) IN
    (r.at # 0 /\ v[1].type \notin DstHookTypes /\ (IsIndirect(v, 1) \/ ~v[1].set)) =>
        \A i \in 1..r.at :
            (r.val[i].set /\ KindOf(r.val[i].type) \in {KMap, KPointer, KSlice})
            => ~r.val[i].nil
=============================================================================
