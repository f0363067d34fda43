---------------------------- MODULE ReflectTypes ----------------------------
(***************************************************************************)
(* Reflect types as go-anymapper's isSimpleType sees them (mapper.go       *)
(* 441-486).  A type is a record: its kind, its name ("" for an unnamed    *)
(* type literal, whose String() starts with "[" or "map["), and its        *)
(* element and key types as sequences of length 0 or 1.                    *)
(***************************************************************************)
EXTENDS Naturals, Sequences

BuiltinKinds == {"bool", "int", "int8", "int16", "int32", "int64", "uint",
                 "uint8", "uint16", "uint32", "uint64", "float32", "float64",
                 "string"}

(***************************************************************************)
(* isSimpleType (448-486): a built-in type, or an unnamed slice, array or  *)
(* map of simple types.  A named type of a built-in kind is a different    *)
(* reflect.Type than intTy etc., and a named composite's String() does not *)
(* start with "[".                                                         *)
(***************************************************************************)
RECURSIVE IsSimpleType(_)
IsSimpleType(p) ==
    CASE p.kind \in BuiltinKinds       -> p.name = ""
      [] p.kind \in {"slice", "array"} -> p.name = "" /\ IsSimpleType(p.elem[1])
      [] p.kind = "map"                -> /\ p.name = ""
                                          /\ IsSimpleType(p.elem[1])
                                          /\ IsSimpleType(p.key[1])
      [] OTHER                         -> FALSE

(***************************************************************************)
(* The doc comment (441-444): "a built-in type, or a slice, array or map   *)
(* that is composed of built-in types".  The comment puts no condition on  *)
(* the name of the slice, array or map itself.                             *)
(***************************************************************************)
RECURSIVE DocSimple(_)
DocSimple(p) ==
    CASE p.kind \in BuiltinKinds       -> p.name = ""
      [] p.kind \in {"slice", "array"} -> DocSimple(p.elem[1])
      [] p.kind = "map"                -> DocSimple(p.elem[1]) /\ DocSimple(p.key[1])
      [] OTHER                         -> FALSE
=============================================================================
