---------------------------------- MODULE Jopp ---------------------------------
(***************************************************************************)
(* What the repository uses of the JSON library jopp. A value is a record  *)
(* of a type and a value; an object is a function from field names to      *)
(* values. A conversion that may throw is the set of what it returns: it   *)
(* is empty when the conversion throws.                                    *)
(***************************************************************************)
EXTENDS Integers, Sequences

Number(n) == [type |-> "number", val |-> n]
String(s) == [type |-> "string", val |-> s]
Array(a) == [type |-> "array", val |-> a]
Object(o) == [type |-> "object", val |-> o]

IsFunction(f) == f = [x \in DOMAIN f |-> f[x]]
IsValue(v) == /\ v = [type |-> v.type, val |-> v.val]
              /\ v.type = "number" => v.val \in Int
              /\ v.type \in {"array", "object"} => IsFunction(v.val)

\* The values in the fields of objects, and those in values of two kinds.
FieldsOf(objects) == UNION {{o[f] : f \in DOMAIN o} : o \in objects}
PartsOf(values) == FieldsOf({v.val : v \in {w \in values : w.type \in {"array", "object"}}})

\* get<T>() of a value and get_field_as<T>() of an object.
Get(value, type) == IF value.type = type THEN {value.val} ELSE {}
GetField(obj, field, type) == IF field \in DOMAIN obj THEN Get(obj[field], type) ELSE {}
================================================================================
