---------------------------- MODULE GValueFuncs -----------------------------
(***************************************************************************)
(* Values as the daemon prints and reads them: the parser of value texts,  *)
(* the comparison of values, and what the XML writer makes of a value.     *)
(*                                                                         *)
(* A value has a type, a number (a string is numbered; a float or a double *)
(* counts units of 10^-7) and, for an array, items.  A text is that number *)
(* once more: reading or printing one changes it only where the code does. *)
(* Integers beyond 32 bits, and the limits of the types that are not       *)
(* smaller than TLC's own integers, are left out.                          *)
(***************************************************************************)
EXTENDS Integers, Sequences

NumberType == {"string", "uchar", "char", "uint", "int", "uint64", "int64",
               "float", "double", "bool", "uint16", "int16"}

\* _blconf_gtype_from_string: "empty" is G_TYPE_NONE, other names are invalid.
GtypeFromString(type) ==
    IF type \in NumberType \cup {"array"} THEN type
    ELSE IF type = "empty" THEN "NONE" ELSE "INVALID"

GValue(type, n, items) == [type |-> type, n |-> n, items |-> items]

\* The value g_value_init leaves, which is also an array's before its items.
Zero(type) == GValue(type, 0, <<>>)

(***************************************************************************)
(* Whether _blconf_gvalue_from_string takes the text for a value of the    *)
(* type.  G_MINFLOAT is the smallest positive float, not the least one: no *)
(* float that is zero or negative passes.                                  *)
(***************************************************************************)
FromString(type, n) ==
    \/ type \in {"string", "int", "int64", "double", "array"}
    \/ type = "bool" /\ n \in {0, 1}
    \/ type \in {"uint", "uint64"} /\ n >= 0
    \/ type = "uchar" /\ n \in 0..255
    \/ type = "char" /\ n \in -128..127
    \/ type = "uint16" /\ n \in 0..65535
    \/ type = "int16" /\ n \in -32768..32767
    \/ type = "float" /\ n > 0

(***************************************************************************)
(* _blconf_gvalue_is_equal.  An array never equals anything.  The second   *)
(* of two int16 is read by blconf_g_value_get_uint16, which refuses it and *)
(* returns 0.                                                              *)
(***************************************************************************)
IsEqualGValue(a, b) ==
    /\ a.type = b.type
    /\ \/ a.type \in NumberType \ {"int16"} /\ a.n = b.n
       \/ a.type = "int16" /\ a.n = 0

-----------------------------------------------------------------------------
(* blconf_format_xml_tag: the type and value attributes of an element.     *)

\* "%f" keeps six decimals; a char is fetched by g_value_get_uchar, which
\* refuses it and returns 0.
FormatNumber(v) ==
    IF v.type \in {"float", "double"} THEN 10 * ((v.n + 5) \div 10)
    ELSE IF v.type = "char" THEN 0 ELSE v.n

Printable == NumberType \ {"uint16", "int16"}

\* A value of another type is written as a branch, outside an array.
FormatType(v) == IF v.type \in Printable \cup {"array"} THEN v.type ELSE "empty"

\* Inside an array it makes the whole flush fail, as does a nested array.
CanFormat(v) == \A i \in DOMAIN v.items : v.items[i].type \in Printable

=============================================================================
