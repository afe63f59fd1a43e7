------------------------------ MODULE EdlTypes ------------------------------
(***************************************************************************)
(* The types of an interface, as the parser makes them and the generators  *)
(* read them (Edl/Structures.h, Edl/Utils.h).  A type has its name and its *)
(* kind, and inner, the type in its brackets.  A declaration has a name,   *)
(* its attributes, a type and its dimensions.                              *)
(***************************************************************************)
EXTENDS EdlLexer

CONSTANT Primitives     \* names of the scalar types

Anonymous == "__anonymous_enum"

\* c_string_to_edltype_map: a built-in name is also the name of its kind.
Builtin ==
    Primitives \cup {"void", "string", "wstring", "vector", "optional", "enum",
                     "struct", Anonymous}

NoType == [name |-> "", kind |-> "none"]

\* Attributes are the set written in the brackets; NoAttributes: no brackets.
NoAttributes == {"none"}

\* The type a declaration needs to know: its own or the one in its brackets.
Named(type) == IF type.inner # NoType THEN type.inner ELSE type

=============================================================================
