----------------------------- MODULE CppCodegen -----------------------------
(***************************************************************************)
(* The C++ generator, CodeGeneration/Cpp: the developer's types, ordered   *)
(* so that what an optional holds is defined before it, and with them all  *)
(* files of one side (CppFunctions).                                       *)
(***************************************************************************)
EXTENDS CppFunctions

-----------------------------------------------------------------------------
(* Types.                                                                    *)

\* The structures in the order in which they are written.
BuildStructDefinitionInOrder(out, types, struct) ==
    IF struct.name \in out.seen THEN out
    ELSE [seen |-> out.seen \cup {struct.name},
          text |-> Append(out.text,
                    [name |-> struct.name,
                     fields |-> [i \in DOMAIN struct.fields |->
                                    BuildStructField(struct.fields[i])]])]

\* BuildStructDefinition: the structures held in optionals come first.
RECURSIVE BuildStructDefinition(_, _, _)
BuildStructDefinition(out, types, struct) ==
    LET inner(o, name) == BuildStructDefinition(o, types, At(types, name))
        first == FoldLeft(inner, [out EXCEPT !.seen = @ \cup {struct.name}], struct.optional)
    IN  IF struct.name \in out.seen THEN out
        ELSE [first EXCEPT !.text = Append(@,
                [name |-> struct.name,
                 fields |-> [i \in DOMAIN struct.fields |->
                                BuildStructField(struct.fields[i])]])]

BuildEnumDefinition(type) ==
    [name |-> type.name, scoped |-> type.kind = "enum",
     items |-> [i \in DOMAIN type.items |-> <<type.items[i].name, type.items[i].value>>]]

\* Every structure is declared, then come the enums that have items, and the
\* definitions of the structures.
BuildDeveloperTypesHeader(types) ==
    LET enums   == SelectSeq(OfKind(types, {"enum", Anonymous}), LAMBDA t : t.items # <<>>)
        structs == SelectSeq(types, LAMBDA t : t.kind \notin {"enum", Anonymous})
    IN  [declared |-> {structs[i].name : i \in DOMAIN structs},
         enums    |-> [i \in DOMAIN enums |-> BuildEnumDefinition(enums[i])],
         structs  |-> FoldLeft(LAMBDA o, t : BuildStructDefinition(o, types, t),
                               [seen |-> {}, text |-> <<>>], structs).text]

-----------------------------------------------------------------------------
(* Files.                                                                    *)

GenerateCpp(edl, layer, namespace) ==
    CppSteps(edl, layer, namespace, BuildDeveloperTypesHeader(edl.types))

=============================================================================
