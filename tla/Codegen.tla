------------------------------ MODULE Codegen ------------------------------
(***************************************************************************)
(* What the two code generators share: the structures of the abi, the      *)
(* flatbuffer schema and the files they save (CodeGeneration/Common,       *)
(* CodeGeneration/Flatbuffers).                                            *)
(*                                                                         *)
(* A generator is the sequence of its steps.  A step saves a file, throws, *)
(* or runs the flatbuffer compiler; the steps after one that fails are not *)
(* taken.  What a file says is a record of the definitions in it, without  *)
(* their wording.                                                          *)
(***************************************************************************)
EXTENDS EdlTypes

Save(file, content) == [kind |-> "save", file |-> file, content |-> content]
Fail(error)         == [kind |-> "throw", file |-> error, content |-> {}]
Compile(file)       == [kind |-> "compile", file |-> file, content |-> {}]

-----------------------------------------------------------------------------
(* Declarations.  [] leaves a parameter neither [in] nor [out].              *)

IsOutParameter(d)     == "out" \in d.attributes
IsOutParameterOnly(d) == d.attributes \cap {"in", "out"} = {"out"}
IsInParameterOnly(d)  == d.attributes \cap {"in", "out"} = {"in"}
IsArray(d)            == d.dims # <<>>

\* IsPrimitiveType: a number or an enum, and no array of them.
IsPrimitiveType(d) == ~IsArray(d) /\ d.type.kind \in Primitives \cup {"enum"}

IsStructOrWStringType(d) == d.type.kind \in {"struct", "wstring"}

ReturnInfo(f) ==
    [name |-> "_return_value_", attributes |-> {"out"}, type |-> f.return, dims |-> <<>>]

IsVoid(f) == f.return.kind = "void"

\* The namespace of what is generated, from the settings.
DefaultNamespace == "edl_generated"

Namespace(s) == IF s.namespace = "" THEN DefaultNamespace ELSE s.namespace

\* A name without the function's number.
AbiNameUnnumbered(f) == <<f.function>>

\* abi_m_name
AbiName(f) == <<f.function, f.abi>>

\* Where a parameter goes.
Directions == {{"in"}, {"out"}, {"in", "out"}}

\* What the generators rely on: parameters have names of their own and each
\* says where it goes, as one without brackets does: the parser makes it [in].
Accepted(f) ==
    /\ \A i, j \in DOMAIN f.parameters :
        f.parameters[i].name = f.parameters[j].name => i = j
    /\ \A i \in DOMAIN f.parameters :
        f.parameters[i].attributes \in Directions

\* And the number in the name of a function tells it from the others of its side.
Numbered(functions) ==
    \A i, j \in DOMAIN functions : AbiName(functions[i]) = AbiName(functions[j]) => i = j

\* GetDeveloperTypeStructForABI: the parameters of a function, and what it returns.
GetDeveloperTypeStructForABI(f) ==
    [name   |-> AbiName(f),
     fields |-> f.parameters \o (IF IsVoid(f) THEN <<>> ELSE <<ReturnInfo(f)>>)]

CreateDeveloperTypesForABIFunctions(edl) ==
    LET all == edl.trusted \o edl.untrusted
    IN  [i \in DOMAIN all |-> GetDeveloperTypeStructForABI(all[i])]

OfKind(types, kinds) == SelectSeq(types, LAMBDA t : t.kind \in kinds)

-----------------------------------------------------------------------------
(* The flatbuffer schema.  s has the default item of every enum so far       *)
(* (g_enum_data), the tables so far and the exception thrown.                *)

\* The kinds GetFlatBufferType has a name for; it throws for any other.
HasFlatBufferType(type) ==
    type.kind \in Primitives \cup {"void", "string", "wstring", "enum", "struct"}

\* BuildEnum: the first item is the default one; an enum without any has none.
BuildEnum(s, type) ==
    IF type.items = <<>> \/ type.name \in DOMAIN s.default THEN s
    ELSE [s EXCEPT !.default = (type.name :> type.items[1].name) @@ @]

\* What the schema says of a field's presence, after the branches of BuildTable.
Presence(d) ==
    IF IsArray(d) \/ d.type.kind \in {"vector", "string"} THEN "required"
    ELSE IF d.type.kind = "optional" THEN "optional"
    ELSE IF IsStructOrWStringType(d)
         THEN IF IsOutParameterOnly(d) THEN "optional" ELSE "required"
    ELSE "default"

\* The type a field is declared with: the inner one of a vector or optional,
\* the element of an array.
Element(d) == IF IsArray(d) THEN d.type ELSE Named(d.type)

BuildTable(s, type) ==
    LET field(r, d) ==
            LET plainEnum == Presence(d) = "default" /\ d.type.kind = "enum"
            IN  IF r.err # "" THEN r
                ELSE IF ~HasFlatBufferType(Element(d))
                THEN [r EXCEPT !.err = "FlatbufferTypeNotCompatibleWithEdlType"]
                ELSE IF plainEnum /\ d.type.name \notin DOMAIN r.default
                THEN [r EXCEPT !.err = "out_of_range"]
                ELSE r
        checked == FoldLeft(field, s, type.fields)
    IN  IF checked.err # "" THEN checked
        ELSE [checked EXCEPT !.tables = Append(@,
                [name |-> type.name,
                 fields |-> [i \in DOMAIN type.fields |->
                                [name |-> type.fields[i].name,
                                 type |-> Element(type.fields[i]),
                                 presence |-> Presence(type.fields[i])]]])]

(* GenerateFlatbufferSchema, from an empty g_enum_data.  The developer's     *)
(* types in their order, the structures of the abi, and the first table as   *)
(* the root.  The anonymous enum is no part of it.                           *)
GenerateFlatbufferSchema(types, abiTypes) ==
    LET step(s, t) == IF s.err # "" THEN s
                      ELSE IF t.kind = "enum" THEN BuildEnum(s, t) ELSE BuildTable(s, t)
        declared == FoldLeft(step, [default |-> <<>>, tables |-> <<>>, err |-> ""],
                             OfKind(types, {"enum", "struct"}))
    IN  FoldLeft(LAMBDA s, t : IF s.err # "" THEN s ELSE BuildTable(s, t),
                 declared, abiTypes)

\* The interface has a type that the schema cannot name.
Refused(schema) == schema.err # ""

SchemaFile(types, s) ==
    [enums  |-> {types[i].name : i \in {j \in DOMAIN types : types[j].kind = "enum"}},
     tables |-> s.tables]

=============================================================================
