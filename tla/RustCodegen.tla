---------------------------- MODULE RustCodegen ----------------------------
(***************************************************************************)
(* The Rust generator, CodeGeneration/Rust.  Unlike the C++ one it saves   *)
(* as it builds: the schema, where a type can be refused, comes after the  *)
(* manifest, the implementation modules and the stubs are on the disk.     *)
(***************************************************************************)
EXTENDS Codegen

CONSTANT Upper(_)       \* TransformCaseToUpper of a name or number

-----------------------------------------------------------------------------
(* Types.                                                                    *)

\* EdlTypeToRustType; a borrowed string is a slice.  The rest keep their name.
EdlTypeToRustType(type, slice) ==
    CASE type.kind = "string"  -> IF slice THEN "str" ELSE "String"
      [] type.kind = "wstring" -> IF slice THEN "U16Str" ELSE "U16String"
      [] OTHER                 -> type.name

GetBasicRustTypeInfo(d) ==
    IF d.type.kind = "optional" THEN <<"Option", EdlTypeToRustType(d.type.inner, FALSE)>>
    ELSE IF d.type.kind = "vector" THEN <<"Vec", EdlTypeToRustType(d.type.inner, FALSE)>>
    ELSE IF d.type.kind = "void" THEN <<"unit">>
    ELSE IF IsArray(d) THEN <<"array", EdlTypeToRustType(d.type, FALSE), Upper(d.dims[1])>>
    ELSE <<"value", EdlTypeToRustType(d.type, FALSE)>>

\* GetParameterSyntax: how a parameter is borrowed.
GetParameterSyntax(d) ==
    IF IsInParameterOnly(d) /\ IsPrimitiveType(d) THEN ""
    ELSE IF IsOutParameter(d) THEN "&mut" ELSE "&"

AddVectorEncapulation(d) ==
    <<GetParameterSyntax(d), IF IsInParameterOnly(d) THEN "slice" ELSE "Vec",
      EdlTypeToRustType(d.type.inner, FALSE)>>

AddOptionalEncapulation(d) ==
    <<"Option", GetParameterSyntax(d), EdlTypeToRustType(d.type.inner, IsInParameterOnly(d))>>

GetParameterForFunction(d) ==
    [name |-> d.name,
     type |-> IF d.type.kind = "optional" THEN AddOptionalEncapulation(d)
              ELSE IF d.type.kind = "vector" THEN AddVectorEncapulation(d)
              ELSE IF IsArray(d) THEN <<GetParameterSyntax(d), "array",
                                        EdlTypeToRustType(d.type, FALSE), Upper(d.dims[1])>>
              ELSE <<GetParameterSyntax(d),
                     EdlTypeToRustType(d.type, IsInParameterOnly(d))>>]

GenerateFunctionParametersList(f) ==
    [i \in DOMAIN f.parameters |-> GetParameterForFunction(f.parameters[i])]

GenerateConstantsFromAnonEnum(type) ==
    [i \in DOMAIN type.items |-> <<Upper(type.items[i].name), type.items[i].value>>]

BuildEnumDefinition(type) ==
    [name |-> type.name,
     items |-> [i \in DOMAIN type.items |-> <<type.items[i].name, type.items[i].value>>]]

(* BuildStructDefinition.  What the flatbuffer compiler boxes is marked for  *)
(* the macro that converts it; an [out] structure or wide string, a          *)
(* parameter or the returned value, is an Option.                            *)
BuildStructDefinition(type) ==
    LET field(d) ==
            LET plain == ~IsArray(d) /\ IsStructOrWStringType(d)
                inOption == d.type.kind = "optional" /\ d.type.inner.kind = "struct"
            IN  [name |-> d.name,
                 mark |-> CASE plain /\ ~IsOutParameterOnly(d) -> "boxed_target"
                            [] plain /\ IsOutParameterOnly(d)  -> "boxed_inner_target"
                            [] inOption                        -> "boxed_inner_target"
                            [] OTHER                           -> "",
                 type |-> IF plain /\ IsOutParameterOnly(d)
                          THEN <<"Option">> \o Tail(GetBasicRustTypeInfo(d))
                          ELSE GetBasicRustTypeInfo(d)]
    IN  [name |-> type.name, fields |-> [i \in DOMAIN type.fields |-> field(type.fields[i])]]

GenerateDeveloperTypesModuleFile(types) ==
    LET anonymous == OfKind(types, {Anonymous})
        enums     == OfKind(types, {"enum"})
        structs   == OfKind(types, {"struct"})
    IN  [constants |-> [i \in DOMAIN anonymous |-> GenerateConstantsFromAnonEnum(anonymous[i])],
         enums     |-> [i \in DOMAIN enums |-> BuildEnumDefinition(enums[i])],
         structs   |-> [i \in DOMAIN structs |-> BuildStructDefinition(structs[i])]]

GenerateAbiTypesModuleFile(abiTypes) ==
    [i \in DOMAIN abiTypes |-> BuildStructDefinition(abiTypes[i])]

\* The structures that get a pack and an unpack of their own.
GenerateFlatbuffersWrapperModuleFile(abiTypes) ==
    [i \in DOMAIN abiTypes |-> abiTypes[i].name]

-----------------------------------------------------------------------------
(* Functions.                                                                *)

BuildImplTraitModule(functions) ==
    [i \in DOMAIN functions |->
        [name |-> functions[i].function,
         parameters |-> GenerateFunctionParametersList(functions[i]),
         returns |-> GetBasicRustTypeInfo(ReturnInfo(functions[i]))]]

(* GetCloneToAbiStructStatements: how a stub fills the abi structure, which  *)
(* starts as the default one.  What is only [out] stays as it is.            *)
GetCloneToAbiStructStatements(f) ==
    LET d(i) == f.parameters[i]
        how(kind) == CASE kind = "vector"   -> "to_owned"
                       [] kind = "string"   -> "to_string"
                       [] kind = "wstring"  -> "to_ustring"
                       [] kind = "optional" -> "copy_inner"
                       [] OTHER             -> "clone"
        filled == {i \in DOMAIN f.parameters : ~IsOutParameterOnly(d(i))}
    IN  {[name |-> d(i).name,
          how |-> IF IsArray(d(i)) THEN "clone" ELSE how(d(i).type.kind)] : i \in filled}

\* GetMoveFromAbiStructToParamStatements: how the arguments are written back.
GetMoveFromAbiStructToParamStatements(f) ==
    LET d(i) == f.parameters[i]
        how(i) == CASE ~IsArray(d(i)) /\ IsOutParameterOnly(d(i))
                            /\ IsStructOrWStringType(d(i))  -> "expect"
                    [] IsOutParameter(d(i)) /\ d(i).type.kind = "optional" -> "assign_if_some"
                    [] OTHER                                -> "move"
        back == {i \in DOMAIN f.parameters : ~IsInParameterOnly(d(i))}
    IN  {[name |-> d(i).name, how |-> how(i)] : i \in back}

\* GetClosureFunctionStatement: what the implementation is called with, and
\* how what it returns is kept.
GetClosureFunctionStatement(f) ==
    LET argument(d) ==
            CASE ~IsArray(d) /\ IsOutParameterOnly(d) /\ IsStructOrWStringType(d) -> "expect"
              [] d.type.kind = "optional" -> IF IsInParameterOnly(d) THEN "as_ref" ELSE "as_mut"
              [] OTHER                    -> GetParameterSyntax(d)
    IN  [calls |-> f.function,
         arguments |-> [i \in DOMAIN f.parameters |-> argument(f.parameters[i])],
         result |-> CASE IsVoid(f) -> "none"
                      [] IsStructOrWStringType(ReturnInfo(f)) -> "some"
                      [] OTHER -> "plain"]

BuildStubTraitModule(functions) ==
    [i \in DOMAIN functions |->
        [name |-> functions[i].function,
         parameters |-> GenerateFunctionParametersList(functions[i]),
         arguments |-> AbiName(functions[i]), abi |-> AbiName(functions[i]),
         clones |-> GetCloneToAbiStructStatements(functions[i]),
         moves |-> GetMoveFromAbiStructToParamStatements(functions[i]),
         returns |-> CASE IsVoid(functions[i]) -> "unit"
                       [] IsStructOrWStringType(ReturnInfo(functions[i])) -> "expect"
                       [] OTHER -> "value"]]

\* The names and the addresses of the callbacks, the allocators first.
GetRegisterCallbacksFunctionStatements(functions) ==
    LET own == [i \in DOMAIN functions |-> AbiName(functions[i])]
    IN  [names     |-> <<<<"AllocateVtl0MemoryCallback">>, <<"DeallocateVtl0MemoryCallback">>>> \o own,
         addresses |-> <<<<"allocate_memory_ffi">>, <<"deallocate_memory_ffi">>>> \o own,
         total     |-> Len(functions) + 2]

BuildAbiDefinitionModule(layer, namespace, functions) ==
    [abi |-> [i \in DOMAIN functions |->
                [name |-> AbiName(functions[i]), restricts |-> layer = "Enclave",
                 closure |-> GetClosureFunctionStatement(functions[i])]],
     callbacks |-> IF layer = "HostApp" THEN GetRegisterCallbacksFunctionStatements(functions)
                   ELSE [names |-> <<>>, addresses |-> <<>>, total |-> 0],
     registers |-> IF layer = "Enclave" THEN <<namespace, "RegisterVtl0Callbacks">> ELSE <<>>]

-----------------------------------------------------------------------------
(* Files.                                                                    *)

GenerateImplementationModules(edl, layer) ==
    <<Save("implementation/types.rs", GenerateDeveloperTypesModuleFile(edl.types)),
      IF layer = "Enclave"
      THEN Save("implementation/trusted.rs", [traits |-> BuildImplTraitModule(edl.trusted)])
      ELSE Save("implementation/untrusted.rs", [traits |-> BuildImplTraitModule(edl.untrusted)]),
      Save("implementation/mod.rs", {})>>

GenerateStubModules(edl, layer, namespace) ==
    <<IF layer = "Enclave"
      THEN Save("stubs/untrusted.rs", [stubs |-> BuildStubTraitModule(edl.untrusted)])
      ELSE Save("stubs/trusted.rs", [stubs |-> BuildStubTraitModule(edl.trusted),
                                     registers |-> <<namespace, "RegisterVtl0Callbacks">>]),
      Save("stubs/mod.rs", {})>>

GenerateFlatbufferComponents(edl, abiTypes) ==
    LET schema == GenerateFlatbufferSchema(edl.types, abiTypes)
    IN  IF Refused(schema) THEN <<Fail(schema.err)>>
        ELSE <<Save("abi/flatbuffer_gen/FlatbufferTypes.fbs", SchemaFile(edl.types, schema)),
               Save("abi/flatbuffer_gen/EdlTypes.fbs", {}),
               Save("abi/fb_support.rs", GenerateFlatbuffersWrapperModuleFile(abiTypes))>>

GenerateAbiBoundaryModule(edl, layer, namespace) ==
    Save("abi/definitions.rs",
         BuildAbiDefinitionModule(layer, namespace,
            IF layer = "Enclave" THEN edl.trusted ELSE edl.untrusted))

GenerateAbiModules(edl, layer, namespace) ==
    LET abiTypes == CreateDeveloperTypesForABIFunctions(edl)
    IN  GenerateFlatbufferComponents(edl, abiTypes)
        \o <<GenerateAbiBoundaryModule(edl, layer, namespace),
             Save("abi/abi_types.rs", GenerateAbiTypesModuleFile(abiTypes)),
             Save("abi/mod.rs", {})>>

GenerateRust(edl, layer, namespace) ==
    IF layer \notin {"Enclave", "HostApp"} THEN <<Fail("VirtualTrustLayerInvalidType")>>
    ELSE <<Save("Cargo.toml", {})>>
         \o GenerateImplementationModules(edl, layer)
         \o GenerateStubModules(edl, layer, namespace)
         \o GenerateAbiModules(edl, layer, namespace)
         \o <<Save("lib.rs", {}), Save("build.rs", {})>>

-----------------------------------------------------------------------------
\* A stub reaches the boundary function that hands a closure as many arguments
\* as the trait's method has, and the tables of names and addresses match.
StubsReach(enclave, host) ==
    LET boundary == ToSet(enclave["abi/definitions.rs"].abi)
        callback == ToSet(host["abi/definitions.rs"].abi)
        table    == host["abi/definitions.rs"].callbacks
        reaches(stubs, targets) ==
            \A s \in ToSet(stubs) : \E b \in targets :
                /\ b.name = s.abi /\ b.closure.calls = s.name
                /\ Len(b.closure.arguments) = Len(s.parameters)
    IN  /\ reaches(host["stubs/trusted.rs"].stubs, boundary)
        /\ reaches(enclave["stubs/untrusted.rs"].stubs, callback)
        /\ host["stubs/trusted.rs"].registers = enclave["abi/definitions.rs"].registers
        /\ \A b \in boundary : b.restricts
        /\ Len(table.names) = table.total /\ Len(table.addresses) = table.total
        /\ IsInjective(table.names)
        /\ \A s \in ToSet(enclave["stubs/untrusted.rs"].stubs) :
                \E i \in DOMAIN table.names :
                    table.names[i] = s.abi /\ table.addresses[i] = s.abi

=============================================================================
