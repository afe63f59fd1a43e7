---------------------------- MODULE CppFunctions ----------------------------
(***************************************************************************)
(* The functions the C++ generator makes, CppCodeBuilder.cpp: the stubs of *)
(* one side, the boundary functions of the other, the tables that connect  *)
(* them; and the files of one side, layer "Enclave" or "HostApp", in the   *)
(* order in which they are saved, around the header of the developer's     *)
(* types (CppCodegen).                                                     *)
(***************************************************************************)
EXTENDS Codegen

\* GetFullDeclarationType, with the names of the std templates.
GetFullDeclarationType(d) ==
    IF d.type.kind = "vector" THEN <<"vector", d.type.inner.name>>
    ELSE IF IsArray(d) THEN <<"array", d.type.name, d.dims[1]>>
    ELSE IF d.type.kind = "optional" THEN <<"optional", d.type.inner.name>>
    ELSE <<"value", d.type.name>>

-----------------------------------------------------------------------------
(* Functions.                                                                *)

AddSalToParameter(d) ==
    IF IsOutParameterOnly(d) THEN "_Out_"
    ELSE IF IsOutParameter(d) THEN "_Inout_" ELSE "_In_"

GetParameterQualifier(d) ==
    IF IsInParameterOnly(d) /\ ~IsPrimitiveType(d) THEN "const" ELSE ""

GetParameterDeclarator(d) ==
    IF IsInParameterOnly(d) /\ IsPrimitiveType(d) THEN "" ELSE "&"

BuildFunctionParameters(f) ==
    [i \in DOMAIN f.parameters |->
        LET d == f.parameters[i]
        IN  [name |-> d.name, sal |-> AddSalToParameter(d),
             type |-> GetFullDeclarationType(d),
             qualifier |-> GetParameterQualifier(d),
             declarator |-> GetParameterDeclarator(d)]]

\* Arrays that are [out] start empty, as everything that is [out] does.
GetInformationWithoutArrays(f) ==
    LET named(S(_)) == {f.parameters[i].name : i \in {j \in DOMAIN f.parameters : S(f.parameters[j])}}
    IN  [converts |-> named(LAMBDA d : ~IsOutParameterOnly(d)),
         updates  |-> named(LAMBDA d : ~IsInParameterOnly(d)),
         needed   |-> ~IsVoid(f) \/ named(IsOutParameter) # {}]

\* What a stub copies into the flatbuffer and, if it keeps what comes back,
\* from there into its arguments.  An array goes in whatever its direction.
GetInformationAboutParameters(f) ==
    LET named(S(_)) == {f.parameters[i].name : i \in {j \in DOMAIN f.parameters : S(f.parameters[j])}}
    IN  [converts |-> named(LAMBDA d : ~IsOutParameterOnly(d) \/ IsArray(d)),
         updates  |-> named(LAMBDA d : ~IsInParameterOnly(d)),
         needed   |-> ~IsVoid(f) \/ named(IsOutParameter) # {}]

(* BuildStubFunction.  The stub of a void function calls the form of the abi *)
(* call that returns nothing, and return_params is declared by the other     *)
(* form only.                                                                *)
BuildStubFunction(f, target) ==
    LET info == GetInformationAboutParameters(f)
    IN  [name |-> f.function, parameters |-> BuildFunctionParameters(f), abi |-> target,
         converts |-> info.converts,
         updates  |-> IF info.needed THEN info.updates ELSE {},
         declares |-> ~IsVoid(f),
         returns  |-> f.return]

\* BuildTrustBoundaryFunction: the function the other side calls.
BuildTrustBoundaryFunction(f, restricts) ==
    [name |-> AbiName(f), restricts |-> restricts, calls |-> f.function,
     arguments |-> AbiName(f)]

Declaration(f) ==
    [name |-> f.function, parameters |-> BuildFunctionParameters(f), returns |-> f.return]

\* c_vtl1_register_callbacks_abi_export_name: the namespace is its prefix.
RegisterCallbacks(namespace) == <<namespace, "RegisterVtl0Callbacks">>

BuildHostToEnclaveFunctions(namespace, trusted) ==
    [stubs        |-> [i \in DOMAIN trusted |->
                        BuildStubFunction(trusted[i], AbiName(trusted[i]))],
     abi          |-> [i \in DOMAIN trusted |->
                        BuildTrustBoundaryFunction(trusted[i], TRUE)]
                        \o <<[name |-> RegisterCallbacks(namespace), restricts |-> TRUE,
                              calls |-> "RegisterVtl0Callbacks",
                              arguments |-> "AbiRegisterVtl0Callbacks_args"]>>,
     declarations |-> [i \in DOMAIN trusted |-> Declaration(trusted[i])]]

\* The name a callback is registered and called under.
CallbackName(namespace, f) == <<namespace>> \o AbiName(f)

Allocators == <<<<"AllocateVtl0MemoryCallback">>, <<"DeallocateVtl0MemoryCallback">>>>

BuildEnclaveToHostFunctions(namespace, untrusted) ==
    [stubs        |-> [i \in DOMAIN untrusted |->
                        BuildStubFunction(untrusted[i], CallbackName(namespace, untrusted[i]))],
     abi          |-> [i \in DOMAIN untrusted |->
                        BuildTrustBoundaryFunction(untrusted[i], FALSE)],
     declarations |-> [i \in DOMAIN untrusted |-> Declaration(untrusted[i])],
     size         |-> Len(untrusted) + 2,
     addresses    |-> Allocators \o [i \in DOMAIN untrusted |-> AbiName(untrusted[i])],
     names        |-> Allocators \o
                        [i \in DOMAIN untrusted |-> CallbackName(namespace, untrusted[i])]]

\* What the enclave exports, and what the linker must not drop.
BuildVtl1ExportedFunctionsSourcefile(namespace, trusted) ==
    {AbiName(trusted[i]) : i \in DOMAIN trusted} \cup {RegisterCallbacks(namespace)}

BuildVtl1PragmaStatementsSourcefile(namespace, trusted) ==
    {AbiName(trusted[i]) : i \in DOMAIN trusted} \cup {RegisterCallbacks(namespace)}

-----------------------------------------------------------------------------
(* Files.                                                                    *)

SaveTrustedHeader(layer, toEnclave, toHost, namespace) ==
    IF layer = "Enclave"
    THEN Save("Implementation/Trusted.h", [declarations |-> toEnclave.declarations])
    ELSE Save("Stubs/Trusted.h",
              [stubs |-> toEnclave.stubs, registers |-> RegisterCallbacks(namespace),
               size |-> toHost.size, addresses |-> toHost.addresses, names |-> toHost.names])

SaveUntrustedHeader(layer, toHost) ==
    IF layer = "Enclave"
    THEN Save("Stubs/Untrusted.h", [stubs |-> toHost.stubs])
    ELSE Save("Implementation/Untrusted.h", [declarations |-> toHost.declarations])

SaveAbiDefinitionsHeader(layer, toEnclave, toHost) ==
    Save("Abi/Definitions.h",
         [abi |-> IF layer = "Enclave" THEN toEnclave.abi ELSE toHost.abi])

-----------------------------------------------------------------------------
(* All files of one side.                                                    *)

BuildStructField(d) == [name |-> d.name, type |-> GetFullDeclarationType(d)]

BuildAbiTypesHeader(abiTypes) ==
    [i \in DOMAIN abiTypes |->
        [name |-> abiTypes[i].name,
         fields |-> [j \in DOMAIN abiTypes[i].fields |->
                        BuildStructField(abiTypes[i].fields[j])]]]

\* The members of a structure in both of its representations, in order.
BuildStructMetaData(struct) ==
    [name |-> struct.name,
     members |-> [i \in DOMAIN struct.fields |-> struct.fields[i].name]]

BuildAbiTypesMetadataHeader(types, abiTypes) ==
    LET all == OfKind(types, {"struct"})
    IN  [i \in DOMAIN all |-> BuildStructMetaData(all[i])]
            \o [i \in DOMAIN abiTypes |-> BuildStructMetaData(abiTypes[i])]

(* GenerateCpp, given the header of the developer's types: everything is     *)
(* built, schema included, before the first file is saved.                   *)
CppSteps(edl, layer, namespace, types) ==
    LET abiTypes  == CreateDeveloperTypesForABIFunctions(edl)
        schema    == GenerateFlatbufferSchema(edl.types, abiTypes)
        toEnclave == BuildHostToEnclaveFunctions(namespace, edl.trusted)
        toHost    == BuildEnclaveToHostFunctions(namespace, edl.untrusted)
        exports   == <<Save("Abi/Exports.cpp",
                            BuildVtl1ExportedFunctionsSourcefile(namespace, edl.trusted)),
                       Save("Abi/LinkerPragmas.cpp",
                            BuildVtl1PragmaStatementsSourcefile(namespace, edl.trusted))>>
    IN  IF Refused(schema) THEN <<Fail(schema.err)>>
        ELSE IF layer \notin {"Enclave", "HostApp"}
        THEN <<Fail("VirtualTrustLayerInvalidType")>>
        ELSE (IF layer = "Enclave" THEN exports ELSE <<>>)
             \o <<Save("Implementation/Types.h", types),
                  SaveTrustedHeader(layer, toEnclave, toHost, namespace),
                  SaveUntrustedHeader(layer, toHost),
                  SaveAbiDefinitionsHeader(layer, toEnclave, toHost),
                  Save("Abi/AbiTypes.h", BuildAbiTypesHeader(abiTypes)),
                  Save("Abi/TypeMetadata.h", BuildAbiTypesMetadataHeader(edl.types, abiTypes)),
                  Save("Abi/FlatbufferTypes.fbs", SchemaFile(edl.types, schema)),
                  Save("Abi/EdlTypes.fbs", {}),
                  Compile("Abi/FlatbufferTypes.fbs")>>

-----------------------------------------------------------------------------
\* What a stub calls is there: the host's stubs and its registration call
\* what the enclave exports, and the enclave's stubs look up what the host
\* registers, at the address of the function they are for.
CallsResolve(enclave, host) ==
    LET boundary == enclave["Abi/Definitions.h"].abi
        callback == host["Abi/Definitions.h"].abi
        table    == host["Stubs/Trusted.h"]
        names(s) == [i \in DOMAIN s |-> s[i].name]
    IN  /\ IsInjective(names(boundary))
        /\ enclave["Abi/Exports.cpp"] = ToSet(names(boundary))
        /\ enclave["Abi/LinkerPragmas.cpp"] = ToSet(names(boundary))
        /\ table.registers \in ToSet(names(boundary))
        /\ \A stub \in ToSet(table.stubs) : \E b \in ToSet(boundary) :
                b.name = stub.abi /\ b.calls = stub.name /\ b.restricts
        /\ Len(table.names) = table.size /\ Len(table.addresses) = table.size
        /\ IsInjective(table.names)
        /\ \A stub \in ToSet(enclave["Stubs/Untrusted.h"].stubs) :
                \E i \in DOMAIN table.names :
                    /\ table.names[i] = stub.abi
                    /\ \E c \in ToSet(callback) :
                            c.name = table.addresses[i] /\ c.calls = stub.name

=============================================================================
