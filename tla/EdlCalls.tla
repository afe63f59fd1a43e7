------------------------------- MODULE EdlCalls -------------------------------
(***************************************************************************)
(* What a build of a project is for: two halves, one of each layer, whose  *)
(* files refer to each other's definitions, and calls through the stubs of *)
(* either half once both are there.  EdlBuild makes the files.             *)
(***************************************************************************)
EXTENDS EdlBuild, Marshal, CppFunctions, RustCodegen

VARIABLE last       \* the last call of a stub

ToolVars == <<vars, last>>

NoCall == [function |-> <<>>, args |-> <<>>, result |-> <<>>]

ToolInit == Init /\ last = NoCall

-----------------------------------------------------------------------------
(* A call through a stub, once both layers are there.                        *)

Stubs(file, layer) == IF file \in DOMAIN saved[layer] THEN saved[layer][file].stubs ELSE <<>>

\* The files of the stubs of one side's functions, and who calls them.
StubsOf(side, language) ==
    CASE language = "c++" /\ side = "trusted"    -> Stubs("Stubs/Trusted.h", "HostApp")
      [] language = "c++" /\ side = "untrusted"  -> Stubs("Stubs/Untrusted.h", "Enclave")
      [] language = "rust" /\ side = "trusted"   -> Stubs("stubs/trusted.rs", "HostApp")
      [] language = "rust" /\ side = "untrusted" -> Stubs("stubs/untrusted.rs", "Enclave")
      [] OTHER                                   -> <<>>

\* The boundary functions of one side, in Rust.
ClosuresOf(side) ==
    saved[IF side = "trusted" THEN "Enclave" ELSE "HostApp"]["abi/definitions.rs"].abi

\* What a call of the i-th function of one side comes to.
Outcome(side, language, i, args) ==
    IF language = "c++" THEN CallCpp(edl[side][i], StubsOf(side, language)[i], args)
    ELSE CallRust(edl[side][i], StubsOf(side, language)[i], ClosuresOf(side)[i].closure, args)

Call(side) ==
    /\ stage = "built" /\ BothLayers
    /\ \E i \in DOMAIN StubsOf(side, settings.language) : \E args \in Arguments(edl[side][i]) :
        last' = [function |-> edl[side][i], args |-> args,
                 result |-> Outcome(side, settings.language, i, args)]
    /\ UNCHANGED vars

-----------------------------------------------------------------------------
ToolNext == (Next /\ UNCHANGED last) \/ Call("trusted") \/ Call("untrusted")

ToolSafety == ToolInit /\ [][ToolNext]_ToolVars

-----------------------------------------------------------------------------
(* Properties.                                                               *)

\* The lines of the project are for one interface: they differ in the layer only.
OneInterface ==
    /\ OneInput
    /\ \A i, j \in DOMAIN Ran :
        /\ Ran[i].language = Ran[j].language
        /\ Namespace(Ran[i]) = Namespace(Ran[j])

\* Both sides agree on what is called and on the structures that cross.
CppSidesAgree ==
    /\ CallsResolve(saved["Enclave"], saved["HostApp"])
    /\ Same({"Implementation/Types.h", "Abi/AbiTypes.h", "Abi/TypeMetadata.h",
             "Abi/FlatbufferTypes.fbs"})

RustSidesAgree ==
    /\ StubsReach(saved["Enclave"], saved["HostApp"])
    /\ Same({"implementation/types.rs", "abi/abi_types.rs",
             "abi/flatbuffer_gen/FlatbufferTypes.fbs"})

\* Two runs of the tool, one for each layer, make two halves of one interface:
\* the numbers in the names of functions, which count functions over all files
\* of a run, come out the same (ParseFunctions' static index, the builders of
\* both languages).
SidesAgree ==
    stage = "built" /\ BothLayers /\ OneInterface =>
        IF settings.language = "c++" THEN CppSidesAgree ELSE RustSidesAgree

\* A call through a stub gives the implementation what the caller gave, and
\* the caller what the implementation wrote (BuildStubFunction and CallDevImpl;
\* GetCloneToAbiStructStatements, GetClosureFunctionStatement and
\* GetMoveFromAbiStructToParamStatements), but for the functions Broken names.
ValuesArrive ==
    \/ last = NoCall \/ Broken(settings.language, last.function)
    \/ Arrive(settings.language, last.function, last.args, last.result)

\* The same for every function of a C++ interface: "Move all values out of the
\* return struct and into their in-out/out function parameter counterpart"
\* (CppCodeBuilder.cpp, BuildStubFunction).
CppValuesArrive ==
    last # NoCall /\ settings.language = "c++" =>
        Arrive("c++", last.function, last.args, last.result)

=============================================================================
