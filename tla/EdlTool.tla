------------------------------- MODULE EdlTool -------------------------------
(***************************************************************************)
(* Builds of a project with edlcodegen.exe and calls through what they     *)
(* made (EdlBuild, EdlCalls), by the parser (EdlParser), the command line  *)
(* (CommandLine) and the generators (CppCodegen, RustCodegen) of the tool. *)
(***************************************************************************)
EXTENDS EdlCalls

CONSTANTS
    MaxU64,                 \* as in EdlParser
    Disk, Lists, SnakeCase  \* as in CommandLine

Parser  == INSTANCE EdlParser
Command == INSTANCE CommandLine
Cpp     == INSTANCE CppCodegen

-----------------------------------------------------------------------------
(* The parameters of EdlBuild are the tool's methods.                        *)

ToolUnset                      == Command!Unset
ToolKind(path)                 == Command!Kind(path)
ToolParseArguments(line)       == Command!ParseArguments(line)
ToolOpen(file, text, abi)      == Parser!Open(file, text, abi)
ToolMove(p)                    == Parser!Move(p)
ToolThrow(p, condition, error) == Parser!Throw(p, condition, error)
ToolExpect(p, token)           == Parser!Expect(p, token)
ToolParseFunctions(p, side)    == Parser!ParseFunctions(p, side)
ToolParseEnum(p)               == Parser!ParseEnum(p)
ToolParseStruct(p)             == Parser!ParseStruct(p)
ToolValidations(p)             == Parser!PerformFinalValidations(p)
ToolMergeEdl(p, imported)      == Parser!MergeEdl(p, imported)
ToolEdl(p)                     == Parser!Edl(p)

ToolRemoveOuterQuotes(token) == IF token \in DOMAIN Quoted THEN Quoted[token] ELSE token

ToolGenerator(source, s) ==
    CASE s.language = "c++"  -> Cpp!GenerateCpp(source, s.layer, Namespace(s))
      [] s.language = "rust" -> GenerateRust(source, s.layer, Namespace(s))
      [] OTHER               -> <<>>

-----------------------------------------------------------------------------
(* Properties.                                                               *)

\* The form of an interface that the generators rely on (ToolProofs), but for
\* parameters marked [] (ParseFunctions).
InForm(source) == \A side \in {"trusted", "untrusted"} :
    /\ Numbered(source[side])
    /\ \A f \in ToSet(source[side]) :
        Accepted(f) \/ \E d \in ToSet(f.parameters) : d.attributes = {}

\* A structure held in an optional is complete where the optional is, and no
\* structure is left out or defined twice, in whatever order and in whatever
\* file they were written ("These structs must be fully defined before this
\* struct", Parser.cpp:1144).
OptionalsComeFirst ==
    \A layer \in {"Enclave", "HostApp"} :
        "Implementation/Types.h" \in DOMAIN saved[layer] =>
            LET types == saved[layer]["Implementation/Types.h"]
                at(name) == {i \in DOMAIN types.structs : types.structs[i].name = name}
            IN  /\ {types.structs[i].name : i \in DOMAIN types.structs} = types.declared
                /\ Cardinality(types.declared) = Len(types.structs)
                /\ \A i \in DOMAIN types.structs :
                    \A d \in ToSet(types.structs[i].fields) :
                        d.type[1] = "optional" /\ d.type[2] \in types.declared =>
                            \E j \in at(d.type[2]) : j < i

\* How far the innermost parser is in its file, what it looks ahead included.
Position(p) == p.at + Cardinality({x \in {"cur", "next"} : p[x] = Eof})

(* Every step of a run uses up something there is only so much of: command lines,  *)
(* files not opened yet, files open, what is left of the innermost one,      *)
(* steps of the generator, in this order.  So a run ends, whatever the files *)
(* say: imports that name each other, text that stops anywhere (ParseInternal,*)
(* ParseImport, ParseBody).                                                  *)
Progress ==
    [][Running /\ Running' =>
        \/ Len(todo') < Len(todo)
        \/ stage = "parse" /\ stage' = "generate"
        \/ stage = "generate" /\ (stage' = "line" \/ Len(steps') < Len(steps))
        \/ /\ stage = "parse" /\ stage' = "parse"
           /\ \/ DOMAIN files \subseteq DOMAIN files' /\ DOMAIN files # DOMAIN files'
              \/ /\ DOMAIN files = DOMAIN files'
                 /\ \/ Len(frames') < Len(frames)
                    \/ /\ Len(frames') = Len(frames)
                       /\ \/ Position(Top') > Position(Top)
                          \/ Top.err = "" /\ Top.err' # ""]_ToolVars

=============================================================================
