---------------------------- MODULE CommandLine ----------------------------
(***************************************************************************)
(* The command line of edlcodegen.exe: CmdlineArgumentsParser.cpp and      *)
(* CmdlineParsingHelpers.h.  A line is the sequence of its words after the *)
(* program's name; options and keywords are in lower case, to which the    *)
(* parser brings them.                                                     *)
(***************************************************************************)
EXTENDS Naturals, Sequences, SequencesExt

CONSTANTS
    Disk,       \* what is on the disk: a path's kind, "directory", ".edl",
                \* "flatc.exe" or "file"
    Lists,      \* the words that are lists, and the paths Split makes of them
    SnakeCase   \* the words IsLowerSnakeCase accepts

RequiredArgs == 3

Unset ==
    [language |-> "", edl |-> "", directory |-> "", errors |-> "", layer |-> "",
     namespace |-> "", class |-> "", imports |-> <<>>, flatc |-> "",
     i |-> 1, found |-> 0, help |-> FALSE, err |-> ""]

Kind(path) == IF path \in DOMAIN Disk THEN Disk[path] ELSE ""

-----------------------------------------------------------------------------
(* The options.  s.i is the option's place in the line; its value follows.   *)

\* The word the option's value is, or the error of an option without one.
With(line, s, noMore, Apply(_, _)) ==
    IF s.i + 1 > Len(line) THEN [s EXCEPT !.err = noMore]
    ELSE [Apply(s, line[s.i + 1]) EXCEPT !.i = s.i + 2, !.found = @ + 1]

Reject(s, error) == [s EXCEPT !.err = error]

GetSupportedLanguageForCodeGen(s, word) ==
    IF word \in {"c++", "rust"} THEN [s EXCEPT !.language = word]
    ELSE Reject(s, "UnsupportedLanguage")

GetEdlPathFromArgs(s, word) ==
    CASE Kind(word) = ""     -> Reject(s, "EdlDoesNotExist")
      [] Kind(word) = ".edl" -> [s EXCEPT !.edl = word]
      [] OTHER               -> Reject(s, "NotAnEdlFile")

GetPathToOutputDirectoryFromArgs(s, word) == [s EXCEPT !.directory = word]

\* Read and checked, and used by nobody.
GetErrorHandlingFromArg(s, word) ==
    IF word \in {"errorcode", "exception"} THEN [s EXCEPT !.errors = word]
    ELSE Reject(s, "ErrorHandlingInvalidType")

GetVirtualTrustLayerFromArg(s, word) ==
    CASE word = "hostapp" -> [s EXCEPT !.layer = "HostApp"]
      [] word = "enclave" -> [s EXCEPT !.layer = "Enclave"]
      [] OTHER            -> Reject(s, "VirtualTrustLayerInvalidType")

GetFlatbuffersCompilerPathFromArgs(s, word) ==
    CASE Kind(word) = ""          -> Reject(s, "FlatbufferCompilerDoesNotExist")
      [] Kind(word) = "flatc.exe" -> [s EXCEPT !.flatc = word]
      [] OTHER                    -> Reject(s, "NotAFile")

\* Split, at the semicolons.
Split(word) == IF word \in DOMAIN Lists THEN Lists[word] ELSE <<word>>

\* The directories of several options add up.
GetImportDirectoriesFromArgs(s, word) ==
    IF \A i \in DOMAIN Split(word) : Kind(Split(word)[i]) = "directory"
    THEN [s EXCEPT !.imports = @ \o Split(word)]
    ELSE Reject(s, "ImportDirectoryDoesNotExist")

\* The rest of main's class: these two take the next word unseen, past the
\* end of the line a null pointer.
SetNamespace(s, word) == [s EXCEPT !.namespace = word]
SetClassName(s, word) == [s EXCEPT !.class = word]

Option(line, s) ==
    LET word == line[s.i]
    IN  CASE word \in {"-h", "--help"} -> [s EXCEPT !.help = TRUE]
          [] word = "--language" ->
                With(line, s, "LanguageNoMoreArgs", GetSupportedLanguageForCodeGen)
          [] word = "--edlpath" -> With(line, s, "EdlNoMoreArgs", GetEdlPathFromArgs)
          [] word = "--outputdirectory" ->
                With(line, s, "OutputDirNoMoreArgs", GetPathToOutputDirectoryFromArgs)
          [] word = "--errorhandling" ->
                With(line, s, "ErrorHandlingNoMoreArgs", GetErrorHandlingFromArg)
          [] word = "--virtualtrustlayer" ->
                With(line, s, "VirtualTrustLayerNoMoreArgs", GetVirtualTrustLayerFromArg)
          [] word = "--namespace" -> With(line, s, "crash", SetNamespace)
          [] word = "--vtl0classname" -> With(line, s, "crash", SetClassName)
          [] word = "--importdirectories" ->
                With(line, s, "ImportDirectoriesNoMoreArgs", GetImportDirectoriesFromArgs)
          [] word = "--flatbufferscompilerpath" ->
                With(line, s, "FlatbufferCompilerNoMoreArgs", GetFlatbuffersCompilerPathFromArgs)
          [] OTHER -> Reject(s, "InvalidArgument")

\* The options from s on: the first error ends the line, and so does help.
RECURSIVE Options(_, _)
Options(line, s) ==
    IF s.err # "" \/ s.help \/ s.i > Len(line) THEN s ELSE Options(line, Option(line, s))

IsLowerSnakeCase(word) == word \in SnakeCase

(* ParseArguments.  Any three options will do: which ones is not looked at.  *)
ParseArguments(line) ==
    LET s == Options(line, Unset)
    IN  IF line = <<>> THEN Reject(s, "MissingArgument")
        ELSE IF s.err # "" \/ s.help THEN s
        ELSE IF s.language = "rust" /\ ~IsLowerSnakeCase(s.namespace)
        THEN Reject(s, "RustNamespaceMustBeSnakeCase")
        ELSE IF s.found < RequiredArgs THEN Reject(s, "IncorrectNonHelpArgsProvided")
        ELSE s

=============================================================================
