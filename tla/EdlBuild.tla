------------------------------- MODULE EdlBuild -------------------------------
(***************************************************************************)
(* edlcodegen.exe, and a build of a project with it: the tool runs once    *)
(* for each command line of the project, each time in a new process, and   *)
(* a run that fails ends the build.                                        *)
(*                                                                         *)
(* A run reads its command line, parses a file and what it imports, one    *)
(* construct of a file's body at a time, and then takes the steps of the   *)
(* generator of its language.  A file may refuse to be written, and the    *)
(* flatbuffer compiler may fail.                                           *)
(*                                                                         *)
(* This is the driver: main, ParseInternal, ParseBody and ParseImport.     *)
(* What a method of the parser makes of its parser and what a generator    *)
(* makes of an interface are parameters, which EdlTool gives their values. *)
(***************************************************************************)
EXTENDS Naturals, Sequences, Functions

CONSTANTS
    Projects,                   \* records with the command lines and the texts of files
    Path(_, _),                 \* directory / file
    Absolute,                   \* the paths that are absolute
    PathKind(_),                \* what is at a path
    NoSettings,                 \* the settings before a command line is read
    ParseLine(_),               \* the settings a command line makes
    Generator(_, _),            \* the steps for what was parsed, under some settings
    EndOfText,                  \* the token at the end of a file
    OpenFile(_, _, _),          \* a parser at the body of a file
    NextToken(_),               \* the parser a token further
    ThrowIf(_, _, _),           \* the parser, with an error if a condition holds
    ExpectToken(_, _),          \* past a token that must be there
    FunctionsBlock(_, _),       \* what each construct makes of the parser
    EnumBlock(_),
    StructBlock(_),
    RemoveOuterQuotes(_),       \* the file a quoted token names
    Validate(_),                \* the checks at the end of a file
    MergeInto(_, _),            \* an importer with what it imports
    ParsedEdl(_)                \* what a parser leaves of its file

\* What a construct of a file's body begins with.
Keywords == {"trusted", "untrusted", "enum", "struct", "import"}

\* A project has a line to run, and a file does not end in a keyword.
ASSUME BuildAssumption ==
    /\ EndOfText \notin Keywords
    /\ \A p \in Projects : p.lines \in Seq(Range(p.lines)) /\ p.lines # <<>>

VARIABLES
    project,        \* what is built
    todo,           \* its command lines not run yet
    stage,          \* "line", "parse", "generate", "built" or "stopped"
    settings,       \* what the command line says
    frames,         \* the file and the imports being read, each with its parser
    files,          \* parsed_files: "parsing" or "parsed"
    edl,            \* what the last run parsed
    steps,          \* what its generator still has to do
    saved,          \* of each layer, the files on the disk
    outcome         \* what the last run returned

vars == <<project, todo, stage, settings, frames, files, edl, steps, saved, outcome>>

NoEdl == [types |-> <<>>, trusted |-> <<>>, untrusted |-> <<>>]

\* What a record that may hold an error holds when there was none.
NoError == ""

Layers == {"Enclave", "HostApp"}

Update(f, x, y) == [z \in DOMAIN f \cup {x} |-> IF z = x THEN y ELSE f[z]]

Frame(file, parser) == [file |-> file, parser |-> parser]

Init ==
    /\ project \in Projects
    /\ todo = project.lines
    /\ stage = "line"
    /\ settings = NoSettings
    /\ frames = <<>>
    /\ files = <<>>
    /\ edl = NoEdl
    /\ steps = <<>>
    /\ saved = [layer \in Layers |-> <<>>]
    /\ outcome = NoError

Stop(result) == stage' = "stopped" /\ outcome' = result

-----------------------------------------------------------------------------
(* main, up to the parser.                                                   *)

Line == ParseLine(Head(todo))

ReadLine ==
    /\ stage = "line"
    /\ settings' = Line
    /\ todo' = Tail(todo)
    /\ UNCHANGED <<project, edl, steps, saved>>

LineRejected ==
    /\ ReadLine
    /\ Line.err # NoError
    /\ Stop(IF Line.err = "crash" THEN "crash" ELSE "E_INVALIDARG")
    /\ UNCHANGED <<frames, files>>

ShowHelp ==
    /\ ReadLine
    /\ Line.err = NoError /\ Line.help
    /\ Stop("S_OK")
    /\ UNCHANGED <<frames, files>>

\* A path without a file does not load, and without --EdlPath there is no
\* path.  An empty file does.
Loads(path) == path \in DOMAIN project.texts

FailureToLoadFile ==
    /\ ReadLine
    /\ Line.err = NoError /\ ~Line.help
    /\ ~Loads(Line.edl)
    /\ Stop("EdlFailureToLoadFile")
    /\ UNCHANGED <<frames, files>>

\* The first parser, that of the file the command line names.
Opened(texts, path) == <<Frame(path, OpenFile(path, texts[path], 0))>>

StartParsing ==
    /\ ReadLine
    /\ Line.err = NoError /\ ~Line.help
    /\ Loads(Line.edl)
    /\ stage' = "parse" /\ outcome' = NoError
    /\ frames' = Opened(project.texts, Line.edl)
    /\ files' = Update(<<>>, Line.edl, "parsing")

-----------------------------------------------------------------------------
(* ParseBody of the innermost file, one turn of its loop at a time.          *)

File == frames[Len(frames)].file
Top  == frames[Len(frames)].parser

\* Each file has one parser, which its methods change in place.
InPlace(p) == [frames EXCEPT ![Len(frames)] = Frame(File, p)]

\* What the keyword's method makes of the parser after the keyword.
Construct(keyword, p) ==
    /\ stage = "parse"
    /\ Top.err = NoError /\ Top.cur = keyword
    /\ frames' = InPlace(p)
    /\ UNCHANGED <<project, todo, stage, settings, files, edl, steps, saved, outcome>>

Trusted       == Construct("trusted", FunctionsBlock(NextToken(Top), "trusted"))
Untrusted     == Construct("untrusted", FunctionsBlock(NextToken(Top), "untrusted"))
Enumeration   == Construct("enum", EnumBlock(NextToken(Top)))
Structure     == Construct("struct", StructBlock(NextToken(Top)))

UnexpectedToken ==
    /\ stage = "parse"
    /\ Top.cur \notin Keywords \cup {"}", EndOfText}
    /\ Construct(Top.cur, ThrowIf(NextToken(Top), TRUE, "EdlUnexpectedToken"))

FileExistsAndIsEdl(path) == PathKind(path) = ".edl"

\* Where an import is found: where it says, or in the first import directory
\* that has it.
FullPaths(imports, name) ==
    IF name \in Absolute /\ FileExistsAndIsEdl(name) THEN <<name>>
    ELSE SelectSeq([i \in DOMAIN imports |-> Path(imports[i], name)],
                   FileExistsAndIsEdl)

\* Files that are done only.
SeenParsed(path) == path \in DOMAIN files /\ files[path] = "parsed"

\* parsed_files has the path.
Seen(path) == path \in DOMAIN files

(* ParseImport.  A file that is being parsed already is a cycle; one that is *)
(* parsed is not merged again; any other is parsed now, by a parser of its   *)
(* own that counts functions on from where this one is.                      *)
Import ==
    /\ stage = "parse"
    /\ Top.err = NoError /\ Top.cur = "import"
    /\ LET name  == NextToken(Top)
           file  == NextToken(name)
           paths == FullPaths(settings.imports, RemoveOuterQuotes(file.ret))
           p     == ExpectToken(ThrowIf(file, paths = <<>>, "ImportedEdlFileDoesNotExist"), ";")
           known == p.err = NoError /\ Seen(paths[1])
           q     == ThrowIf(p, known /\ files[paths[1]] = "parsing", "ImportCycleFound")
           here  == InPlace(q)
       IN  IF p.err # NoError \/ known
           THEN frames' = here /\ UNCHANGED files
           ELSE /\ frames' = Append(here, Frame(paths[1],
                                OpenFile(paths[1], project.texts[paths[1]], p.abi)))
                /\ files' = Update(files, paths[1], "parsing")
    /\ UNCHANGED <<project, todo, stage, settings, edl, steps, saved, outcome>>

-----------------------------------------------------------------------------
(* The end of a file.                                                        *)

\* A file that stays as it was when its parser is done.
CompletedNot(file) == files
Completed(file) == [files EXCEPT ![file] = "parsed"]

(* The validations, the closing bracket, and back to the importer, which     *)
(* merges what it imported, or to main, which starts the generator.          *)
EndOfFile ==
    /\ stage = "parse"
    /\ Top.err = NoError /\ Top.cur \in {"}", EndOfText}
    /\ LET p == ExpectToken(Validate(Top), "}")
           importer == frames[Len(frames) - 1]
       IN  \/ /\ p.err # NoError
              /\ frames' = InPlace(p)
              /\ UNCHANGED <<stage, files, edl, steps>>
           \/ /\ p.err = NoError /\ Len(frames) > 1
              /\ frames' = Append(SubSeq(frames, 1, Len(frames) - 2),
                                  Frame(importer.file,
                                        [MergeInto(importer.parser, ParsedEdl(p)) EXCEPT !.abi = p.abi]))
              /\ files' = Completed(File)
              /\ UNCHANGED <<stage, edl, steps>>
           \/ /\ p.err = NoError /\ Len(frames) = 1
              /\ frames' = <<>>
              /\ files' = Completed(File)
              /\ stage' = "generate"
              /\ edl' = ParsedEdl(p)
              /\ steps' = Generator(ParsedEdl(p), settings)
    /\ UNCHANGED <<project, todo, settings, saved, outcome>>

\* An exception leaves every parser; main prints it and returns its result.
\* A lexer that runs past the end of its buffer may not come back.
Thrown ==
    /\ stage = "parse"
    /\ Top.err # NoError
    /\ IF Top.err = "PastTheEnd"
       THEN Stop("EdlUnexpectedToken") \/ Stop("crash")
       ELSE Stop(Top.err)
    /\ frames' = <<>>
    /\ UNCHANGED <<project, todo, settings, files, edl, steps, saved>>

-----------------------------------------------------------------------------
(* The steps of the generator.                                               *)

Step(kind) ==
    /\ stage = "generate"
    /\ steps # <<>> /\ Head(steps).kind = kind
    /\ steps' = Tail(steps)
    /\ UNCHANGED <<project, todo, settings, frames, files, edl>>

\* SaveFileToOutputFolder overwrites what an earlier build left.
SaveFile ==
    /\ Step("save")
    /\ saved' = [saved EXCEPT ![settings.layer] = Update(@, Head(steps).file, Head(steps).content)]
    /\ UNCHANGED <<stage, outcome>>

SaveFails ==
    /\ Step("save")
    /\ Stop("CodeGenUnableToOpenOutputFile")
    /\ UNCHANGED saved

GeneratorThrows ==
    /\ Step("throw")
    /\ Stop(Head(steps).file)
    /\ UNCHANGED saved

CompileFlatbufferFile ==
    /\ Step("compile")
    /\ UNCHANGED <<stage, outcome, saved>>

CompilerFails ==
    /\ Step("compile")
    /\ Stop("FlatbufferCompilerError")
    /\ UNCHANGED saved

Finished ==
    /\ stage = "generate" /\ steps = <<>>
    /\ outcome' = "S_OK"
    /\ stage' = IF todo = <<>> THEN "built" ELSE "line"
    /\ UNCHANGED <<project, todo, settings, frames, files, edl, steps, saved>>

-----------------------------------------------------------------------------
Run ==
    \/ LineRejected \/ ShowHelp \/ FailureToLoadFile \/ StartParsing
    \/ Trusted \/ Untrusted \/ Enumeration \/ Structure \/ UnexpectedToken \/ Import
    \/ EndOfFile \/ Thrown
    \/ SaveFile \/ SaveFails \/ GeneratorThrows \/ CompileFlatbufferFile \/ CompilerFails
    \/ Finished

Running == stage \in {"line", "parse", "generate"}

\* The build is over.
Over == ~Running /\ UNCHANGED vars

Next == Run \/ Over

Safety == Init /\ [][Next]_vars

-----------------------------------------------------------------------------
\* The tool is in one place at a time: files being read are exactly those of
\* the parsers at work, innermost last and each once, and nothing is generated
\* while one is (ParseInternal, ParseImport, main).
TypeOK ==
    /\ stage \in {"line", "parse", "generate", "built", "stopped"}
    /\ frames # <<>> <=> stage = "parse"
    /\ steps # <<>> => stage \in {"generate", "stopped"}
    /\ stage = "parse" =>
        /\ {frames[i].file : i \in DOMAIN frames} =
                {file \in DOMAIN files : files[file] = "parsing"}
        /\ IsInjective([i \in DOMAIN frames |-> frames[i].file])

\* The settings of the project's lines.
Ran == [i \in DOMAIN project.lines |-> ParseLine(project.lines[i])]

\* The lines of the project are for the same files.
OneInput ==
    \A i, j \in DOMAIN Ran : Ran[i].edl = Ran[j].edl /\ Ran[i].imports = Ran[j].imports

\* A file of a layer with some content is what a step of the generator saves.
Saves(source, line, layer, file, content) ==
    /\ ParseLine(line).layer = layer
    /\ \E step \in Range(Generator(source, ParseLine(line))) :
        step.kind = "save" /\ step.file = file /\ step.content = content

\* Two runs on the same files make the two halves of one interface: when a build
\* is done, every file of either layer says what the generator makes of the one
\* interface that the last run read, under the settings of a line of that
\* layer.  A run starts from nothing that an earlier run left (main).
OneSource ==
    stage = "built" /\ OneInput =>
        \A layer \in Layers : \A file \in DOMAIN saved[layer] :
            \E line \in Range(project.lines) :
                Saves(edl, line, layer, file, saved[layer][file])

\* Every file that the generator makes of an interface, for a line, is there.
Complete(source, line) ==
    \A step \in Range(Generator(source, ParseLine(line))) :
        /\ step.kind # "throw"
        /\ step.kind = "save" /\ ParseLine(line).layer \in Layers =>
                step.file \in DOMAIN saved[ParseLine(line).layer]

\* And neither half lacks a file: a run that ends well has taken every step of
\* its generator (Finished), and no later run takes a file away.
NothingMissing ==
    stage = "built" /\ OneInput => \A line \in Range(project.lines) : Complete(edl, line)

\* Both layers have been generated.
BothLayers == \A layer \in Layers : DOMAIN saved[layer] # {}

\* Files that the two layers have in common.
Same(generated) == \A file \in generated : saved["Enclave"][file] = saved["HostApp"][file]

=============================================================================
