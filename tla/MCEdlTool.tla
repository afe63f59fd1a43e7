------------------------------ MODULE MCEdlTool ------------------------------
(***************************************************************************)
(* Instances of EdlTool: small projects written out from their syntax      *)
(* trees, and what such a tree means, said without a parser.               *)
(*                                                                         *)
(* A document is a sequence of items.  An item of another file is imported *)
(* where its name stands; files are found in one directory, "dir".         *)
(***************************************************************************)
EXTENDS EdlTool

MCDecimals   == [n \in {"1", "2", "3"} |-> CASE n = "1" -> 1 [] n = "2" -> 2 [] OTHER -> 3]
MCHexes      == [n \in {"0x2", "0x3"} |-> IF n = "0x2" THEN 2 ELSE 3]
MCQuoted     == [q \in {"\"L\"", "\"M\"", "\"C\"", "\"abs\"", "\"gone\""} |->
                    CASE q = "\"L\"" -> "L" [] q = "\"M\"" -> "M" [] q = "\"C\"" -> "C"
                      [] q = "\"abs\"" -> "abs" [] OTHER -> "gone"]
MCPrimitives == {"int32_t", "uint64_t"}
MCMaxU64     == 3
MCDisk       == [p \in {"root", "L", "M", "C", "dir/L", "dir/M", "dir/C", "abs", "dir",
                        "other", "flatc", "readme"} |->
                    CASE p \in {"dir", "other"} -> "directory"
                      [] p = "flatc"            -> "flatc.exe"
                      [] p = "readme"           -> "file"
                      [] OTHER                  -> ".edl"]
MCLists      == "dir;other" :> <<"other", "dir">>
MCSnakeCase  == {"ns", "edl"}
MCUpper(x)   == IF x = "0x2" THEN "0X2" ELSE IF x = "0x3" THEN "0X3" ELSE x
MCPath(d, f) == IF d = "other" THEN "other/" \o f ELSE d \o "/" \o f
MCAbsolute   == {"abs"}

-----------------------------------------------------------------------------
(* Trees, and their text.                                                    *)

Ty(name)         == <<name>>
Vec(name)        == <<"vector", "<", name, ">">>
Opt(name)        == <<"optional", "<", name, ">">>

D(attributes, type, name)       == [attributes |-> attributes, type |-> type, name |-> name, size |-> ""]
A(attributes, type, name, size) == [attributes |-> attributes, type |-> type, name |-> name, size |-> size]
F(type, name)                   == D(<<"none">>, type, name)
I(name, given)                  == [item |-> name, given |-> given]

Struct(name, decls) == [kind |-> "struct", name |-> name, list |-> decls]
Enum(name, items)   == [kind |-> "enum", name |-> name, list |-> items]
Anon(items)         == [kind |-> "anon", name |-> Anonymous, list |-> items]
Block(side, list)   == [kind |-> side, name |-> "", list |-> list]
Fn(type, name, list) == [type |-> type, name |-> name, parameters |-> list]
ImportOf(name)      == [kind |-> "import", name |-> name, list |-> <<>>]

Between(seq, comma) ==
    FlattenSeq([i \in DOMAIN seq |-> IF i = 1 THEN seq[i] ELSE <<comma>> \o seq[i]])

TextOfDeclaration(d) ==
    (IF d.attributes = <<"none">> THEN <<>>
     ELSE <<"[">> \o Between([i \in DOMAIN d.attributes |-> <<d.attributes[i]>>], ",") \o <<"]">>)
    \o d.type \o <<d.name>> \o (IF d.size = "" THEN <<>> ELSE <<"[", d.size, "]">>)

TextOfItems(items) ==
    Between([i \in DOMAIN items |->
                IF items[i].given = "" THEN <<items[i].item>>
                ELSE <<items[i].item, "=", items[i].given>>],
            ",")

TextOfFunction(f) ==
    f.type \o <<f.name, "(">>
        \o Between([i \in DOMAIN f.parameters |-> TextOfDeclaration(f.parameters[i])], ",")
        \o <<")", ";">>

TextOfItem(item) ==
    CASE item.kind = "struct" ->
            <<"struct", item.name, "{">>
            \o FlattenSeq([i \in DOMAIN item.list |-> TextOfDeclaration(item.list[i]) \o <<";">>])
            \o <<"}", ";">>
      [] item.kind = "enum"   -> <<"enum", item.name, "{">> \o TextOfItems(item.list) \o <<"}", ";">>
      [] item.kind = "anon"   -> <<"enum", "{">> \o TextOfItems(item.list) \o <<",", "}", ";">>
      [] item.kind = "import" -> <<"import", "\"" \o item.name \o "\"", ";">>
      [] OTHER -> <<item.kind, "{">>
                  \o FlattenSeq([i \in DOMAIN item.list |-> TextOfFunction(item.list[i])])
                  \o <<"}", ";">>

TextOf(document) ==
    <<"// ...\n", "enclave", "{">>
    \o FlattenSeq([i \in DOMAIN document |-> <<" ">> \o TextOfItem(document[i])])
    \o <<"}", "/* ... */", ";">>

-----------------------------------------------------------------------------
(* What a set of documents means.  docs is a function from file names to     *)
(* documents with "root" among them.                                         *)

Closure(edges, from) ==
    LET reach[n \in 0 .. 4] ==
            IF n = 0 THEN {from}
            ELSE reach[n - 1] \cup {e[2] : e \in {x \in edges : x[1] \in reach[n - 1]}}
    IN  reach[4]

Cyclic(edges) == \E e \in edges : e[1] \in Closure(edges, e[2])

ImportEdges(docs) ==
    UNION {{<<g, docs[g][i].name>> : i \in {j \in DOMAIN docs[g] : docs[g][j].kind = "import"}} :
                g \in DOMAIN docs}

\* The files a file needs, itself included.
Needs(docs, file) == Closure(ImportEdges(docs), file)

\* The items of some kinds of a set of files, with their places.
Items(docs, of, kinds) ==
    UNION {{[file |-> g, at |-> i, item |-> docs[g][i]] :
                i \in {j \in DOMAIN docs[g] : docs[g][j].kind \in kinds}} : g \in of}

Defined(docs, file) == Items(docs, Needs(docs, file), {"struct", "enum"})

DefinedNames(docs, file) == {t.item.name : t \in Defined(docs, file)}

BaseName(type) == type[IF Len(type) > 1 THEN 3 ELSE 1]

BuiltinNames == MCPrimitives \cup {"void", "string", "wstring"}

Functional == {"trusted", "untrusted"}

\* The lists of declarations of a file, with their places and the order in
\* which they are resolved: structures, trusted and untrusted functions.
Rank(kind) == CASE kind = "struct" -> 0 [] kind = "trusted" -> 1 [] OTHER -> 2

ListsIn(docs, file) ==
    {[place |-> <<0, t.at, 0>>, file |-> file, list |-> t.item.list] :
        t \in Items(docs, {file}, {"struct"})}
    \cup UNION {{[place |-> <<Rank(t.item.kind), t.at, i>>, file |-> file,
                  list |-> t.item.list[i].parameters] :
                    i \in DOMAIN t.item.list} : t \in Items(docs, {file}, Functional)}

ReturnsIn(docs, file) ==
    UNION {{[at |-> t.at, name |-> BaseName(t.item.list[i].type)] : i \in DOMAIN t.item.list} :
                t \in Items(docs, {file}, Functional)}

NamesIn(list) == {BaseName(list[i].type) : i \in DOMAIN list}

UsedIn(docs, file) ==
    UNION {NamesIn(l.list) : l \in ListsIn(docs, file)} \cup {r.name : r \in ReturnsIn(docs, file)}

\* The items of the anonymous enums a file has before place at.
Constants(docs, file, at) ==
    UNION {{t.item.list[i].item : i \in DOMAIN t.item.list} :
        t \in {u \in Items(docs, Needs(docs, file), {"anon"}) :
                \/ u.file = file /\ u.at < at
                \/ \E i \in 1 .. at - 1 : /\ docs[file][i].kind = "import"
                                          /\ u.file \in Needs(docs, docs[file][i].name)}}

Optionals(docs) ==
    UNION {{<<t.item.name, BaseName(t.item.list[i].type)>> :
                i \in {j \in DOMAIN t.item.list : t.item.list[j].type[1] = "optional"}} :
        t \in Items(docs, Needs(docs, "root"), {"struct"})}

Signature(f) ==
    <<f.name, [i \in DOMAIN f.parameters |-> <<f.parameters[i].type, f.parameters[i].size>>]>>

Signatures(docs, kind) ==
    {[file |-> p[1].file, at |-> <<p[1].at, p[2]>>, name |-> Signature(p[1].item.list[p[2]])] :
        p \in UNION {{<<t, i>> : i \in DOMAIN t.item.list} :
                        t \in Items(docs, Needs(docs, "root"), {kind})}}

ItemDefinitions(docs) ==
    UNION {{[file |-> t.file, at |-> <<t.at, i>>, name |-> <<t.item.name, t.item.list[i].item>>] :
                i \in DOMAIN t.item.list} :
            t \in Items(docs, Needs(docs, "root"), {"anon", "enum"})}

TypeDefinitions(docs) ==
    {[file |-> t.file, at |-> t.at, name |-> t.item.name] : t \in Defined(docs, "root")}

Definitions(docs) ==
    <<TypeDefinitions(docs), Signatures(docs, "trusted"), Signatures(docs, "untrusted"),
      ItemDefinitions(docs)>>

\* Nothing is defined twice; Within: by one file.
Once(defs)       == \A d, e \in defs : d.name = e.name => d = e
OnceWithin(defs) == \A d, e \in defs : d.name = e.name /\ d.file = e.file => d = e

WellFormed(docs) ==
    LET of == Needs(docs, "root")
    IN  /\ of \subseteq DOMAIN docs
        /\ ~Cyclic({e \in ImportEdges(docs) : e[1] \in of})
        /\ \A g \in of : UsedIn(docs, g) \subseteq BuiltinNames \cup DefinedNames(docs, g)
        /\ \A g \in of : \A l \in ListsIn(docs, g) : \A i \in DOMAIN l.list :
                l.list[i].size \in {""} \cup DOMAIN MCDecimals \cup DOMAIN MCHexes
                                        \cup Constants(docs, g, l.place[2])
        /\ \A t \in Items(docs, of, {"struct"}) : \A i \in DOMAIN t.item.list :
                t.item.list[i].type # Ty(t.item.name)
        /\ ~Cyclic(Optionals(docs))
        /\ \A i \in 1 .. 4 : OnceWithin(Definitions(docs)[i])

\* Two files define the same thing: the first one the importer sees counts, or
\* its own definition is refused.
Twice(docs) == \E i \in 1 .. 4 : ~Once(Definitions(docs)[i])

\* Where in a file a type is known from.
KnownAt(docs, file, name) ==
    {i \in DOMAIN docs[file] :
        \/ /\ docs[file][i].kind \in {"struct", "enum"}
           /\ docs[file][i].name = name
        \/ /\ docs[file][i].kind = "import"
           /\ name \in DefinedNames(docs, docs[file][i].name)}

Ahead(docs, file, at, name) ==
    name \notin BuiltinNames /\ \A i \in KnownAt(docs, file, name) : at < i

\* Lists of other files may be resolved before those of this one.
Earlier(l, m) ==
    \/ l.place[1] < m.place[1]
    \/ /\ l.place[1] = m.place[1]
       /\ \/ l.file # m.file
          \/ l.place[2] < m.place[2]
          \/ l.place[2] = m.place[2] /\ l.place[3] < m.place[3]

(* What the parser or the generator refuses of what is well-formed: a type   *)
(* used ahead of its definition in a list when an earlier list has it too    *)
(* (the first list that has it takes it off the unresolved ones), as the     *)
(* type returned, or, an enum, in a structure.                               *)
UsedAhead(docs) ==
    \E g \in Needs(docs, "root") :
        \/ \E r \in ReturnsIn(docs, g) : Ahead(docs, g, r.at, r.name)
        \/ \E l \in ListsIn(docs, g) : \E n \in NamesIn(l.list) :
            /\ Ahead(docs, g, l.place[2], n)
            /\ \/ \E m \in UNION {ListsIn(docs, h) : h \in Needs(docs, g)} :
                        Earlier(m, l) /\ n \in NamesIn(m.list)
               \/ /\ l.place[1] = 0
                  /\ \E t \in Defined(docs, g) : t.item.kind = "enum" /\ t.item.name = n

\* A file two others import, and one of them may come too late for its types
\* and constants.
Shared(docs) ==
    \E e, f \in ImportEdges(docs) : e # f /\ e[2] = f[2] /\ {e[1], f[1]} \subseteq Needs(docs, "root")

-----------------------------------------------------------------------------
KindOfName(docs, name) ==
    IF name \in BuiltinNames THEN name
    ELSE (CHOOSE t \in Defined(docs, "root") : t.item.name = name).item.kind

MeaningOfType(docs, type) ==
    IF Len(type) = 1
    THEN [name |-> type[1], kind |-> KindOfName(docs, type[1]), inner |-> NoType]
    ELSE [name |-> type[1], kind |-> type[1],
          inner |-> [name |-> type[3], kind |-> KindOfName(docs, type[3])]]

MeaningOfList(docs, list, implicit) ==
    [i \in DOMAIN list |->
        [name |-> list[i].name, type |-> MeaningOfType(docs, list[i].type),
         attributes |-> IF list[i].attributes = <<"none">> THEN implicit
                        ELSE ToSet(list[i].attributes),
         dims |-> IF list[i].size = "" THEN <<>> ELSE <<list[i].size>>]]

MeaningOfItems(items) ==
    LET value[i \in DOMAIN items] ==
            IF items[i].given # "" THEN NumberOf(items[i].given)
            ELSE IF i = 1 THEN 0 ELSE (value[i - 1] + 1) % (MCMaxU64 + 1)
    IN  [i \in DOMAIN items |-> <<items[i].item, value[i]>>]

Meaning(docs) ==
    LET of == Needs(docs, "root")
        functions(kind) ==
            UNION {{LET f == t.item.list[i]
                    IN  [function |-> f.name, return |-> MeaningOfType(docs, f.type),
                         parameters |-> MeaningOfList(docs, f.parameters, {"in"})] :
                        i \in DOMAIN t.item.list} : t \in Items(docs, of, {kind})}
    IN  [structs |-> {[name |-> t.item.name,
                       fields |-> MeaningOfList(docs, t.item.list, NoAttributes)] :
                            t \in Items(docs, of, {"struct"})},
         enums |-> {[name |-> t.item.name, items |-> MeaningOfItems(t.item.list)] :
                        t \in Items(docs, of, {"enum"})},
         constants |-> UNION {ToSet(MeaningOfItems(t.item.list)) :
                                t \in Items(docs, of, {"anon"})},
         trusted |-> functions("trusted"), untrusted |-> functions("untrusted")]

\* The same of what was parsed.
Parsed(source) ==
    LET valued(t) == [i \in DOMAIN t.items |-> <<t.items[i].name, t.items[i].value>>]
        function(f) == [function |-> f.function, return |-> f.return, parameters |-> f.parameters]
    IN  [structs |-> {[name |-> t.name, fields |-> t.fields] :
                        t \in ToSet(OfKind(source.types, {"struct"}))},
         enums |-> {[name |-> t.name, items |-> valued(t)] :
                        t \in ToSet(OfKind(source.types, {"enum"}))},
         constants |-> UNION {ToSet(valued(t)) :
                        t \in ToSet(OfKind(source.types, {Anonymous}))},
         trusted |-> {function(f) : f \in ToSet(source.trusted)},
         untrusted |-> {function(f) : f \in ToSet(source.untrusted)}]

-----------------------------------------------------------------------------
(* Properties.                                                               *)

Faults == {"CodeGenUnableToOpenOutputFile", "FlatbufferCompilerError"}

\* The generator has not begun, or the run has failed.
Decided ==
    \/ stage = "stopped"
    \/ stage = "generate" /\ (settings.layer = "" \/ saved[settings.layer] = <<>>)

\* What is generated is what the files say, imports included, and only files
\* that say something consistent are accepted; what is consistent is refused
\* only for a type that is used ahead or comes through a shared import.  What is
\* accepted has the form the generators rely on, and a run that ends in success
\* has written the files of a layer, unless it showed help or was not told a
\* language: the usage calls --Language and --VirtualTrustLayer mandatory
\* (CmdlineParsingHelpers.h:28-30), but only a generator looks at the layer, and
\* main takes a line without a language for one that is done (Parser.cpp, all
\* of it: one list of types, resolved once and merged file by file; main.cpp).
MeansWhatIsWritten ==
    /\ stage = "generate" => InForm(edl)
    /\ outcome = "S_OK" =>
        \/ settings.help
        \/ settings.language = ""
        \/ settings.layer # "" /\ saved[settings.layer] # <<>>
    /\ project.docs # <<>> /\ Decided =>
        /\ edl # NoEdl /\ ~Twice(project.docs) =>
            /\ WellFormed(project.docs)
            /\ UsedAhead(project.docs) \/ Parsed(edl) = Meaning(project.docs)
        /\ stage = "stopped" /\ outcome \notin Faults =>
            \/ ~WellFormed(project.docs) \/ Twice(project.docs)
            \/ UsedAhead(project.docs) \/ Shared(project.docs)

\* A file that two others import is read once, and that is enough: "As long as
\* we've parsed the imported file at least once we're ok" (Parser.cpp,
\* ParseImport).
OnceIsEnough ==
    project.docs # <<>> /\ stage = "stopped" /\ outcome \notin Faults =>
        \/ ~WellFormed(project.docs) \/ Twice(project.docs) \/ UsedAhead(project.docs)

-----------------------------------------------------------------------------
(* Projects.                                                                 *)

Constants1 == Anon(<<I("N", "2"), I("K", "")>>)
Constants2 == Anon(<<I("Q", "3"), I("P", "")>>)
EnumE == Enum("E", <<I("X", ""), I("Y", "0x3"), I("Z", "")>>)
StructS == Struct("S", <<F(Ty("int32_t"), "a")>>)
StructS2 == Struct("S", <<F(Opt("T"), "t"), F(Ty("wstring"), "n")>>)
StructT == Struct("T", <<F(Opt("S"), "s"), F(Vec("E"), "v")>>)
StructU == Struct("U", <<F(Ty("S"), "s"), A(<<"none">>, Ty("E"), "e", "N"), F(Ty("E"), "w")>>)
StructV == Struct("V", <<F(Ty("V"), "v")>>)
TrustedF == Block("trusted",
        <<Fn(Ty("int32_t"), "f", <<D(<<"in", "out">>, Ty("S"), "t"), D(<<"out">>, Ty("string"), "s"),
                                   F(Opt("S"), "o")>>),
          Fn(Ty("uint64_t"), "g", <<A(<<"out">>, Ty("int32_t"), "b", "0x2"),
                                    D(<<"in", "out">>, Vec("uint64_t"), "v"), F(Ty("wstring"), "n")>>)>>)
TrustedF2 == Block("trusted",
        <<Fn(Ty("void"), "f", <<D(<<"out">>, Vec("uint64_t"), "v")>>),
          Fn(Ty("S"), "p", <<>>)>>)
UntrustedH == Block("untrusted",
        <<Fn(Ty("int32_t"), "h", <<D(<<"in">>, Ty("E"), "e"),
                                   D(<<"in", "out">>, Opt("int32_t"), "o")>>),
          Fn(Ty("wstring"), "f", <<D(<<"out">>, Ty("wstring"), "w")>>)>>)

Pool == {Constants1, EnumE, StructS, StructS2, StructT, StructU, StructV, TrustedF, TrustedF2, UntrustedH}

RootDocuments ==
    {<<>>} \cup {<<a>> : a \in Pool} \cup (Pool \X Pool)
    \cup {d \in Pool \X Pool \X Pool : d[1] # d[2] /\ d[1] # d[3] /\ d[2] # d[3]}
    \cup SetToSeqs({EnumE, StructS, StructT, TrustedF})
    \cup SetToSeqs({EnumE, StructS2, StructT, UntrustedH})
    \cup SetToSeqs({Constants1, EnumE, StructS, StructU})

Importing(names, document) == [i \in DOMAIN names |-> ImportOf(names[i])] \o document

\* Roots that import, and what they may import: in a row, in a diamond, in a
\* circle, themselves, and not at all.
Families ==
    LET roots == {Importing(n, d) :
                    n \in {<<"L">>, <<"M">>, <<"L", "M">>, <<"C", "L">>, <<"abs">>},
                    d \in {<<>>, <<StructT>>, <<Constants1, TrustedF>>, <<StructS, TrustedF2>>}}
                 \cup {<<TrustedF, ImportOf("L")>>, <<StructU, ImportOf("M")>>,
                       <<Constants1, ImportOf("C"), StructU>>,
                       <<Constants1, ImportOf("M"), StructS>>}
        row(n)  == {Importing(n, d) : d \in {<<StructS>>, <<EnumE, UntrustedH>>, <<TrustedF2>>}}
    IN  {[file \in {"root", "L", "M", "C", "abs"} |->
            CASE file = "root" -> r [] file = "L" -> l [] file = "M" -> m
              [] file = "C" -> <<EnumE, StructS>> [] OTHER -> <<Constants2, StructS>>] :
            r \in roots,
            l \in row(<<>>) \cup row(<<"C">>),
            m \in {<<Constants2>>, <<StructS>>, <<ImportOf("C"), StructU>>, <<ImportOf("C"), UntrustedH>>,
                   <<ImportOf("L")>>, <<ImportOf("M")>>, <<ImportOf("gone")>>}}

C1(language, layer) ==
    <<"--language", language, "--edlpath", "root", "--virtualtrustlayer", layer,
      "--namespace", "ns", "--importdirectories", "dir;other">>

Both(language) == <<C1(language, "enclave"), C1(language, "hostapp")>>

Found(file) == IF file \in {"root", "abs"} THEN file ELSE "dir/" \o file

Project(lines, docs) ==
    [lines |-> lines, docs |-> docs,
     texts |-> [path \in {Found(file) : file \in DOMAIN docs} |->
                    TextOf(docs[CHOOSE file \in DOMAIN docs : Found(file) = path])]]

\* A project of one file that is no tree.
Raw(text) == [lines |-> <<C1("c++", "enclave")>>, docs |-> <<>>, texts |-> "root" :> text]

Whole == TextOf(<<Constants1, EnumE, StructS, StructU, UntrustedH>>)

Damaged ==
    {SubSeq(Whole, 1, n) : n \in 0 .. Len(Whole)}
    \cup {RemoveAt(Whole, n) : n \in DOMAIN Whole}
    \cup {ReplaceAt(Whole, n, x) : n \in DOMAIN Whole,
                x \in {"// ...", "/* ...", "\" ...", "*", "?", "[", ",", "size", "vector", "L"}}

Words == {<<"--help">>, <<"--namespace", "ns">>, <<"--language", "rust">>, <<"--language", "cpp">>,
          <<"--language", "c++">>,
          <<"--edlpath", "root">>, <<"--edlpath", "readme">>, <<"--edlpath", "nowhere">>,
          <<"--virtualtrustlayer", "hostapp">>, <<"--virtualtrustlayer", "vtl2">>,
          <<"--outputdirectory", "dir">>, <<"--errorhandling", "exception">>,
          <<"--vtl0classname", "X">>, <<"--importdirectories", "nowhere">>,
          <<"--flatbufferscompilerpath", "flatc">>, <<"--flatbufferscompilerpath">>,
          <<"--namespace">>, <<"--what">>}

CommandLines ==
    {<<>>} \cup {a \o b : a \in Words, b \in Words} \cup {a \o b \o c : a \in Words, b \in Words, c \in Words}

MCProjects ==
    {Project(Both("c++"), "root" :> d) : d \in RootDocuments}
    \cup {Project(Both("rust"), "root" :> d) : d \in {r \in RootDocuments : Len(r) # 3}}
    \cup {Project(Both("c++"), d) : d \in Families}
    \cup {Raw(text) : text \in Damaged}
    \cup {[lines |-> <<line>>, docs |-> <<>>, texts |-> "root" :> TextOf(<<StructS>>)] :
            line \in CommandLines}

=============================================================================
