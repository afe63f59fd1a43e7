------------------------------ MODULE EdlParser ------------------------------
(***************************************************************************)
(* The EDL parser, Edl/Parser.cpp: recursive descent with one token of     *)
(* look-ahead.  A parser p is a record                                     *)
(*   file, text, at      the file and the next lexeme of it                *)
(*   cur, next           m_cur_token and m_next_token                      *)
(*   err                 the exception thrown, "" while there is none      *)
(*   ret                 what the last method returned                     *)
(*   types, trusted, untrusted, unresolved   m_edl and m_unresolved_types  *)
(*   abi                 the static index of ParseFunctions                *)
(* and a method maps a parser to a parser; one that has thrown stays as it *)
(* is.  The lexer throws on '*' before the parser sees it, so no           *)
(* declaration is a pointer and what the parser does with pointers and     *)
(* with the values of size and count never runs.                           *)
(***************************************************************************)
EXTENDS EdlTypes, FiniteSets

CONSTANT MaxU64     \* values of uint64_t are 0 .. MaxU64

-----------------------------------------------------------------------------
Throw(p, condition, error) ==
    IF p.err = "" /\ condition THEN [p EXCEPT !.err = error] ELSE p

\* What follows in a method, unless what went before has thrown.
Then(p, Rest(_)) == IF p.err # "" THEN p ELSE Rest(p)

Advance(p, n) ==
    [p EXCEPT !.ret = p.cur, !.cur = p.next, !.next = n.token, !.at = n.at, !.err = n.err]

\* GetCurrentTokenAndMoveToNextToken
Move(p) == Then(p, LAMBDA q : Advance(q, GetNextToken(q.text, q.at)))

\* ThrowIfExpectedTokenNotNext
Expect(p, token) ==
    Then(Move(p), LAMBDA q : Throw(q, q.ret # token, "EdlExpectedTokenNotFound"))

\* The next token has to be an identifier, and it is returned.
Identifier(p, error) == Then(Move(p), LAMBDA q : Throw(q, ~IsIdentifier(q.ret), error))

\* The end of a list, or the separator in it.
Separated(p, end, separator) == IF p.cur = end THEN p ELSE Expect(p, separator)

\* ThrowIfTypeNameIdentifierIsReserved
NotReserved(p, name) ==
    Throw(p, name \in Builtin, "EdlTypeNameIdentifierIsReserved")

\* ThrowIfDuplicateDefinition
NotDefined(p, name) ==
    Throw(p, Has(p.types, name), "EdlDuplicateTypeDefinition")

DeveloperType(name, kind, file) ==
    [name |-> name, kind |-> kind, fields |-> <<>>, items |-> <<>>,
     optional |-> <<>>, file |-> file]

Define(p, type) == [p EXCEPT !.types = Append(@, type)]

-----------------------------------------------------------------------------
(* Enumerations.  Any token is an item of an anonymous enum; what follows    *)
(* the name of a named one is skipped without a look at it.                  *)

\* The value of an item: the one after "=", or the one the enum is at.
ItemValue(p, value) ==
    IF p.cur # "=" THEN [p EXCEPT !.ret = value]
    ELSE Then(Move(Move(p)), LAMBDA q :
            IF IsUnsignedInteger(q.ret) THEN [q EXCEPT !.ret = NumberOf(@)]
            ELSE Throw(q, TRUE, "EdlEnumValueNotFound"))

AddItem(p, name, item) ==
    IF Has(At(p.types, name).items, item.name)
    THEN Throw(p, TRUE, "EdlEnumNameDuplicated")
    ELSE [p EXCEPT !.types = Put(@, [At(@, name) EXCEPT !.items = Append(@, item)])]

RECURSIVE EnumItems(_, _, _, _)
EnumItems(p, name, value, first) ==
    IF p.err # "" \/ p.cur = "}" THEN p
    ELSE Then(Move(p), LAMBDA a :
         Then(ItemValue(Throw(a, name # Anonymous /\ ~IsIdentifier(a.ret),
                              "EdlEnumValueIdentifierNotFound"), value), LAMBDA b :
         Then(Separated(b, "}", ","), LAMBDA c :
            EnumItems(AddItem(c, name, [name |-> a.ret, value |-> b.ret, first |-> first]),
                      name, (b.ret + 1) % (MaxU64 + 1), FALSE))))

AnonymousEnum(p) ==
    IF Has(p.types, Anonymous) THEN p
    ELSE Define(p, DeveloperType(Anonymous, Anonymous, p.file))

NamedEnum(p, name) ==
    Then(NotDefined(NotReserved(Throw(p, ~IsIdentifier(name), "EdlEnumNameIdentifierNotFound"),
                                name), name),
         LAMBDA q : Move(Define(q, DeveloperType(name, "enum", q.file))))

EnumBody(p, name) ==
    Then(Expect(Expect(EnumItems(p, name, 0, TRUE), "}"), ";"),
         LAMBDA q : [q EXCEPT !.types = Put(@, [At(@, name) EXCEPT !.file = q.file])])

ParseEnum(p) ==
    Then(Move(p), LAMBDA q :
        IF q.ret = "{" THEN EnumBody(AnonymousEnum(q), Anonymous)
        ELSE EnumBody(NamedEnum(q, q.ret), q.ret))

-----------------------------------------------------------------------------
(* Types.                                                                    *)

KindOf(p, name) ==
    IF name \in Builtin THEN name
    ELSE IF Has(p.types, name) THEN At(p.types, name).kind ELSE "Unknown"

(* ParseVector and ParseOptional: <inner>, read as long as a bracket opens;  *)
(* the last one is the inner type.                                           *)
RECURSIVE Inner(_, _, _)
Inner(p, kind, inner) ==
    IF p.err # "" \/ p.cur # "<"
    THEN [p EXCEPT !.ret = [name |-> kind, kind |-> kind, inner |-> inner]]
    ELSE Then(Identifier(Move(p), "EdlInnerNameIdentifierNotFound"), LAMBDA q :
            Inner(Expect(Throw(q, q.ret \in {"vector", "optional"} \cup
                                    (IF kind = "vector" THEN {} ELSE {"string", "wstring"}),
                               "EdlInvalidInnerType"), ">"),
                  kind, [name |-> q.ret, kind |-> KindOf(q, q.ret)]))

ParseVector(p) == Inner(Throw(p, p.cur # "<", "EdlVectorDoesNotStartWithArrowBracket"),
                        "vector", NoType)

ParseOptional(p) == Inner(Throw(p, p.cur # "<", "EdlOptionalDoesNotStartWithArrowBracket"),
                          "optional", NoType)

TypeOf(p, name) ==
    CASE name = "vector"   -> ParseVector(p)
      [] name = "optional" -> ParseOptional(p)
      [] OTHER -> [p EXCEPT !.ret = [name |-> name, kind |-> KindOf(p, name), inner |-> NoType]]

ParseDeclarationTypeInfo(p) ==
    Then(Identifier(p, "EdlIdentifierNameNotFound"), LAMBDA a :
    Then(TypeOf(a, a.ret), LAMBDA b :
        IF Named(b.ret).kind # "Unknown" THEN b
        ELSE [b EXCEPT !.unresolved = @ \cup {Named(b.ret).name}]))

\* An integer or an item of the anonymous enum so far.
IsDimension(p, size) ==
    \/ IsUnsignedInteger(size)
    \/ /\ IsIdentifier(size)
       /\ Has(p.types, Anonymous)
       /\ Has(At(p.types, Anonymous).items, size)

\* At most one dimension.
ParseArrayDimensions(p) ==
    IF p.err # "" \/ p.cur # "[" THEN [p EXCEPT !.ret = <<>>]
    ELSE Then(Move(Move(p)), LAMBDA a :
         Then(Expect(Throw(a, ~IsDimension(a, a.ret), "EdlArrayDimensionIdentifierInvalid"), "]"),
              LAMBDA b : Throw([b EXCEPT !.ret = <<a.ret>>], b.cur = "[",
                               "EdlOnlySingleDimensionsSupported")))

-----------------------------------------------------------------------------
(* Attributes and declarations.                                              *)

Sizes == {"size", "count"}

AttributeKinds == {"in", "out"} \cup Sizes

SizeOrCount(p) ==
    Then(Move(Expect(p, "=")), LAMBDA q :
        Throw(q, ~IsIdentifier(q.ret) /\ ~IsUnsignedInteger(q.ret), "EdlSizeOrCountValueInvalid"))

Valid(p, attribute, parent, seen) ==
    Throw(Throw(Throw(p, attribute \notin AttributeKinds, "EdlInvalidAttribute"),
                parent = "struct" /\ attribute \notin Sizes, "EdlNonSizeOrCountAttributeInStruct"),
          attribute \in seen, "EdlDuplicateAttributeFound")

RECURSIVE Attributes(_, _, _)
Attributes(p, parent, seen) ==
    IF p.err # "" \/ p.cur = "]" THEN [Expect(p, "]") EXCEPT !.ret = seen]
    ELSE Then(Move(p), LAMBDA a :
         Then(Valid(a, a.ret, parent, seen), LAMBDA b :
            Attributes(Separated(IF a.ret \in Sizes THEN SizeOrCount(b) ELSE b, "]", ","),
                       parent, seen \cup {a.ret})))

ParseAttributes(p, parent) ==
    IF p.err # "" \/ p.cur # "[" THEN [p EXCEPT !.ret = NoAttributes]
    ELSE Attributes(Move(p), parent, {})

ParseDeclaration(p, parent) ==
    Then(ParseAttributes(p, parent), LAMBDA a :
    Then(ParseDeclarationTypeInfo(a), LAMBDA b :
    Then(Identifier(b, "EdlIdentifierNameNotFound"), LAMBDA c :
    Then(ParseArrayDimensions(NotReserved(c, c.ret)), LAMBDA d :
        Throw([d EXCEPT !.ret = [name |-> c.ret, attributes |-> a.ret, type |-> b.ret,
                                 dims |-> d.ret]],
              a.ret \cap Sizes # {}, "EdlSizeAndCountNotValidForNonPointer")))))

\* A parameter without attributes is [in].
Directed(d, parent) ==
    IF parent = "function" /\ d.attributes = NoAttributes
    THEN [d EXCEPT !.attributes = {"in"}] ELSE d

\* The fields of a struct, or the parameters of a function.
RECURSIVE ParseThroughFieldsOrParameterList(_, _, _, _, _)
ParseThroughFieldsOrParameterList(p, parent, list, end, separator) ==
    IF p.err # "" \/ p.cur = end THEN [p EXCEPT !.ret = list]
    ELSE Then(ParseDeclaration(p, parent), LAMBDA q :
            ParseThroughFieldsOrParameterList(
                Separated(Throw(q, Has(list, q.ret.name), "EdlDuplicateFieldOrParameter"),
                          end, separator),
                parent, Append(list, Directed(q.ret, parent)), end, separator))

ParseStruct(p) ==
    Then(Identifier(p, "EdlStructIdentifierNotFound"), LAMBDA a :
    Then(ParseThroughFieldsOrParameterList(
            Expect(NotDefined(NotReserved(a, a.ret), a.ret), "{"), "struct", <<>>, "}", ";"),
         LAMBDA b :
    Then(Expect(Expect(Throw(b, \E i \in DOMAIN b.ret : b.ret[i].type.name = a.ret,
                             "EdlStructSelfReference"), "}"), ";"),
         LAMBDA c : Define(c, [DeveloperType(a.ret, "struct", p.file) EXCEPT !.fields = b.ret]))))

-----------------------------------------------------------------------------
(* Functions.                                                                *)

\* GetDeclarationSignature: the name and the types of the parameters.  The
\* inner type is part of an optional and not of a vector, and an optional
\* loses its dimensions.
GetDeclarationSignature(name, parameters) ==
    <<name, [i \in DOMAIN parameters |->
                LET d == parameters[i]
                IN  IF d.type.kind = "optional" THEN <<"optional", d.type.inner.name>>
                    ELSE <<d.type.name>> \o d.dims]>>

ParseFunctionDeclaration(p) ==
    Then(ParseDeclarationTypeInfo(p), LAMBDA a :
    Then(Identifier(a, "EdlFunctionIdentifierNotFound"), LAMBDA b :
    Then(ParseThroughFieldsOrParameterList(
            Expect(NotReserved(b, b.ret), "("), "function", <<>>, ")", ","), LAMBDA c :
    Then(Expect(Expect(c, ")"), ";"), LAMBDA d :
        [d EXCEPT !.ret = [name |-> GetDeclarationSignature(b.ret, c.ret), function |-> b.ret,
                           abi |-> p.abi, return |-> a.ret, parameters |-> c.ret,
                           file |-> p.file]]))))

\* The functions of one trusted or untrusted block, up to its bracket.
RECURSIVE Functions(_, _)
Functions(p, side) ==
    IF p.err # "" \/ p.cur = "}" THEN p
    ELSE Then(ParseFunctionDeclaration(p), LAMBDA a :
         Then(Throw(a, Has(a[side], a.ret.name), "EdlDuplicateFunctionDeclaration"), LAMBDA b :
            Functions([b EXCEPT ![side] = Append(@, a.ret), !.abi = @ + 1], side)))

ParseFunctions(p, side) ==
    Expect(Expect(Functions(Expect(p, "{"), side), "}"), ";")

-----------------------------------------------------------------------------
(* The end of a file.                                                        *)

(* UpdateTypeDeclarations over one list: every use of a name that is still   *)
(* unresolved and now defined gets its kind; the names go after the list.    *)
UpdateTypeDeclarations(list, types, unresolved) ==
    LET found(d) == Named(d.type).name \in unresolved /\ Has(types, Named(d.type).name)
        kind(d) == At(types, Named(d.type).name).kind
        update(d) ==
            IF ~found(d) THEN d
            ELSE IF d.type.inner # NoType THEN [d EXCEPT !.type.inner.kind = kind(d)]
            ELSE [d EXCEPT !.type.kind = kind(d)]
    IN  [list |-> [i \in DOMAIN list |-> update(list[i])],
         unresolved |-> unresolved \ {Named(list[i].type).name :
                                        i \in {j \in DOMAIN list : found(list[j])}}]

\* The same for one map: the list of each of its records in turn.
ResolveIn(p, map, part) ==
    LET step(q, i) ==
            LET u == UpdateTypeDeclarations(q[map][i][part], q.types, q.unresolved)
            IN  [q EXCEPT ![map][i][part] = u.list, !.unresolved = u.unresolved]
    IN  FoldLeft(step, p, [i \in DOMAIN p[map] |-> i])

\* A structure notes an optional field whose structure has been followed.
Noted(s, current, name) ==
    IF s.answer # "no" THEN s
    ELSE [s EXCEPT !.types = Put(@, [At(@, current) EXCEPT !.optional =
                                        IF Contains(@, name) THEN @ ELSE Append(@, name)])]

(* HasOptionalCycle: depth first from start along the optional fields whose  *)
(* inner type is known to be a struct.  s has the types, in which a struct   *)
(* collects its optional fields, the names visited, and the answer.          *)
RECURSIVE HasOptionalCycle(_, _, _)
HasOptionalCycle(s, start, current) ==
    LET follow(r, field) ==
            LET inner == field.type.inner
            IN  IF r.answer # "no" \/ field.type.kind # "optional" \/ inner.kind # "struct" THEN r
                ELSE IF inner.name = start THEN [r EXCEPT !.answer = "yes"]
                ELSE Noted(HasOptionalCycle(r, start, inner.name), current, inner.name)
    IN  IF current \in s.visited THEN s
        ELSE IF ~Has(s.types, current) THEN [s EXCEPT !.answer = "out_of_range"]
        ELSE FoldLeft(follow, [s EXCEPT !.visited = @ \cup {current}],
                      At(s.types, current).fields)

Checked(p, s) ==
    [p EXCEPT !.types = s.types,
              !.err = CASE s.answer = "no" -> ""
                        [] s.answer = "yes" -> "EdlOptionalCycle"
                        [] OTHER -> s.answer]

\* Every struct is a start of its own; the first cycle found is thrown.
CheckOptionals(p) ==
    LET check(q, i) ==
            IF q.err # "" \/ q.types[i].kind # "struct" THEN q
            ELSE Checked(q, HasOptionalCycle([types |-> q.types, visited |-> {}, answer |-> "no"],
                                             q.types[i].name, q.types[i].name))
    IN  FoldLeft(check, p, [i \in DOMAIN p.types |-> i])

PerformFinalValidations(p) ==
    Then(ResolveIn(ResolveIn(ResolveIn(p, "types", "fields"),
                             "trusted", "parameters"), "untrusted", "parameters"),
         LAMBDA q : CheckOptionals(Throw(q, q.unresolved # {}, "EdlTypenameInvalid")))

-----------------------------------------------------------------------------
(* Imports.                                                                  *)

\* A merge that leaves the importer's anonymous enum alone.
MergeEdlButConstants(p, edl) ==
    [p EXCEPT !.types = Merge(@, edl.types), !.trusted = Merge(@, edl.trusted),
              !.untrusted = Merge(@, edl.untrusted)]

\* MergeEdl: what the importer does not have yet, and the items of the
\* anonymous enum it does not have yet; anything else of the same name is dropped.
MergeEdl(p, edl) ==
    LET shared == Has(p.types, Anonymous) /\ Has(edl.types, Anonymous)
        types == Merge(p.types, edl.types)
        mine == At(p.types, Anonymous)
    IN  [p EXCEPT
            !.types = IF shared
                      THEN Put(types, [mine EXCEPT !.items =
                                          Merge(@, At(edl.types, Anonymous).items)])
                      ELSE types,
            !.trusted = Merge(@, edl.trusted),
            !.untrusted = Merge(@, edl.untrusted)]

\* ParseInternal up to the body: a parser on a file, past "enclave {".
Open(file, text, abi) ==
    LET p == [file |-> file, text |-> text, at |-> 1, cur |-> Eof, next |-> Eof,
              err |-> "", ret |-> Eof, types |-> <<>>, trusted |-> <<>>,
              untrusted |-> <<>>, unresolved |-> {}, abi |-> abi]
    IN  Expect(Expect(Move(Move(p)), "enclave"), "{")

\* What is left of a parser when its file is parsed.
Edl(p) == [types |-> p.types, trusted |-> p.trusted, untrusted |-> p.untrusted]

=============================================================================
