------------------------------ MODULE EdlLexer ------------------------------
(***************************************************************************)
(* The lexical analyser of the EDL tool and the ordered map its parser     *)
(* keeps declarations in (Edl/LexicalAnalyzer.cpp, Edl/Utils.h,            *)
(* Utils/Helpers.h).                                                       *)
(*                                                                         *)
(* A file is a sequence of lexemes.  White space and closed comments are   *)
(* the lexemes of Blank; the lexemes of Fault stand for the pieces of text *)
(* the analyser cannot turn into a token.  Every other lexeme is the token *)
(* the analyser returns for it.                                            *)
(***************************************************************************)
EXTENDS Naturals, Sequences, SequencesExt

CONSTANTS
    Decimals,   \* the integer literals and their values
    Hexes,      \* the hexadecimal literals and their values
    Quoted      \* the string literals and the file names in them

Punctuation == {"{", "}", "(", ")", "[", "]", "<", ">", ",", ";", "="}

\* What GetNextToken returns at the end of the file, as often as it is asked.
Eof == "EOF"

\* SkipWhiteSpaceAndComments: spaces, a // comment that a newline ends, a
\* closed block comment.
Blank == {" ", "// ...\n", "/* ... */"}

(* What the analyser throws.  A // comment that the file ends in sends it    *)
(* past the end of the buffer to the next newline in memory, if there is one *)
(* it may read: what follows is not a token, or the process ends.            *)
Fault ==
    [lexeme \in {"// ...", "/* ...", "\" ...", "*", "?"} |->
        CASE lexeme = "// ..." -> "PastTheEnd"
          [] lexeme = "/* ..." -> "EdlCommentEndingNotFound"
          [] lexeme = "\" ..." -> "EdlStringEndingNotFound"
          [] lexeme = "*"      -> "EdlPointersNotSupported"
          [] lexeme = "?"      -> "EdlUnexpectedToken"]

\* Token::IsUnsignedInteger looks at the first character only: 0x10 is one too.
IsUnsignedInteger(token) == token \in DOMAIN Decimals \cup DOMAIN Hexes

IsIdentifier(token) ==
    token \notin Punctuation \cup DOMAIN Decimals \cup DOMAIN Hexes
                     \cup DOMAIN Quoted \cup {Eof}

\* TryParseDecimal and TryParseHexidecimal.
NumberOf(token) ==
    IF token \in DOMAIN Decimals THEN Decimals[token] ELSE Hexes[token]

SkipWhiteSpaceAndComments(text, at) ==
    CHOOSE i \in at .. Len(text) + 1 :
        /\ i > Len(text) \/ text[i] \notin Blank
        /\ \A j \in at .. i - 1 : text[j] \in Blank

\* What starts at position i: a token, the position after it, and the
\* exception if it is none.
TokenAt(text, i) ==
    IF i > Len(text) THEN [token |-> Eof, at |-> i, err |-> ""]
    ELSE IF text[i] \in DOMAIN Fault
         THEN [token |-> Eof, at |-> i, err |-> Fault[text[i]]]
         ELSE [token |-> text[i], at |-> i + 1, err |-> ""]

GetNextToken(text, at) == TokenAt(text, SkipWhiteSpaceAndComments(text, at))

-----------------------------------------------------------------------------
(* OrderedMap: a sequence of records with distinct names, in the order in    *)
(* which the names were first inserted.                                      *)

Has(map, name) == \E i \in DOMAIN map : map[i].name = name

At(map, name) == map[CHOOSE i \in DOMAIN map : map[i].name = name]

Put(map, value) ==
    IF Has(map, value.name)
    THEN [i \in DOMAIN map |-> IF map[i].name = value.name THEN value ELSE map[i]]
    ELSE Append(map, value)

\* merge: what is new goes to the end, what is there already stays as it is.
Merge(map, other) == map \o SelectSeq(other, LAMBDA v : ~Has(map, v.name))

=============================================================================
