------------------------------ MODULE Marshal ------------------------------
(***************************************************************************)
(* What becomes of the arguments of a call through a generated stub: into  *)
(* the flatbuffer, through the boundary function to the developer's        *)
(* implementation, and back (Shared/ConversionHelpers.h for C++; the       *)
(* templates of Rust/Constants.h, the conversion macros and assign_if_some *)
(* for Rust).  How the bytes cross is AbiCall's.                           *)
(*                                                                         *)
(* A value is "given", the caller's; "set", what the implementation writes *)
(* into every parameter it may write to; "zero", a default; "none", an     *)
(* empty optional; "null", a table that is not in the flatbuffer; "empty", *)
(* a vector without elements where an array goes.  The end of a call is    *)
(* "done", "crash" (a panic, a fail-fast) or "uncompiled": the stub is no  *)
(* program of its language.                                                *)
(***************************************************************************)
EXTENDS Codegen

Of(set, name) == CHOOSE e \in set : e.name = name

Names(set) == {e.name : e \in set}

IndexOf(list, name) == CHOOSE i \in DOMAIN list : list[i].name = name

Parameters(f) == ToSet(f.parameters)

-----------------------------------------------------------------------------
(* C++.                                                                      *)

\* A member of a flatbuffer object nobody assigned.
Unassigned(d) ==
    IF IsArray(d) THEN "empty"
    ELSE IF d.type.kind = "optional" THEN "none"
    ELSE IF IsStructOrWStringType(d) THEN "null" ELSE "zero"

\* ConvertType, between the two representations of one parameter; an array
\* takes a container of its own size and nothing else.
ConvertType(value) == IF value = "null" THEN "zero" ELSE value

FailsFast(d, value) == IsArray(d) /\ value = "empty"

\* ConvertStruct: member by member.
ConvertStruct(values) == [name \in DOMAIN values |-> ConvertType(values[name])]

\* The stub fills the structure of the call.
Pack(f, stub, args) ==
    [name \in DOMAIN args |->
        IF name \in stub.converts THEN args[name] ELSE Unassigned(Of(Parameters(f), name))]

ByReference(parameter) == parameter.declarator = "&" /\ parameter.qualifier = ""

\* CallDevImpl: the implementation writes through the references it is given.
CallDevImpl(declared, values) ==
    [name \in DOMAIN values |->
        IF ByReference(declared[IndexOf(declared, name)]) THEN "set" ELSE values[name]]

UpdateParameterValue(stub, args, back) ==
    [name \in DOMAIN args |-> IF name \in stub.updates THEN back[name] ELSE args[name]]

(* The body of a C++ stub and of the boundary function behind it.  stub is   *)
(* what the generator made of f.                                             *)
CallCpp(f, stub, args) ==
    LET packed == Pack(f, stub, args)
        seen   == ConvertStruct(packed)
        back   == ConvertStruct(CallDevImpl(stub.parameters, seen))
    IN  IF stub.updates # {} /\ ~stub.declares
        THEN [end |-> "uncompiled", seen |-> args, after |-> args]
        ELSE IF \E d \in Parameters(f) : FailsFast(d, packed[d.name])
        THEN [end |-> "crash", seen |-> args, after |-> args]
        ELSE [end |-> "done", seen |-> seen,
              after |-> UpdateParameterValue(stub, args, back)]

-----------------------------------------------------------------------------
(* Rust.                                                                     *)

\* AbiTypeT::default(): an Option is None, the one around an [out] structure too.
DefaultOf(d) ==
    IF \/ d.type.kind = "optional"
       \/ ~IsArray(d) /\ IsOutParameterOnly(d) /\ IsStructOrWStringType(d)
    THEN "none" ELSE "zero"

\* generate_conversion: an Option is mapped, a value is converted or boxed;
\* None stays None in both directions.
Conversion(value) == value

\* The closure of the boundary function, on a mutable borrow of the value.
Implementation(borrow, value) ==
    CASE borrow = "as_mut" -> IF value = "none" THEN "none" ELSE "set"
      [] borrow \in {"&mut", "expect"} -> "set"
      [] OTHER -> value

\* assign_if_some(dst, src)
AssignIfSome(dst, src) == IF dst = "none" \/ src = "none" THEN dst ELSE src

\* The stub fills the default structure of the call.
CloneToAbiStruct(f, stub, args) ==
    [name \in DOMAIN args |->
        IF name \in Names(stub.clones) THEN args[name] ELSE DefaultOf(Of(Parameters(f), name))]

\* How the closure borrows a parameter.
Borrow(f, closure, name) == closure.arguments[IndexOf(f.parameters, name)]

MoveFromAbiStruct(stub, args, left) ==
    [name \in DOMAIN args |->
        IF name \notin Names(stub.moves) THEN args[name]
        ELSE IF Of(stub.moves, name).how = "assign_if_some"
             THEN AssignIfSome(args[name], left[name]) ELSE left[name]]

CallRust(f, stub, closure, args) ==
    LET cloned == CloneToAbiStruct(f, stub, args)
        borrow == [name \in DOMAIN args |-> Borrow(f, closure, name)]
        seen   == [name \in DOMAIN args |-> Conversion(cloned[name])]
        left   == [name \in DOMAIN args |->
                    Conversion(Implementation(borrow[name], seen[name]))]
    IN  IF \E m \in stub.moves : m.how = "move" /\ borrow[m.name] = "&"
        THEN [end |-> "uncompiled", seen |-> args, after |-> args]
        ELSE IF \E name \in DOMAIN args : borrow[name] = "expect" /\ seen[name] = "none"
        THEN [end |-> "crash", seen |-> seen, after |-> args]
        ELSE [end |-> "done", seen |-> seen, after |-> MoveFromAbiStruct(stub, args, left)]

-----------------------------------------------------------------------------
(* What a call should do.                                                    *)

\* What a caller may give: an empty optional or a value.
Arguments(f) ==
    {args \in [Names(Parameters(f)) -> {"given", "none"}] :
        \A d \in Parameters(f) : args[d.name] = "none" => d.type.kind = "optional"}

\* What the parameters should be after a call whose implementation writes all
\* it may write to: in Rust that is the inside of an optional.
Expected(language, f, args) ==
    [name \in DOMAIN args |->
        LET d == Of(Parameters(f), name)
        IN  IF ~IsOutParameter(d) THEN args[name]
            ELSE IF language = "rust" /\ args[name] = "none" THEN "none" ELSE "set"]

Arrive(language, f, args, result) ==
    /\ result.end = "done"
    /\ result.after = Expected(language, f, args)
    /\ \A d \in Parameters(f) :
            ~IsOutParameterOnly(d) => result.seen[d.name] = args[d.name]

\* The functions whose stubs do not do it: a C++ one that returns nothing and
\* has something to give back, a Rust one with an [out] structure, wide string
\* or optional, unless it is in an array.
Broken(language, f) ==
    IF language = "c++" THEN IsVoid(f) /\ \E d \in Parameters(f) : IsOutParameter(d)
    ELSE \E d \in Parameters(f) :
            /\ IsOutParameterOnly(d)
            /\ \/ ~IsArray(d) /\ IsStructOrWStringType(d)
               \/ d.type.kind = "optional"

=============================================================================
