---------------------------- MODULE ToolProofs -----------------------------
(***************************************************************************)
(* What the generated functions do, for every function the parser accepts: *)
(* the values of a call arrive, and what a stub calls is there.  And what  *)
(* a build with the tool keeps in order, for every parser and generator:   *)
(* the files that are being read, that both layers are made from the same  *)
(* interface and completely, and that the two halves fit.                  *)
(***************************************************************************)
EXTENDS EdlCalls, SequenceTheorems, WellFoundedInduction, TLAPS

-----------------------------------------------------------------------------
(* A parameter is found under its name, in the list and in the set.        *)
LEMMA Found ==
  ASSUME NEW f, Accepted(f), NEW i \in DOMAIN f.parameters
  PROVE  /\ f.parameters[i] \in Parameters(f)
         /\ f.parameters[i].name \in Names(Parameters(f))
         /\ Of(Parameters(f), f.parameters[i].name) = f.parameters[i]
         /\ IndexOf(f.parameters, f.parameters[i].name) = i
<1>1. \A d \in Parameters(f) : d.name = f.parameters[i].name => d = f.parameters[i]
  BY DEF Accepted, Parameters, ToSet
<1>2. f.parameters[i] \in Parameters(f)
  BY DEF Parameters, ToSet
<1>3. Of(Parameters(f), f.parameters[i].name) = f.parameters[i]
  BY <1>1, <1>2 DEF Of
<1>4. IndexOf(f.parameters, f.parameters[i].name) = i
  BY DEF Accepted, IndexOf
<1> QED
  BY <1>2, <1>3, <1>4 DEF Names

(* Every name is that of a parameter in the list.                          *)
LEMMA Listed ==
  ASSUME NEW f, NEW n \in Names(Parameters(f))
  PROVE  \E i \in DOMAIN f.parameters : f.parameters[i].name = n
BY DEF Names, Parameters, ToSet

(* The three directions, as the generators ask for them.                   *)
LEMMA Direction ==
  ASSUME NEW d, d.attributes \in Directions
  PROVE  /\ IsOutParameterOnly(d) <=> d.attributes = {"out"}
         /\ IsInParameterOnly(d) <=> d.attributes = {"in"}
         /\ IsOutParameter(d) <=> d.attributes # {"in"}
BY DEF Directions, IsOutParameterOnly, IsInParameterOnly, IsOutParameter

-----------------------------------------------------------------------------
(* What a C++ stub copies into the flatbuffer and back, and how the         *)
(* implementation gets it.                                                 *)
LEMMA CppStub ==
  ASSUME NEW f, Accepted(f), NEW target, NEW i \in DOMAIN f.parameters
  PROVE  /\ (f.parameters[i].name \in BuildStubFunction(f, target).converts)
            <=> (f.parameters[i].attributes # {"out"} \/ IsArray(f.parameters[i]))
         /\ (f.parameters[i].name \in BuildStubFunction(f, target).updates)
            <=> (/\ f.parameters[i].attributes # {"in"}
                 /\ GetInformationAboutParameters(f).needed)
<1>1. /\ IsOutParameterOnly(f.parameters[i]) <=> f.parameters[i].attributes = {"out"}
      /\ IsInParameterOnly(f.parameters[i]) <=> f.parameters[i].attributes = {"in"}
  BY Direction DEF Accepted
<1>2. \A j \in DOMAIN f.parameters : f.parameters[j].name = f.parameters[i].name => j = i
  BY DEF Accepted
<1> DEFINE info == GetInformationAboutParameters(f)
<1>3. /\ BuildStubFunction(f, target).converts = info.converts
      /\ BuildStubFunction(f, target).updates = IF info.needed THEN info.updates ELSE {}
  BY DEF BuildStubFunction
<1>4. (f.parameters[i].name \in info.converts)
        <=> (~IsOutParameterOnly(f.parameters[i]) \/ IsArray(f.parameters[i]))
  BY <1>2 DEF GetInformationAboutParameters, IsArray
<1>5. (f.parameters[i].name \in info.updates) <=> ~IsInParameterOnly(f.parameters[i])
  BY <1>2 DEF GetInformationAboutParameters
<1> HIDE DEF info
<1>6. (f.parameters[i].name \in BuildStubFunction(f, target).converts)
        <=> (f.parameters[i].attributes # {"out"} \/ IsArray(f.parameters[i]))
  BY <1>1, <1>3, <1>4 DEF IsArray
<1>7. (f.parameters[i].name \in BuildStubFunction(f, target).updates)
        <=> (f.parameters[i].attributes # {"in"} /\ info.needed)
  BY <1>1, <1>3, <1>5
<1> QED
  BY <1>6, <1>7 DEF info

(* How the implementation of a C++ function gets a parameter.              *)
LEMMA CppSignature ==
  ASSUME NEW f, Accepted(f), NEW target, NEW i \in DOMAIN f.parameters
  PROVE  LET declared == BuildStubFunction(f, target).parameters
         IN  /\ IndexOf(declared, f.parameters[i].name) = i
             /\ ByReference(declared[i]) <=> f.parameters[i].attributes # {"in"}
<1> DEFINE declared == BuildFunctionParameters(f)
<1>1. BuildStubFunction(f, target).parameters = declared
  BY DEF BuildStubFunction
<1>2. /\ DOMAIN declared = DOMAIN f.parameters
      /\ \A j \in DOMAIN f.parameters : declared[j].name = f.parameters[j].name
  BY DEF BuildFunctionParameters
<1>3. /\ declared[i].declarator = GetParameterDeclarator(f.parameters[i])
      /\ declared[i].qualifier = GetParameterQualifier(f.parameters[i])
  BY DEF BuildFunctionParameters
<1>4. (/\ GetParameterDeclarator(f.parameters[i]) = "&"
       /\ GetParameterQualifier(f.parameters[i]) = "")
      <=> ~IsInParameterOnly(f.parameters[i])
  BY DEF GetParameterDeclarator, GetParameterQualifier
<1>5. ~IsInParameterOnly(f.parameters[i]) <=> f.parameters[i].attributes # {"in"}
  BY Direction DEF Accepted
<1> HIDE DEF declared
<1>6. ByReference(declared[i]) <=> f.parameters[i].attributes # {"in"}
  BY <1>3, <1>4, <1>5, Zenon DEF ByReference
<1>7. IndexOf(declared, f.parameters[i].name) = i
  BY <1>2 DEF IndexOf, Accepted
<1> QED
  BY <1>1, <1>6, <1>7

-----------------------------------------------------------------------------
(* One parameter on its way through a C++ call.                            *)
LEMMA CppParameter ==
  ASSUME NEW f, Accepted(f), NEW target, NEW args \in Arguments(f),
         NEW i \in DOMAIN f.parameters
  PROVE  LET d      == f.parameters[i]
             stub   == BuildStubFunction(f, target)
             packed == Pack(f, stub, args)
             seen   == ConvertStruct(packed)
             back   == ConvertStruct(CallDevImpl(stub.parameters, seen))
         IN  /\ d.attributes # {"out"} => seen[d.name] = args[d.name]
             /\ ~FailsFast(d, packed[d.name])
             /\ d.attributes # {"in"} => back[d.name] = "set"
<1> DEFINE d      == f.parameters[i]
           stub   == BuildStubFunction(f, target)
           packed == Pack(f, stub, args)
           seen   == ConvertStruct(packed)
           left   == CallDevImpl(stub.parameters, seen)
           back   == ConvertStruct(left)
<1>1. /\ d.name \in DOMAIN args
      /\ args[d.name] \in {"given", "none"}
  BY Found DEF Arguments
<1>2. Of(Parameters(f), d.name) = d
  BY Found
<1>3. (d.name \in stub.converts) <=> (d.attributes # {"out"} \/ IsArray(d))
  BY CppStub
<1>4. /\ IndexOf(stub.parameters, d.name) = i
      /\ ByReference(stub.parameters[i]) <=> d.attributes # {"in"}
  BY CppSignature
<1> HIDE DEF d, stub
<1>5. /\ DOMAIN packed = DOMAIN args
      /\ packed[d.name] = IF d.attributes # {"out"} \/ IsArray(d) THEN args[d.name]
                          ELSE Unassigned(d)
  BY <1>1, <1>2, <1>3 DEF Pack, IsArray
<1> HIDE DEF packed
<1>6. /\ DOMAIN seen = DOMAIN args
      /\ seen[d.name] = ConvertType(packed[d.name])
  BY <1>1, <1>5 DEF ConvertStruct
<1>7. ~FailsFast(d, packed[d.name])
  BY <1>1, <1>5 DEF FailsFast, IsArray
<1> HIDE DEF seen
<1>8. /\ DOMAIN left = DOMAIN args
      /\ d.attributes # {"in"} => left[d.name] = "set"
  BY <1>1, <1>4, <1>6 DEF CallDevImpl
<1> HIDE DEF left
<1>9. d.attributes # {"in"} => back[d.name] = "set"
  BY <1>1, <1>8 DEF ConvertStruct, ConvertType
<1>10. d.attributes # {"out"} => seen[d.name] = args[d.name]
  BY <1>1, <1>5, <1>6 DEF ConvertType
<1> QED
  BY <1>7, <1>9, <1>10 DEF d, stub, packed, seen, left

(* A C++ call gives the implementation what the caller gave and the caller *)
(* what the implementation wrote, for every function except exactly those  *)
(* that return nothing and have something to give back, whose stubs do not *)
(* compile (CppCodeBuilder.cpp:409-470, Shared/ConversionHelpers.h).       *)
THEOREM CppStubsDeliver ==
  ASSUME NEW f, Accepted(f), NEW target, NEW args \in Arguments(f)
  PROVE  Arrive("c++", f, args, CallCpp(f, BuildStubFunction(f, target), args))
           <=> ~Broken("c++", f)
<1> DEFINE stub   == BuildStubFunction(f, target)
           packed == Pack(f, stub, args)
           seen   == ConvertStruct(packed)
           back   == ConvertStruct(CallDevImpl(stub.parameters, seen))
           after  == UpdateParameterValue(stub, args, back)
           needed == GetInformationAboutParameters(f).needed
<1>1. \A i \in DOMAIN f.parameters :
        /\ f.parameters[i].attributes # {"out"} =>
             seen[f.parameters[i].name] = args[f.parameters[i].name]
        /\ ~FailsFast(f.parameters[i], packed[f.parameters[i].name])
        /\ f.parameters[i].attributes # {"in"} => back[f.parameters[i].name] = "set"
  BY CppParameter
<1>2. \A i \in DOMAIN f.parameters :
        (f.parameters[i].name \in stub.updates)
          <=> (f.parameters[i].attributes # {"in"} /\ needed)
  BY CppStub
<1>3. needed <=> ~IsVoid(f) \/ \E d \in Parameters(f) : IsOutParameter(d)
  BY DEF GetInformationAboutParameters, Parameters, ToSet
<1>4. /\ stub.declares <=> ~IsVoid(f)
      /\ ~needed => stub.updates = {}
  BY DEF BuildStubFunction, GetInformationAboutParameters
<1>5. \A d \in Parameters(f) : \E i \in DOMAIN f.parameters : d = f.parameters[i]
  BY DEF Parameters, ToSet
<1>6. \A d \in Parameters(f) : /\ IsOutParameterOnly(d) <=> d.attributes = {"out"}
                               /\ IsOutParameter(d) <=> d.attributes # {"in"}
  BY <1>5, Direction DEF Accepted
<1>7. CallCpp(f, stub, args) =
        IF stub.updates # {} /\ ~stub.declares
        THEN [end |-> "uncompiled", seen |-> args, after |-> args]
        ELSE IF \E d \in Parameters(f) : FailsFast(d, packed[d.name])
        THEN [end |-> "crash", seen |-> args, after |-> args]
        ELSE [end |-> "done", seen |-> seen, after |-> after]
  BY DEF CallCpp
<1> HIDE DEF stub, packed, seen, back, needed, after
<1>8. CASE Broken("c++", f)
  <2>1. PICK d \in Parameters(f) : IsOutParameter(d)
    BY <1>8 DEF Broken
  <2>2. d.name \in stub.updates
    BY <1>2, <1>3, <1>5, <1>6, <2>1
  <2>3. stub.updates # {} /\ ~stub.declares
    BY <1>4, <1>8, <2>2 DEF Broken
  <2>4. CallCpp(f, stub, args) = [end |-> "uncompiled", seen |-> args, after |-> args]
    BY <1>7, <2>3
  <2>5. ~Arrive("c++", f, args, CallCpp(f, stub, args))
    BY <2>4 DEF Arrive
  <2> QED
    BY <1>8, <2>5 DEF stub
<1>9. CASE ~Broken("c++", f)
  <2>1. stub.updates # {} => stub.declares
    BY <1>3, <1>4, <1>9 DEF Broken
  <2>2. ~\E d \in Parameters(f) : FailsFast(d, packed[d.name])
    BY <1>1, <1>5
  <2>3. CallCpp(f, stub, args) = [end |-> "done", seen |-> seen, after |-> after]
    BY <1>7, <2>1, <2>2
  <2>4. DOMAIN args = Names(Parameters(f))
    BY DEF Arguments
  <2>5. ASSUME NEW n \in DOMAIN args
        PROVE  after[n] = Expected("c++", f, args)[n]
    <3>1. PICK i \in DOMAIN f.parameters : f.parameters[i].name = n
      BY <2>4, Listed
    <3>2. /\ Of(Parameters(f), n) = f.parameters[i]
          /\ f.parameters[i] \in Parameters(f)
      BY <3>1, Found
    <3>3. Expected("c++", f, args)[n] =
            IF IsOutParameter(f.parameters[i]) THEN "set" ELSE args[n]
      BY <2>4, <3>2 DEF Expected, IsOutParameter
    <3>4. after[n] = IF n \in stub.updates THEN back[n] ELSE args[n]
      BY DEF after, UpdateParameterValue
    <3>5. IsOutParameter(f.parameters[i]) => needed
      BY <1>3, <3>2
    <3> QED
      BY <1>1, <1>2, <1>6, <3>1, <3>2, <3>3, <3>4, <3>5 DEF IsOutParameter
  <2>6. after = Expected("c++", f, args)
    BY <2>4, <2>5 DEF Expected, after, UpdateParameterValue
  <2>7. \A d \in Parameters(f) : ~IsOutParameterOnly(d) => seen[d.name] = args[d.name]
    BY <1>1, <1>5, <1>6
  <2>8. Arrive("c++", f, args, CallCpp(f, stub, args))
    BY <2>3, <2>6, <2>7 DEF Arrive
  <2> QED
    BY <1>9, <2>8 DEF stub
<1> QED
  BY <1>8, <1>9

-----------------------------------------------------------------------------
(* The statements for some of the parameters, found by name.               *)
LEMMA Statements ==
  ASSUME NEW f, Accepted(f), NEW i \in DOMAIN f.parameters,
         NEW chosen \in SUBSET DOMAIN f.parameters, NEW how
  PROVE  LET set == {[name |-> f.parameters[j].name, how |-> how[j]] : j \in chosen}
         IN  /\ (f.parameters[i].name \in Names(set)) <=> (i \in chosen)
             /\ i \in chosen => Of(set, f.parameters[i].name).how = how[i]
<1> DEFINE n == f.parameters[i].name
           statement(j) == [name |-> f.parameters[j].name, how |-> how[j]]
           set == {statement(j) : j \in chosen}
<1>1. \A j \in DOMAIN f.parameters : f.parameters[j].name = n => j = i
  BY DEF Accepted
<1>2. \A j : statement(j).name = f.parameters[j].name /\ statement(j).how = how[j]
  OBVIOUS
<1> HIDE DEF statement
<1>3. ASSUME n \in Names(set) PROVE i \in chosen
  <2>1. PICK j \in chosen : statement(j).name = n
    BY <1>3 DEF Names
  <2> QED
    BY <1>1, <1>2, <2>1
<1>4. ASSUME i \in chosen
      PROVE  n \in Names(set) /\ Of(set, n).how = how[i]
  <2>1. statement(i) \in set /\ statement(i).name = n
    BY <1>2, <1>4
  <2>2. \A e \in set : e.name = n => e = statement(i)
    BY <1>1, <1>2
  <2>3. Of(set, n) = statement(i)
    BY <2>1, <2>2 DEF Of
  <2>4. n \in Names(set)
    BY <2>1 DEF Names
  <2> QED
    BY <1>2, <2>3, <2>4
<1> QED
  BY <1>3, <1>4 DEF statement

(* What a Rust stub clones, what it moves back and how.                    *)
LEMMA RustStub ==
  ASSUME NEW f, Accepted(f), NEW i \in DOMAIN f.parameters
  PROVE  LET d      == f.parameters[i]
             clones == GetCloneToAbiStructStatements(f)
             moves  == GetMoveFromAbiStructToParamStatements(f)
         IN  /\ (d.name \in Names(clones)) <=> d.attributes # {"out"}
             /\ (d.name \in Names(moves)) <=> d.attributes # {"in"}
             /\ d.attributes # {"in"} =>
                  Of(moves, d.name).how =
                    IF ~IsArray(d) /\ IsOutParameterOnly(d) /\ IsStructOrWStringType(d)
                    THEN "expect"
                    ELSE IF d.type.kind = "optional" THEN "assign_if_some" ELSE "move"
<1> DEFINE p(j)   == f.parameters[j]
           filled == {j \in DOMAIN f.parameters : ~IsOutParameterOnly(p(j))}
           back   == {j \in DOMAIN f.parameters : ~IsInParameterOnly(p(j))}
           clone  == [j \in filled |->
                        IF IsArray(p(j)) THEN "clone"
                        ELSE CASE p(j).type.kind = "vector"   -> "to_owned"
                               [] p(j).type.kind = "string"   -> "to_string"
                               [] p(j).type.kind = "wstring"  -> "to_ustring"
                               [] p(j).type.kind = "optional" -> "copy_inner"
                               [] OTHER                       -> "clone"]
           move   == [j \in back |->
                        CASE ~IsArray(p(j)) /\ IsOutParameterOnly(p(j))
                               /\ IsStructOrWStringType(p(j)) -> "expect"
                          [] IsOutParameter(p(j)) /\ p(j).type.kind = "optional" ->
                               "assign_if_some"
                          [] OTHER -> "move"]
<1>1. /\ IsOutParameterOnly(p(i)) <=> p(i).attributes = {"out"}
      /\ IsInParameterOnly(p(i)) <=> p(i).attributes = {"in"}
      /\ IsOutParameter(p(i)) <=> p(i).attributes # {"in"}
  BY Direction DEF Accepted
<1>2. /\ filled \in SUBSET DOMAIN f.parameters
      /\ back \in SUBSET DOMAIN f.parameters
  OBVIOUS
<1>3. GetCloneToAbiStructStatements(f) = {[name |-> p(j).name, how |-> clone[j]] : j \in filled}
  BY DEF GetCloneToAbiStructStatements
<1>4. GetMoveFromAbiStructToParamStatements(f) =
        {[name |-> p(j).name, how |-> move[j]] : j \in back}
  BY DEF GetMoveFromAbiStructToParamStatements
<1>5. i \in back => move[i] =
        CASE ~IsArray(p(i)) /\ IsOutParameterOnly(p(i)) /\ IsStructOrWStringType(p(i)) -> "expect"
          [] IsOutParameter(p(i)) /\ p(i).type.kind = "optional" -> "assign_if_some"
          [] OTHER -> "move"
  OBVIOUS
<1>6. /\ i \in filled <=> p(i).attributes # {"out"}
      /\ i \in back <=> p(i).attributes # {"in"}
  BY <1>1
<1> HIDE DEF clone, move, filled, back
<1>7. /\ (p(i).name \in Names(GetCloneToAbiStructStatements(f))) <=> i \in filled
      /\ (p(i).name \in Names(GetMoveFromAbiStructToParamStatements(f))) <=> i \in back
      /\ i \in back => Of(GetMoveFromAbiStructToParamStatements(f), p(i).name).how = move[i]
  BY <1>2, <1>3, <1>4, Statements
<1>8. i \in back => move[i] =
        IF ~IsArray(p(i)) /\ IsOutParameterOnly(p(i)) /\ IsStructOrWStringType(p(i))
        THEN "expect" ELSE IF p(i).type.kind = "optional" THEN "assign_if_some" ELSE "move"
  BY <1>1, <1>5, <1>6 DEF IsStructOrWStringType
<1> QED
  BY <1>6, <1>7, <1>8

(* How the closure borrows a parameter.                                    *)
LEMMA RustClosure ==
  ASSUME NEW f, Accepted(f), NEW i \in DOMAIN f.parameters
  PROVE  LET d      == f.parameters[i]
             borrow == Borrow(f, GetClosureFunctionStatement(f), d.name)
         IN  /\ borrow = "expect" <=>
                  ~IsArray(d) /\ d.attributes = {"out"} /\ IsStructOrWStringType(d)
             /\ d.attributes # {"in"} /\ borrow # "expect" =>
                  borrow = IF d.type.kind = "optional" THEN "as_mut" ELSE "&mut"
<1> DEFINE d      == f.parameters[i]
           borrow == Borrow(f, GetClosureFunctionStatement(f), d.name)
<1>1. /\ IsOutParameterOnly(d) <=> d.attributes = {"out"}
      /\ IsInParameterOnly(d) <=> d.attributes = {"in"}
      /\ IsOutParameter(d) <=> d.attributes # {"in"}
  BY Direction DEF Accepted
<1>2. IndexOf(f.parameters, d.name) = i
  BY Found
<1>3. borrow = CASE ~IsArray(d) /\ IsOutParameterOnly(d) /\ IsStructOrWStringType(d) -> "expect"
                 [] d.type.kind = "optional" ->
                      IF IsInParameterOnly(d) THEN "as_ref" ELSE "as_mut"
                 [] OTHER -> GetParameterSyntax(d)
  BY <1>2 DEF Borrow, GetClosureFunctionStatement
<1>4. /\ GetParameterSyntax(d) # "expect"
      /\ d.attributes # {"in"} => GetParameterSyntax(d) = "&mut"
  BY <1>1, Zenon DEF GetParameterSyntax
<1> HIDE DEF d, borrow
<1>5. IsStructOrWStringType(d) => d.type.kind # "optional"
  BY DEF IsStructOrWStringType
<1>6. borrow = "expect" <=>
        ~IsArray(d) /\ d.attributes = {"out"} /\ IsStructOrWStringType(d)
  BY <1>1, <1>3, <1>4, <1>5 DEF IsArray, IsStructOrWStringType
<1>7. d.attributes # {"in"} /\ borrow # "expect" =>
        borrow = IF d.type.kind = "optional" THEN "as_mut" ELSE "&mut"
  BY <1>1, <1>3, <1>4, <1>5 DEF IsArray, IsStructOrWStringType
<1> QED
  BY <1>6, <1>7 DEF d, borrow

-----------------------------------------------------------------------------
(* One parameter on its way through a Rust call.                           *)
LEMMA RustParameter ==
  ASSUME NEW f, Accepted(f), NEW args \in Arguments(f), NEW i \in DOMAIN f.parameters,
         NEW stub, stub.clones = GetCloneToAbiStructStatements(f),
         stub.moves = GetMoveFromAbiStructToParamStatements(f)
  PROVE  LET d      == f.parameters[i]
             borrow == Borrow(f, GetClosureFunctionStatement(f), d.name)
             seen   == CloneToAbiStruct(f, stub, args)[d.name]
             left   == Implementation(borrow, seen)
             after  == IF d.name \notin Names(stub.moves) THEN args[d.name]
                       ELSE IF Of(stub.moves, d.name).how = "assign_if_some"
                            THEN AssignIfSome(args[d.name], left) ELSE left
             lost   == /\ d.attributes = {"out"}
                       /\ \/ ~IsArray(d) /\ IsStructOrWStringType(d)
                          \/ d.type.kind = "optional"
         IN  /\ d.attributes # {"out"} => seen = args[d.name]
             /\ ~lost => /\ ~(borrow = "expect" /\ seen = "none")
                         /\ after = Expected("rust", f, args)[d.name]
             /\ lost /\ args[d.name] = "given" =>
                  \/ borrow = "expect" /\ seen = "none"
                  \/ after # Expected("rust", f, args)[d.name]
<1> DEFINE d      == f.parameters[i]
           borrow == Borrow(f, GetClosureFunctionStatement(f), d.name)
           seen   == CloneToAbiStruct(f, stub, args)[d.name]
           left   == Implementation(borrow, seen)
           how    == Of(stub.moves, d.name).how
           after  == IF d.name \notin Names(stub.moves) THEN args[d.name]
                     ELSE IF how = "assign_if_some" THEN AssignIfSome(args[d.name], left) ELSE left
           plain  == ~IsArray(d) /\ IsStructOrWStringType(d)
<1>1. /\ IsOutParameterOnly(d) <=> d.attributes = {"out"}
      /\ IsOutParameter(d) <=> d.attributes # {"in"}
      /\ d.attributes \in Directions
  BY Direction DEF Accepted
<1>2. /\ d.name \in DOMAIN args
      /\ DOMAIN args = Names(Parameters(f))
      /\ args[d.name] \in {"given", "none"}
      /\ args[d.name] = "none" => d.type.kind = "optional"
  BY Found DEF Arguments
<1>3. Of(Parameters(f), d.name) = d
  BY Found
<1>4. /\ (d.name \in Names(stub.clones)) <=> d.attributes # {"out"}
      /\ (d.name \in Names(stub.moves)) <=> d.attributes # {"in"}
      /\ d.attributes # {"in"} =>
           how = IF ~IsArray(d) /\ IsOutParameterOnly(d) /\ IsStructOrWStringType(d)
                 THEN "expect"
                 ELSE IF d.type.kind = "optional" THEN "assign_if_some" ELSE "move"
  BY RustStub
<1>5. /\ borrow = "expect" <=>
           ~IsArray(d) /\ d.attributes = {"out"} /\ IsStructOrWStringType(d)
      /\ d.attributes # {"in"} /\ borrow # "expect" =>
           borrow = IF d.type.kind = "optional" THEN "as_mut" ELSE "&mut"
  BY RustClosure
<1>6. seen = IF d.attributes # {"out"} THEN args[d.name] ELSE DefaultOf(d)
  BY <1>2, <1>3, <1>4 DEF CloneToAbiStruct
<1>7. Expected("rust", f, args)[d.name] =
        IF d.attributes = {"in"} THEN args[d.name]
        ELSE IF args[d.name] = "none" THEN "none" ELSE "set"
  BY <1>1, <1>2, <1>3 DEF Expected
<1> HIDE DEF d, borrow, seen, how
<1>8. plain => d.type.kind # "optional"
  BY DEF IsStructOrWStringType
<1>9. DefaultOf(d) = IF d.type.kind = "optional" \/ (d.attributes = {"out"} /\ plain)
                     THEN "none" ELSE "zero"
  BY <1>1 DEF DefaultOf, IsArray, IsStructOrWStringType
<1>10. CASE d.attributes = {"in"}
  BY <1>4, <1>5, <1>6, <1>7, <1>10 DEF d, borrow, seen, how
<1>11. CASE d.attributes = {"in", "out"}
  <2>1. /\ borrow = IF d.type.kind = "optional" THEN "as_mut" ELSE "&mut"
        /\ borrow # "expect"
    BY <1>5, <1>11
  <2>2. how = IF d.type.kind = "optional" THEN "assign_if_some" ELSE "move"
    BY <1>1, <1>4, <1>11
  <2>3. seen = args[d.name]
    BY <1>6, <1>11
  <2>4. left = IF args[d.name] = "none" THEN "none" ELSE "set"
    BY <1>2, <2>1, <2>3 DEF Implementation
  <2>5. after = IF args[d.name] = "none" THEN "none" ELSE "set"
    BY <1>2, <1>4, <1>11, <2>2, <2>4 DEF AssignIfSome
  <2>6. after = Expected("rust", f, args)[d.name]
    BY <1>7, <1>11, <2>5
  <2> QED
    BY <1>11, <2>1, <2>3, <2>6 DEF d, borrow, seen, how
<1>12. CASE d.attributes = {"out"} /\ plain
  <2>1. borrow = "expect" /\ seen = "none"
    BY <1>5, <1>6, <1>9, <1>12
  <2> QED
    BY <1>12, <2>1 DEF d, borrow, seen, how
<1>13. CASE d.attributes = {"out"} /\ ~plain /\ d.type.kind = "optional"
  <2>1. borrow = "as_mut" /\ how = "assign_if_some" /\ seen = "none"
    BY <1>1, <1>4, <1>5, <1>6, <1>9, <1>13
  <2>2. left = "none"
    BY <2>1 DEF Implementation
  <2>3. after = args[d.name]
    BY <1>4, <1>13, <2>1, <2>2 DEF AssignIfSome
  <2>4. args[d.name] = "given" => after # Expected("rust", f, args)[d.name]
    BY <1>7, <1>13, <2>3
  <2> QED
    BY <1>13, <2>4 DEF d, borrow, seen, how
<1>14. CASE d.attributes = {"out"} /\ ~plain /\ d.type.kind # "optional"
  <2>1. borrow = "&mut" /\ how = "move" /\ seen = "zero" /\ args[d.name] = "given"
    BY <1>1, <1>2, <1>4, <1>5, <1>6, <1>9, <1>14
  <2>2. left = "set"
    BY <2>1 DEF Implementation
  <2>3. after = Expected("rust", f, args)[d.name]
    BY <1>4, <1>7, <1>14, <2>1, <2>2
  <2> QED
    BY <1>14, <2>1, <2>3 DEF d, borrow, seen, how
<1> QED
  BY <1>1, <1>10, <1>11, <1>12, <1>13, <1>14 DEF Directions

(* What is moved back is a parameter that is not only [in].                *)
LEMMA Moved ==
  ASSUME NEW f, Accepted(f), NEW m \in GetMoveFromAbiStructToParamStatements(f)
  PROVE  \E i \in DOMAIN f.parameters :
            m.name = f.parameters[i].name /\ f.parameters[i].attributes # {"in"}
<1>1. PICK i \in DOMAIN f.parameters :
        m.name = f.parameters[i].name /\ ~IsInParameterOnly(f.parameters[i])
  BY DEF GetMoveFromAbiStructToParamStatements
<1>2. IsInParameterOnly(f.parameters[i]) <=> f.parameters[i].attributes = {"in"}
  BY Direction DEF Accepted
<1> QED
  BY <1>1, <1>2

(* A Rust stub and the closure behind it give the implementation what the  *)
(* caller gave and the caller what the implementation wrote, for whatever  *)
(* the caller gives, exactly when no parameter is an [out] structure, wide *)
(* string or optional (GetCloneToAbiStructStatements,                      *)
(* GetMoveFromAbiStructToParamStatements, GetClosureFunctionStatement).    *)
THEOREM RustStubsDeliver ==
  ASSUME NEW functions, NEW index \in DOMAIN functions, Accepted(functions[index]),
         NEW layer, NEW namespace
  PROVE  LET f       == functions[index]
             stub    == BuildStubTraitModule(functions)[index]
             closure == BuildAbiDefinitionModule(layer, namespace, functions).abi[index].closure
         IN  (\A args \in Arguments(f) :
                Arrive("rust", f, args, CallRust(f, stub, closure, args)))
             <=> ~Broken("rust", f)
<1> DEFINE f       == functions[index]
           stub    == BuildStubTraitModule(functions)[index]
           closure == BuildAbiDefinitionModule(layer, namespace, functions).abi[index].closure
           lost(d) == /\ d.attributes = {"out"}
                      /\ \/ ~IsArray(d) /\ IsStructOrWStringType(d)
                         \/ d.type.kind = "optional"
           borrow(args) == [n \in DOMAIN args |-> Borrow(f, closure, n)]
           cloned(args) == CloneToAbiStruct(f, stub, args)
           seen(args)   == [n \in DOMAIN args |-> Conversion(cloned(args)[n])]
           left(args)   == [n \in DOMAIN args |->
                              Conversion(Implementation(borrow(args)[n], seen(args)[n]))]
           after(args)  == MoveFromAbiStruct(stub, args, left(args))
<1>1. /\ stub.clones = GetCloneToAbiStructStatements(f)
      /\ stub.moves = GetMoveFromAbiStructToParamStatements(f)
      /\ closure = GetClosureFunctionStatement(f)
  BY DEF BuildStubTraitModule, BuildAbiDefinitionModule
<1>2. Broken("rust", f) <=> \E i \in DOMAIN f.parameters : lost(f.parameters[i])
  <2>1. \A i \in DOMAIN f.parameters :
          IsOutParameterOnly(f.parameters[i]) <=> f.parameters[i].attributes = {"out"}
    BY Direction DEF Accepted
  <2> QED
    BY <2>1 DEF Broken, Parameters, ToSet, IsStructOrWStringType, IsArray
<1> HIDE DEF f, stub, closure
<1>3. ASSUME NEW args \in Arguments(f)
      PROVE  /\ DOMAIN args = Names(Parameters(f))
             /\ \A n \in DOMAIN args : \E i \in DOMAIN f.parameters : f.parameters[i].name = n
             /\ \A i \in DOMAIN f.parameters : f.parameters[i].name \in DOMAIN args
  BY Listed, Found DEF Arguments, f
<1>4. ASSUME NEW args \in Arguments(f)
      PROVE  CallRust(f, stub, closure, args) =
               IF \E m \in stub.moves : m.how = "move" /\ borrow(args)[m.name] = "&"
               THEN [end |-> "uncompiled", seen |-> args, after |-> args]
               ELSE IF \E n \in DOMAIN args : borrow(args)[n] = "expect" /\ seen(args)[n] = "none"
               THEN [end |-> "crash", seen |-> seen(args), after |-> args]
               ELSE [end |-> "done", seen |-> seen(args), after |-> after(args)]
  BY DEF CallRust
<1>5. ASSUME NEW args \in Arguments(f), NEW i \in DOMAIN f.parameters
      PROVE  LET d == f.parameters[i]
             IN  /\ d.attributes # {"out"} => seen(args)[d.name] = args[d.name]
                 /\ ~lost(d) =>
                      /\ ~(borrow(args)[d.name] = "expect" /\ seen(args)[d.name] = "none")
                      /\ after(args)[d.name] = Expected("rust", f, args)[d.name]
                 /\ lost(d) /\ args[d.name] = "given" =>
                      \/ borrow(args)[d.name] = "expect" /\ seen(args)[d.name] = "none"
                      \/ after(args)[d.name] # Expected("rust", f, args)[d.name]
  <2> DEFINE d  == f.parameters[i]
             b  == Borrow(f, GetClosureFunctionStatement(f), d.name)
             sn == CloneToAbiStruct(f, stub, args)[d.name]
             af == IF d.name \notin Names(stub.moves) THEN args[d.name]
                   ELSE IF Of(stub.moves, d.name).how = "assign_if_some"
                        THEN AssignIfSome(args[d.name], Implementation(b, sn))
                        ELSE Implementation(b, sn)
  <2>1. d.name \in DOMAIN args
    BY <1>3
  <2>2. borrow(args)[d.name] = b /\ seen(args)[d.name] = sn
    BY <1>1, <2>1 DEF Conversion
  <2>3. left(args)[d.name] = Implementation(b, sn)
    BY <2>1, <2>2 DEF Conversion
  <2> HIDE DEF left
  <2>4. after(args)[d.name] = af
    BY <2>1, <2>3 DEF MoveFromAbiStruct
  <2>5. /\ d.attributes # {"out"} => sn = args[d.name]
        /\ ~lost(d) => /\ ~(b = "expect" /\ sn = "none")
                       /\ af = Expected("rust", f, args)[d.name]
        /\ lost(d) /\ args[d.name] = "given" =>
             \/ b = "expect" /\ sn = "none"
             \/ af # Expected("rust", f, args)[d.name]
    BY <1>1, RustParameter DEF f
  <2> HIDE DEF after, b, sn, af, borrow, seen, lost
  <2> QED
    BY <2>2, <2>4, <2>5
<1> HIDE DEF lost, borrow, cloned, seen, left, after
<1>6. ASSUME NEW args \in Arguments(f), NEW m \in stub.moves
      PROVE  borrow(args)[m.name] # "&"
  <2>1. PICK i \in DOMAIN f.parameters :
          m.name = f.parameters[i].name /\ f.parameters[i].attributes # {"in"}
    BY <1>1, Moved DEF f
  <2>2. borrow(args)[m.name] = Borrow(f, GetClosureFunctionStatement(f), f.parameters[i].name)
    BY <1>1, <1>3, <2>1 DEF borrow
  <2>3. Borrow(f, GetClosureFunctionStatement(f), f.parameters[i].name) # "&"
    BY <2>1, RustClosure DEF f
  <2> QED
    BY <2>2, <2>3
<1>7. ASSUME ~Broken("rust", f), NEW args \in Arguments(f)
      PROVE  Arrive("rust", f, args, CallRust(f, stub, closure, args))
  <2>1. \A i \in DOMAIN f.parameters : ~lost(f.parameters[i])
    BY <1>2, <1>7
  <2>2. ~\E n \in DOMAIN args : borrow(args)[n] = "expect" /\ seen(args)[n] = "none"
    BY <1>3, <1>5, <2>1
  <2>3. CallRust(f, stub, closure, args) =
          [end |-> "done", seen |-> seen(args), after |-> after(args)]
    BY <1>4, <1>6, <2>2
  <2>4. \A n \in DOMAIN args : after(args)[n] = Expected("rust", f, args)[n]
    BY <1>3, <1>5, <2>1
  <2>5. after(args) = Expected("rust", f, args)
    BY <1>3, <2>4 DEF after, MoveFromAbiStruct, Expected
  <2>6. \A i \in DOMAIN f.parameters :
          IsOutParameterOnly(f.parameters[i]) <=> f.parameters[i].attributes = {"out"}
    BY Direction DEF Accepted, f
  <2>7. \A d \in Parameters(f) : ~IsOutParameterOnly(d) => seen(args)[d.name] = args[d.name]
    BY <1>5, <2>6 DEF Parameters, ToSet
  <2> QED
    BY <2>3, <2>5, <2>7 DEF Arrive
<1>8. ASSUME Broken("rust", f)
      PROVE  \E args \in Arguments(f) :
               ~Arrive("rust", f, args, CallRust(f, stub, closure, args))
  <2>1. PICK i \in DOMAIN f.parameters : lost(f.parameters[i])
    BY <1>2, <1>8
  <2> DEFINE n == f.parameters[i].name
             args == [name \in Names(Parameters(f)) |-> "given"]
  <2>2. args \in Arguments(f)
    BY DEF Arguments, Names
  <2>3. n \in DOMAIN args /\ args[n] = "given"
    BY <1>3, <2>2
  <2> HIDE DEF args
  <2>4. \/ borrow(args)[n] = "expect" /\ seen(args)[n] = "none"
        \/ after(args)[n] # Expected("rust", f, args)[n]
    BY <1>5, <2>1, <2>2, <2>3
  <2>5. ~Arrive("rust", f, args, CallRust(f, stub, closure, args))
    BY <1>4, <2>2, <2>3, <2>4 DEF Arrive
  <2> QED
    BY <2>2, <2>5
<1> QED
  BY <1>7, <1>8 DEF f, stub, closure

-----------------------------------------------------------------------------
(* What is built from a sequence, entry by entry, is as long.              *)
LEMMA Mapped ==
  ASSUME NEW F, NEW functions \in Seq(F), NEW own, own = [i \in DOMAIN functions |-> own[i]]
  PROVE  /\ own \in Seq({own[i] : i \in DOMAIN functions})
         /\ Len(own) = Len(functions) /\ Len(functions) \in Nat
         /\ DOMAIN own = 1 .. Len(functions) /\ DOMAIN functions = 1 .. Len(functions)
<1> DEFINE S == {own[i] : i \in DOMAIN functions}
<1>1. DOMAIN functions = 1 .. Len(functions) /\ Len(functions) \in Nat
  OBVIOUS
<1>2. DOMAIN own = 1 .. Len(functions)
  BY <1>1
<1>3. own \in [1 .. Len(functions) -> S]
  BY <1>1
<1> HIDE DEF S
<1>4. own \in Seq(S) /\ Len(own) = Len(functions)
  BY <1>1, <1>2, <1>3, SeqDef, LenProperties
<1> QED
  BY <1>1, <1>2, <1>4 DEF S

(* Two entries and then those of a sequence.                               *)
LEMMA Table ==
  ASSUME NEW S, NEW own \in Seq(S), NEW a, NEW b, NEW table, table = <<a, b>> \o own
  PROVE  /\ Len(table) = Len(own) + 2
         /\ DOMAIN table = 1 .. Len(own) + 2
         /\ \A i \in DOMAIN own : i + 2 \in DOMAIN table /\ table[i + 2] = own[i]
         /\ table[1] = a /\ table[2] = b
         /\ \A i \in DOMAIN table :
              i = 1 \/ i = 2 \/ (i - 2 \in DOMAIN own /\ table[i] = own[i - 2])
<1> DEFINE T == S \cup {a, b}
<1>1. <<a, b>> \in Seq(T) /\ own \in Seq(T)
  OBVIOUS
<1>2. /\ table \in Seq(T) /\ Len(table) = Len(own) + 2
      /\ \A i \in 1 .. Len(own) + 2 : table[i] = IF i <= 2 THEN <<a, b>>[i] ELSE own[i - 2]
  BY <1>1, ConcatProperties
<1>3. DOMAIN table = 1 .. Len(own) + 2 /\ DOMAIN own = 1 .. Len(own) /\ Len(own) \in Nat
  BY <1>1, <1>2
<1>4. \A i \in DOMAIN own : i + 2 \in DOMAIN table /\ table[i + 2] = own[i]
  BY <1>2, <1>3
<1>5. table[1] = a /\ table[2] = b
  BY <1>2, <1>3
<1>6. \A i \in DOMAIN table :
        i = 1 \/ i = 2 \/ (i - 2 \in DOMAIN own /\ table[i] = own[i - 2])
  BY <1>2, <1>3
<1> QED
  BY <1>2, <1>3, <1>4, <1>5, <1>6

(* No entry twice, if the sequence has none twice and none of the two.     *)
LEMMA TableInjective ==
  ASSUME NEW S, NEW own \in Seq(S), NEW a, NEW b, NEW table, table = <<a, b>> \o own,
         IsInjective(own), a # b, \A i \in DOMAIN own : own[i] # a /\ own[i] # b
  PROVE  IsInjective(table)
<1>1. /\ DOMAIN table = 1 .. Len(own) + 2 /\ Len(own) \in Nat
      /\ table[1] = a /\ table[2] = b
      /\ \A i \in DOMAIN table :
           i = 1 \/ i = 2 \/ (i - 2 \in DOMAIN own /\ table[i] = own[i - 2])
  BY Table
<1>2. ASSUME NEW i \in DOMAIN table, NEW j \in DOMAIN table, table[i] = table[j]
      PROVE  i = j
  BY <1>1, <1>2 DEF IsInjective
<1> QED
  BY <1>2 DEF IsInjective

(* The entries of a sequence and then one more.                            *)
LEMMA OneMore ==
  ASSUME NEW S, NEW own \in Seq(S), NEW a
  PROVE  LET list == own \o <<a>>
         IN  /\ DOMAIN list = 1 .. Len(own) + 1
             /\ list[Len(own) + 1] = a
             /\ \A i \in DOMAIN own : i \in DOMAIN list /\ list[i] = own[i]
<1> DEFINE T    == S \cup {a}
           list == own \o <<a>>
<1>1. <<a>> \in Seq(T) /\ own \in Seq(T)
  OBVIOUS
<1>2. /\ list \in Seq(T) /\ Len(list) = Len(own) + 1
      /\ \A i \in 1 .. Len(own) + 1 : list[i] = IF i <= Len(own) THEN own[i] ELSE <<a>>[i - Len(own)]
  BY <1>1, ConcatProperties
<1>3. DOMAIN list = 1 .. Len(own) + 1 /\ DOMAIN own = 1 .. Len(own) /\ Len(own) \in Nat
  BY <1>1, <1>2
<1> HIDE DEF list
<1> QED
  BY <1>2, <1>3 DEF list

(* The files of the two layers that refer to each other, as GenerateCpp    *)
(* writes them.                                                            *)
CppFiles(enclave, host, namespace, trusted, untrusted) ==
  LET toEnclave == BuildHostToEnclaveFunctions(namespace, trusted)
      toHost    == BuildEnclaveToHostFunctions(namespace, untrusted)
  IN  /\ enclave["Abi/Definitions.h"] =
           SaveAbiDefinitionsHeader("Enclave", toEnclave, toHost).content
      /\ enclave["Abi/Exports.cpp"] =
           BuildVtl1ExportedFunctionsSourcefile(namespace, trusted)
      /\ enclave["Abi/LinkerPragmas.cpp"] =
           BuildVtl1PragmaStatementsSourcefile(namespace, trusted)
      /\ enclave["Stubs/Untrusted.h"] = SaveUntrustedHeader("Enclave", toHost).content
      /\ host["Abi/Definitions.h"] =
           SaveAbiDefinitionsHeader("HostApp", toEnclave, toHost).content
      /\ host["Stubs/Trusted.h"] =
           SaveTrustedHeader("HostApp", toEnclave, toHost, namespace).content

(* A list without repetition stays one behind an element it does not hold. *)
LEMMA OneMoreApart ==
  ASSUME NEW s, NEW n \in Nat, DOMAIN s = 1 .. n + 1,
         \A i, j \in 1 .. n : s[i] = s[j] => i = j,
         \A i \in 1 .. n : s[i] # s[n + 1]
  PROVE  IsInjective(s)
<1>1. \A i \in 1 .. n + 1 : i \in 1 .. n \/ i = n + 1
  OBVIOUS
<1>2. ASSUME NEW i \in 1 .. n + 1, NEW j \in 1 .. n + 1, s[i] = s[j]
      PROVE  i = j
  BY <1>1, <1>2
<1> QED
  BY <1>2 DEF IsInjective

(* The functions the enclave exports: a name each, and the one that        *)
(* registers the callbacks.                                                *)
LEMMA CppBoundary ==
  ASSUME NEW F, NEW trusted \in Seq(F), Numbered(trusted), NEW namespace,
         \A i \in DOMAIN trusted : AbiName(trusted[i]) # RegisterCallbacks(namespace),
         NEW boundary, boundary = BuildHostToEnclaveFunctions(namespace, trusted).abi,
         NEW names, names = [i \in DOMAIN boundary |-> boundary[i].name]
  PROVE  /\ IsInjective(names)
         /\ ToSet(names) = {AbiName(trusted[i]) : i \in DOMAIN trusted}
                              \cup {RegisterCallbacks(namespace)}
         /\ \A i \in DOMAIN trusted : /\ i \in DOMAIN boundary
                                      /\ boundary[i].name = AbiName(trusted[i])
                                      /\ boundary[i].calls = trusted[i].function
                                      /\ boundary[i].restricts
<1> DEFINE own   == [i \in DOMAIN trusted |-> BuildTrustBoundaryFunction(trusted[i], TRUE)]
           extra == [name |-> RegisterCallbacks(namespace), restricts |-> TRUE,
                     calls |-> "RegisterVtl0Callbacks",
                     arguments |-> "AbiRegisterVtl0Callbacks_args"]
           abi   == own \o <<extra>>
           n     == Len(trusted)
<1>1. boundary = abi
  BY DEF BuildHostToEnclaveFunctions
<1>2. /\ DOMAIN trusted = 1 .. n /\ n \in Nat
      /\ own \in Seq({own[i] : i \in DOMAIN trusted})
      /\ Len(own) = n /\ DOMAIN own = 1 .. n
  <2>1. own = [i \in DOMAIN trusted |-> own[i]]
    OBVIOUS
  <2> HIDE DEF own
  <2> QED
    BY <2>1, Mapped
<1>3. /\ DOMAIN abi = 1 .. n + 1
      /\ abi[n + 1] = extra
      /\ \A i \in 1 .. n : abi[i] = own[i]
  <2> HIDE DEF own, extra
  <2> QED
    BY <1>2, OneMore
<1>4. \A i \in 1 .. n : /\ own[i].name = AbiName(trusted[i])
                       /\ own[i].calls = trusted[i].function
                       /\ own[i].restricts
  BY <1>2 DEF BuildTrustBoundaryFunction
<1>5. extra.name = RegisterCallbacks(namespace)
  OBVIOUS
<1> HIDE DEF own, extra, abi
<1>6. /\ DOMAIN names = 1 .. n + 1
      /\ names[n + 1] = RegisterCallbacks(namespace)
      /\ \A i \in 1 .. n : names[i] = AbiName(trusted[i])
  BY <1>1, <1>2, <1>3, <1>4, <1>5
<1>7. \A i \in 1 .. n : AbiName(trusted[i]) # RegisterCallbacks(namespace)
  BY <1>2
<1>8. IsInjective(names)
  <2>1. \A i, j \in 1 .. n : names[i] = names[j] => i = j
    <3>1. \A i, j \in 1 .. n : AbiName(trusted[i]) = AbiName(trusted[j]) => i = j
      BY <1>2 DEF Numbered
    <3> QED
      BY ONLY <1>6, <3>1
  <2>2. \A i \in 1 .. n : names[i] # names[n + 1]
    BY ONLY <1>6, <1>7
  <2>3. n \in Nat /\ DOMAIN names = 1 .. n + 1
    BY <1>2, <1>6
  <2> QED
    BY ONLY <2>1, <2>2, <2>3, OneMoreApart
<1>9. ToSet(names) = {AbiName(trusted[i]) : i \in DOMAIN trusted}
                       \cup {RegisterCallbacks(namespace)}
  <2>1. \A i \in 1 .. n + 1 : i \in 1 .. n \/ i = n + 1
    BY <1>2
  <2>2. n + 1 \in 1 .. n + 1 /\ \A i \in 1 .. n : i \in 1 .. n + 1
    BY <1>2
  <2>3. ToSet(names) = {names[i] : i \in 1 .. n + 1}
    BY ONLY <1>6 DEF ToSet
  <2>4. {names[i] : i \in 1 .. n + 1} = {names[i] : i \in 1 .. n} \cup {names[n + 1]}
    BY ONLY <2>1, <2>2
  <2>5. {names[i] : i \in 1 .. n} = {AbiName(trusted[i]) : i \in 1 .. n}
    BY ONLY <1>6
  <2> QED
    BY ONLY <1>2, <1>6, <2>3, <2>4, <2>5
<1>10. \A i \in DOMAIN trusted : /\ i \in DOMAIN boundary
                                 /\ boundary[i].name = AbiName(trusted[i])
                                 /\ boundary[i].calls = trusted[i].function
                                 /\ boundary[i].restricts
  BY <1>1, <1>2, <1>3, <1>4
<1> QED
  BY <1>8, <1>9, <1>10

(* A prefix in front of a name.                                            *)
LEMMA Prefixed ==
  ASSUME NEW a, NEW b, NEW c
  PROVE  <<a>> \o <<b, c>> = <<a, b, c>>
<1> DEFINE T == {a, b, c}
           s == <<a>> \o <<b, c>>
<1>1. <<a>> \in Seq(T) /\ <<b, c>> \in Seq(T) /\ <<a, b, c>> \in Seq(T)
  OBVIOUS
<1>2. /\ s \in Seq(T) /\ Len(s) = 3
      /\ \A i \in 1 .. 3 : s[i] = IF i <= 1 THEN <<a>>[i] ELSE <<b, c>>[i - 1]
  BY <1>1, ConcatProperties
<1>3. s[1] = a /\ s[2] = b /\ s[3] = c
  BY <1>2
<1> HIDE DEF s
<1>4. \A i \in 1 .. 3 : s[i] = <<a, b, c>>[i]
  BY <1>3
<1>5. Len(<<a, b, c>>) = 3
  OBVIOUS
<1>6. s = <<a, b, c>>
  BY <1>1, <1>2, <1>4, <1>5, SeqEqual
<1> QED
  BY <1>6 DEF s

(* What the host registers: a name for the address of each function the    *)
(* enclave may call, behind the allocators.                                *)
LEMMA CppCallbacks ==
  ASSUME NEW F, NEW untrusted \in Seq(F), Numbered(untrusted), NEW namespace
  PROVE  LET toHost == BuildEnclaveToHostFunctions(namespace, untrusted)
         IN  /\ Len(toHost.names) = toHost.size
             /\ Len(toHost.addresses) = toHost.size
             /\ IsInjective(toHost.names)
             /\ \A i \in DOMAIN untrusted :
                  /\ i + 2 \in DOMAIN toHost.names
                  /\ toHost.names[i + 2] = CallbackName(namespace, untrusted[i])
                  /\ toHost.addresses[i + 2] = AbiName(untrusted[i])
<1> DEFINE addresses  == [i \in DOMAIN untrusted |-> AbiName(untrusted[i])]
           names      == [i \in DOMAIN untrusted |-> CallbackName(namespace, untrusted[i])]
           toHost     == BuildEnclaveToHostFunctions(namespace, untrusted)
           allocate   == <<"AllocateVtl0MemoryCallback">>
           deallocate == <<"DeallocateVtl0MemoryCallback">>
           N          == {names[i] : i \in DOMAIN untrusted}
           A          == {addresses[i] : i \in DOMAIN untrusted}
<1>1. /\ toHost.size = Len(untrusted) + 2
      /\ toHost.addresses = <<allocate, deallocate>> \o addresses
      /\ toHost.names = <<allocate, deallocate>> \o names
  BY DEF BuildEnclaveToHostFunctions, Allocators
<1>2. /\ names = [i \in DOMAIN untrusted |-> names[i]]
      /\ addresses = [i \in DOMAIN untrusted |-> addresses[i]]
      /\ \A i \in DOMAIN untrusted : /\ names[i] = <<namespace>> \o AbiName(untrusted[i])
                                     /\ names[i] = CallbackName(namespace, untrusted[i])
                                     /\ addresses[i] = AbiName(untrusted[i])
  BY DEF CallbackName
<1> HIDE DEF names, addresses, toHost
<1>3. names \in Seq(N) /\ Len(names) = Len(untrusted) /\ DOMAIN names = DOMAIN untrusted
  BY <1>2, Mapped
<1>4. addresses \in Seq(A) /\ Len(addresses) = Len(untrusted) /\ DOMAIN addresses = DOMAIN untrusted
  BY <1>2, Mapped
<1>5. \A i \in DOMAIN untrusted :
        names[i] = <<namespace, untrusted[i].function, untrusted[i].abi>>
  <2> TAKE i \in DOMAIN untrusted
  <2> DEFINE a == untrusted[i].function
             b == untrusted[i].abi
  <2>1. <<namespace>> \o <<a, b>> = <<namespace, a, b>>
    BY Prefixed
  <2>2. names[i] = <<namespace>> \o <<a, b>>
    BY <1>2 DEF AbiName
  <2> HIDE DEF a, b
  <2>3. names[i] = <<namespace, a, b>>
    BY <2>1, <2>2, Zenon
  <2> QED
    BY <2>3 DEF a, b
<1>6. IsInjective(names)
  BY <1>3, <1>5 DEF IsInjective, Numbered, AbiName
<1>7. allocate # deallocate
  <2>1. allocate[1] # deallocate[1]
    OBVIOUS
  <2> QED
    BY <2>1
<1>8. Len(allocate) = 1 /\ Len(deallocate) = 1
  OBVIOUS
<1> HIDE DEF N, A, allocate, deallocate
<1>9. ASSUME NEW i \in DOMAIN names PROVE names[i] # allocate /\ names[i] # deallocate
  <2>1. names[i] = <<namespace, untrusted[i].function, untrusted[i].abi>>
    BY <1>3, <1>5
  <2>2. Len(names[i]) = 3
    BY <2>1
  <2>3. ASSUME names[i] = allocate \/ names[i] = deallocate PROVE FALSE
    <3>1. Len(names[i]) = 1
      BY <1>8, <2>3, Zenon
    <3>2. 3 # 1
      OBVIOUS
    <3> QED
      BY <2>2, <3>1, <3>2, Zenon
  <2> QED
    BY <2>3
<1>10. /\ Len(toHost.names) = Len(names) + 2
       /\ IsInjective(toHost.names)
       /\ \A i \in DOMAIN names : i + 2 \in DOMAIN toHost.names /\ toHost.names[i + 2] = names[i]
  <2> DEFINE t == toHost.names
  <2>1. t = <<allocate, deallocate>> \o names
    BY <1>1
  <2>2. names \in Seq(N)
    BY <1>3
  <2> HIDE DEF t
  <2>3. /\ Len(t) = Len(names) + 2
        /\ \A i \in DOMAIN names : i + 2 \in DOMAIN t /\ t[i + 2] = names[i]
    BY <2>1, <2>2, Table
  <2>4. IsInjective(t)
    BY <1>6, <1>7, <1>9, <2>1, <2>2, TableInjective, Zenon
  <2> QED
    BY <2>3, <2>4 DEF t
<1>11. /\ Len(toHost.addresses) = Len(addresses) + 2
       /\ \A i \in DOMAIN addresses : toHost.addresses[i + 2] = addresses[i]
  BY <1>1, <1>4, Table
<1>12. /\ Len(toHost.names) = toHost.size
       /\ Len(toHost.addresses) = toHost.size
       /\ IsInjective(toHost.names)
  BY <1>1, <1>3, <1>4, <1>10, <1>11
<1>13. \A i \in DOMAIN untrusted :
         /\ i + 2 \in DOMAIN toHost.names
         /\ toHost.names[i + 2] = CallbackName(namespace, untrusted[i])
         /\ toHost.addresses[i + 2] = AbiName(untrusted[i])
  BY <1>2, <1>3, <1>4, <1>10, <1>11
<1> QED
  BY <1>12, <1>13 DEF toHost

(* Whatever the interface, the two layers of a C++ build fit: the host     *)
(* calls functions the enclave exports and registers, and each enclave     *)
(* stub finds the address of its function under the name it looks up       *)
(* (BuildHostToEnclaveFunctions, BuildEnclaveToHostFunctions).             *)
THEOREM CppLayersFit ==
  ASSUME NEW F, NEW trusted \in Seq(F), NEW untrusted \in Seq(F),
         Numbered(trusted), Numbered(untrusted), NEW namespace, NEW enclave, NEW host,
         \A i \in DOMAIN trusted : AbiName(trusted[i]) # RegisterCallbacks(namespace),
         CppFiles(enclave, host, namespace, trusted, untrusted)
  PROVE  CallsResolve(enclave, host)
<1> DEFINE toEnclave == BuildHostToEnclaveFunctions(namespace, trusted)
           toHost    == BuildEnclaveToHostFunctions(namespace, untrusted)
           boundary  == enclave["Abi/Definitions.h"].abi
           callback  == host["Abi/Definitions.h"].abi
           table     == host["Stubs/Trusted.h"]
           names     == [i \in DOMAIN boundary |-> boundary[i].name]
<1>1. boundary = toEnclave.abi
  BY DEF CppFiles, SaveAbiDefinitionsHeader, Save
<1>2. callback = [i \in DOMAIN untrusted |-> BuildTrustBoundaryFunction(untrusted[i], FALSE)]
  <2>1. callback = toHost.abi
    BY DEF CppFiles, SaveAbiDefinitionsHeader, Save
  <2>2. toHost.abi = [i \in DOMAIN untrusted |-> BuildTrustBoundaryFunction(untrusted[i], FALSE)]
    BY DEF BuildEnclaveToHostFunctions
  <2> QED
    BY <2>1, <2>2, Zenon
<1>3. /\ table.stubs = [i \in DOMAIN trusted |->
                         BuildStubFunction(trusted[i], AbiName(trusted[i]))]
      /\ table.registers = RegisterCallbacks(namespace)
      /\ table.size = toHost.size
      /\ table.addresses = toHost.addresses
      /\ table.names = toHost.names
  BY DEF CppFiles, SaveTrustedHeader, Save, BuildHostToEnclaveFunctions
<1>4. enclave["Stubs/Untrusted.h"].stubs =
        [i \in DOMAIN untrusted |->
           BuildStubFunction(untrusted[i], CallbackName(namespace, untrusted[i]))]
  BY DEF CppFiles, SaveUntrustedHeader, Save, BuildEnclaveToHostFunctions
<1>5. /\ enclave["Abi/Exports.cpp"] = {AbiName(trusted[i]) : i \in DOMAIN trusted}
                                         \cup {RegisterCallbacks(namespace)}
      /\ enclave["Abi/LinkerPragmas.cpp"] = {AbiName(trusted[i]) : i \in DOMAIN trusted}
                                               \cup {RegisterCallbacks(namespace)}
  BY DEF CppFiles, BuildVtl1ExportedFunctionsSourcefile, BuildVtl1PragmaStatementsSourcefile
<1>6. /\ IsInjective(names)
      /\ ToSet(names) = {AbiName(trusted[i]) : i \in DOMAIN trusted}
                           \cup {RegisterCallbacks(namespace)}
      /\ \A i \in DOMAIN trusted : /\ i \in DOMAIN boundary
                                   /\ boundary[i].name = AbiName(trusted[i])
                                   /\ boundary[i].calls = trusted[i].function
                                   /\ boundary[i].restricts
  <2>1. names = [i \in DOMAIN boundary |-> boundary[i].name]
    OBVIOUS
  <2> HIDE DEF boundary, names
  <2> QED
    BY <1>1, <2>1, CppBoundary
<1>7. /\ Len(table.names) = table.size /\ Len(table.addresses) = table.size
      /\ IsInjective(table.names)
      /\ \A i \in DOMAIN untrusted :
           /\ i + 2 \in DOMAIN table.names
           /\ table.names[i + 2] = CallbackName(namespace, untrusted[i])
           /\ table.addresses[i + 2] = AbiName(untrusted[i])
  BY <1>3, CppCallbacks
<1>8. \A f, target : /\ BuildStubFunction(f, target).name = f.function
                     /\ BuildStubFunction(f, target).abi = target
  BY DEF BuildStubFunction
<1> HIDE DEF boundary, callback, table, names, toEnclave, toHost
<1>9. \A stub \in ToSet(table.stubs) : \E b \in ToSet(boundary) :
        b.name = stub.abi /\ b.calls = stub.name /\ b.restricts
  <2>1. ASSUME NEW i \in DOMAIN trusted
        PROVE  /\ boundary[i] \in ToSet(boundary)
               /\ boundary[i].name = table.stubs[i].abi
               /\ boundary[i].calls = table.stubs[i].name
               /\ boundary[i].restricts
    BY <1>3, <1>6, <1>8 DEF ToSet
  <2>2. \A stub \in ToSet(table.stubs) : \E i \in DOMAIN trusted : stub = table.stubs[i]
    BY <1>3 DEF ToSet
  <2> QED
    BY <2>1, <2>2
<1>10. \A stub \in ToSet(enclave["Stubs/Untrusted.h"].stubs) :
         \E i \in DOMAIN table.names :
           /\ table.names[i] = stub.abi
           /\ \E c \in ToSet(callback) : c.name = table.addresses[i] /\ c.calls = stub.name
  <2> DEFINE stubs == enclave["Stubs/Untrusted.h"].stubs
  <2>1. ASSUME NEW i \in DOMAIN untrusted
        PROVE  /\ i + 2 \in DOMAIN table.names
               /\ table.names[i + 2] = stubs[i].abi
               /\ callback[i] \in ToSet(callback)
               /\ callback[i].name = table.addresses[i + 2]
               /\ callback[i].calls = stubs[i].name
    <3>1. /\ i \in DOMAIN callback
          /\ callback[i].name = AbiName(untrusted[i])
          /\ callback[i].calls = untrusted[i].function
      BY <1>2 DEF BuildTrustBoundaryFunction
    <3>2. /\ stubs[i].abi = CallbackName(namespace, untrusted[i])
          /\ stubs[i].name = untrusted[i].function
      BY <1>4, <1>8
    <3>3. callback[i] \in ToSet(callback)
      BY <3>1 DEF ToSet
    <3> HIDE DEF stubs
    <3> QED
      BY <1>7, <3>1, <3>2, <3>3
  <2>2. \A stub \in ToSet(stubs) : \E i \in DOMAIN untrusted : stub = stubs[i]
    BY <1>4 DEF ToSet
  <2> HIDE DEF stubs
  <2>3. ASSUME NEW stub \in ToSet(stubs)
        PROVE  \E i \in DOMAIN table.names :
                 /\ table.names[i] = stub.abi
                 /\ \E c \in ToSet(callback) : c.name = table.addresses[i] /\ c.calls = stub.name
    <3>1. PICK i \in DOMAIN untrusted : stub = stubs[i]
      BY <2>2
    <3> QED
      BY <2>1, <3>1
  <2> QED
    BY <2>3 DEF stubs
<1>11. table.registers \in ToSet(names)
  BY <1>3, <1>6
<1> QED
  BY <1>5, <1>6, <1>7, <1>9, <1>10, <1>11, Zenon
     DEF CallsResolve, boundary, callback, table, names

-----------------------------------------------------------------------------
(* The same files of a Rust build.                                         *)
RustFiles(enclave, host, namespace, interface) ==
  /\ enclave["abi/definitions.rs"] =
       GenerateAbiBoundaryModule(interface, "Enclave", namespace).content
  /\ host["abi/definitions.rs"] =
       GenerateAbiBoundaryModule(interface, "HostApp", namespace).content
  /\ enclave["stubs/untrusted.rs"] = GenerateStubModules(interface, "Enclave", namespace)[1].content
  /\ host["stubs/trusted.rs"] = GenerateStubModules(interface, "HostApp", namespace)[1].content

(* Whatever the interface, the two layers of a Rust build fit: each stub   *)
(* names a boundary function whose closure calls the method of the stub's  *)
(* name with as many arguments, every boundary function of the enclave     *)
(* restricts access first, and the callbacks are registered under the      *)
(* names the enclave looks up (RustCodeBuilder.cpp,                        *)
(* GetRegisterCallbacksFunctionStatements).                                *)
THEOREM RustLayersFit ==
  ASSUME NEW F, NEW P, NEW interface, interface.trusted \in Seq(F), interface.untrusted \in Seq(F),
         Numbered(interface.trusted), Numbered(interface.untrusted),
         \A f \in F : f.parameters \in Seq(P),
         NEW namespace, NEW enclave, NEW host, RustFiles(enclave, host, namespace, interface)
  PROVE  StubsReach(enclave, host)
<1> DEFINE trusted   == interface.trusted
           untrusted == interface.untrusted
           boundary  == enclave["abi/definitions.rs"].abi
           callback  == host["abi/definitions.rs"].abi
           table     == host["abi/definitions.rs"].callbacks
           hostStubs == host["stubs/trusted.rs"].stubs
           ownStubs  == enclave["stubs/untrusted.rs"].stubs
           own       == [i \in DOMAIN untrusted |-> AbiName(untrusted[i])]
<1>1. /\ boundary = BuildAbiDefinitionModule("Enclave", namespace, trusted).abi
      /\ callback = BuildAbiDefinitionModule("HostApp", namespace, untrusted).abi
      /\ table = GetRegisterCallbacksFunctionStatements(untrusted)
      /\ hostStubs = BuildStubTraitModule(trusted)
      /\ ownStubs = BuildStubTraitModule(untrusted)
      /\ host["stubs/trusted.rs"].registers = enclave["abi/definitions.rs"].registers
  BY DEF RustFiles, GenerateAbiBoundaryModule, GenerateStubModules, Save,
         BuildAbiDefinitionModule
<1>2. ASSUME NEW functions \in Seq(F), NEW layer, NEW i \in DOMAIN functions
      PROVE  LET b == BuildAbiDefinitionModule(layer, namespace, functions).abi[i]
                 s == BuildStubTraitModule(functions)[i]
             IN  /\ b.name = s.abi /\ s.abi = AbiName(functions[i])
                 /\ b.closure.calls = s.name
                 /\ Len(b.closure.arguments) = Len(s.parameters)
                 /\ b.restricts = (layer = "Enclave")
  <2> DEFINE f == functions[i]
             b == BuildAbiDefinitionModule(layer, namespace, functions).abi[i]
             s == BuildStubTraitModule(functions)[i]
  <2>1. /\ b.name = AbiName(f) /\ b.restricts = (layer = "Enclave")
        /\ b.closure = GetClosureFunctionStatement(f)
    BY DEF BuildAbiDefinitionModule
  <2>2. s.abi = AbiName(f) /\ s.name = f.function
        /\ s.parameters = GenerateFunctionParametersList(f)
    BY DEF BuildStubTraitModule
  <2> HIDE DEF b, s
  <2>3. f.parameters \in Seq(P)
    BY ElementOfSeq
  <2>4. b.closure.calls = f.function
    BY <2>1 DEF GetClosureFunctionStatement
  <2>5. Len(s.parameters) = Len(f.parameters)
    <3> DEFINE list == GenerateFunctionParametersList(f)
    <3>1. list = [j \in DOMAIN f.parameters |-> list[j]]
      BY DEF GenerateFunctionParametersList
    <3> HIDE DEF list
    <3> QED
      BY <2>2, <2>3, <3>1, Mapped DEF list
  <2>6. Len(b.closure.arguments) = Len(f.parameters)
    <3> DEFINE list == GetClosureFunctionStatement(f).arguments
    <3>1. list = [j \in DOMAIN f.parameters |-> list[j]]
      BY DEF GetClosureFunctionStatement
    <3> HIDE DEF list
    <3> QED
      BY <2>1, <2>3, <3>1, Mapped DEF list
  <2> QED
    BY <2>1, <2>2, <2>4, <2>5, <2>6 DEF b, s
<1>3. ASSUME NEW functions, NEW layer
      PROVE  /\ DOMAIN BuildAbiDefinitionModule(layer, namespace, functions).abi = DOMAIN functions
             /\ DOMAIN BuildStubTraitModule(functions) = DOMAIN functions
             /\ \A i \in DOMAIN functions :
                  BuildStubTraitModule(functions)[i].abi = AbiName(functions[i])
  BY DEF BuildAbiDefinitionModule, BuildStubTraitModule
<1>4. ASSUME NEW functions \in Seq(F), NEW layer
      PROVE  \A s \in ToSet(BuildStubTraitModule(functions)) :
               \E b \in ToSet(BuildAbiDefinitionModule(layer, namespace, functions).abi) :
                 /\ b.name = s.abi /\ b.closure.calls = s.name
                 /\ Len(b.closure.arguments) = Len(s.parameters)
  <2> DEFINE stubs == BuildStubTraitModule(functions)
             abi   == BuildAbiDefinitionModule(layer, namespace, functions).abi
  <2> SUFFICES ASSUME NEW s \in ToSet(stubs)
               PROVE  \E b \in ToSet(abi) :
                        /\ b.name = s.abi /\ b.closure.calls = s.name
                        /\ Len(b.closure.arguments) = Len(s.parameters)
    OBVIOUS
  <2>1. PICK i \in DOMAIN functions : s = stubs[i]
    BY <1>3 DEF ToSet
  <2>2. /\ abi[i].name = s.abi /\ abi[i].closure.calls = s.name
        /\ Len(abi[i].closure.arguments) = Len(s.parameters)
    BY <1>2, <2>1
  <2>3. i \in DOMAIN abi
    BY <1>3
  <2> HIDE DEF abi, stubs
  <2> QED
    BY <2>2, <2>3 DEF ToSet
<1>5. \A b \in ToSet(boundary) : b.restricts
  <2>1. ASSUME NEW i \in DOMAIN trusted
        PROVE  BuildAbiDefinitionModule("Enclave", namespace, trusted).abi[i].restricts
    BY DEF BuildAbiDefinitionModule
  <2> HIDE DEF boundary, trusted
  <2> QED
    BY <1>1, <1>3, <2>1 DEF ToSet
<1>6. /\ table.names = <<<<"AllocateVtl0MemoryCallback">>,
                         <<"DeallocateVtl0MemoryCallback">>>> \o own
      /\ table.addresses = <<<<"allocate_memory_ffi">>, <<"deallocate_memory_ffi">>>> \o own
      /\ table.total = Len(untrusted) + 2
  BY <1>1 DEF GetRegisterCallbacksFunctionStatements
<1> DEFINE A == {own[i] : i \in DOMAIN untrusted}
<1>7. /\ own \in Seq(A) /\ Len(own) = Len(untrusted) /\ DOMAIN own = DOMAIN untrusted
      /\ \A i \in DOMAIN untrusted : own[i] = AbiName(untrusted[i])
  <2>1. own = [i \in DOMAIN untrusted |-> own[i]]
    OBVIOUS
  <2>2. \A i \in DOMAIN untrusted : own[i] = AbiName(untrusted[i])
    OBVIOUS
  <2> HIDE DEF own
  <2> QED
    BY <2>1, <2>2, Mapped
<1> HIDE DEF boundary, callback, table, hostStubs, ownStubs, own, A
<1>8. IsInjective(own)
  BY <1>7 DEF IsInjective, Numbered
<1>9. /\ Len(table.names) = table.total
      /\ \A i \in DOMAIN untrusted : i + 2 \in DOMAIN table.names /\ table.names[i + 2] = own[i]
  BY <1>6, <1>7, Table
<1>10. /\ Len(table.addresses) = table.total
       /\ \A i \in DOMAIN untrusted : table.addresses[i + 2] = own[i]
  BY <1>6, <1>7, Table
<1>11. IsInjective(table.names)
  <2> DEFINE allocate   == <<"AllocateVtl0MemoryCallback">>
             deallocate == <<"DeallocateVtl0MemoryCallback">>
             names      == table.names
  <2>1. allocate[1] # deallocate[1] /\ Len(allocate) = 1 /\ Len(deallocate) = 1
    OBVIOUS
  <2>2. names = <<allocate, deallocate>> \o own
    BY <1>6
  <2>3. allocate # deallocate
    BY <2>1
  <2> HIDE DEF allocate, deallocate, names
  <2>4. ASSUME NEW i \in DOMAIN own PROVE own[i] # allocate /\ own[i] # deallocate
    <3>1. Len(own[i]) = 2
      <4>1. own[i] = <<untrusted[i].function, untrusted[i].abi>>
        BY <1>7 DEF AbiName
      <4> QED
        BY <4>1
    <3>2. ASSUME own[i] = allocate \/ own[i] = deallocate PROVE FALSE
      <4>1. Len(own[i]) = 1
        BY <2>1, <3>2, Zenon
      <4>2. 2 # 1
        OBVIOUS
      <4> QED
        BY <3>1, <4>1, <4>2, Zenon
    <3> QED
      BY <3>2
  <2>5. IsInjective(names)
    BY <1>7, <1>8, <2>2, <2>3, <2>4, TableInjective, Zenon
  <2> QED
    BY <2>5 DEF names
<1>12. \A s \in ToSet(ownStubs) :
         \E i \in DOMAIN table.names : table.names[i] = s.abi /\ table.addresses[i] = s.abi
  <2>1. ASSUME NEW s \in ToSet(ownStubs)
        PROVE  \E i \in DOMAIN table.names : table.names[i] = s.abi /\ table.addresses[i] = s.abi
    <3>1. PICK i \in DOMAIN untrusted : s = ownStubs[i]
      BY <1>1, <1>3 DEF ToSet
    <3>2. s.abi = own[i]
      BY <1>1, <1>3, <1>7, <3>1
    <3> QED
      BY <1>9, <1>10, <3>2
  <2> QED
    BY <2>1
<1>13. /\ \A s \in ToSet(hostStubs) : \E b \in ToSet(boundary) :
            /\ b.name = s.abi /\ b.closure.calls = s.name
            /\ Len(b.closure.arguments) = Len(s.parameters)
       /\ \A s \in ToSet(ownStubs) : \E b \in ToSet(callback) :
            /\ b.name = s.abi /\ b.closure.calls = s.name
            /\ Len(b.closure.arguments) = Len(s.parameters)
  BY <1>1, <1>4
<1> QED
  BY <1>1, <1>5, <1>9, <1>10, <1>11, <1>12, <1>13, Zenon
     DEF StubsReach, boundary, callback, table, hostStubs, ownStubs

-----------------------------------------------------------------------------
(* The build.                                                                *)

(* A sequence of whatever is in it.                                        *)
Sequence(s) == s \in Seq(Range(s))

(* Any sequence is one.                                                    *)
LEMMA IsSequence ==
  ASSUME NEW S, NEW s \in Seq(S)
  PROVE  Sequence(s)
<1>1. s \in [1 .. Len(s) -> Range(s)] /\ Len(s) \in Nat
  BY DEF Range
<1> QED BY <1>1, SeqDef DEF Sequence

(* More than one is not one.                                               *)
LEMMA MoreThanOne ==
  ASSUME NEW n \in Nat, n > 1
  PROVE  ~(n = 1)
OBVIOUS

(* What Append makes of one.                                               *)
LEMMA Pushed ==
  ASSUME NEW s, Sequence(s), NEW x
  PROVE  /\ Sequence(Append(s, x)) /\ Append(s, x) # <<>>
         /\ Len(s) \in Nat /\ DOMAIN s = 1 .. Len(s)
         /\ Len(Append(s, x)) = Len(s) + 1
         /\ DOMAIN Append(s, x) = 1 .. Len(s) + 1
         /\ \A i \in 1 .. Len(s) : Append(s, x)[i] = s[i]
         /\ Append(s, x)[Len(s) + 1] = x
<1> DEFINE T == Range(s) \cup {x}
<1>1. s \in Seq(T) /\ x \in T
  BY DEF Sequence
<1>2. Append(s, x) \in Seq(T) /\ Append(s, x) # <<>>
  BY <1>1, AppendProperties
<1>3. Sequence(Append(s, x))
  BY <1>2, IsSequence
<1> QED BY <1>1, <1>2, <1>3

(* What becomes of one whose last element is replaced.                     *)
LEMMA Replaced ==
  ASSUME NEW s, Sequence(s), s # <<>>, NEW x
  PROVE  LET r == [s EXCEPT ![Len(s)] = x]
         IN  /\ Sequence(r) /\ r # <<>>
             /\ Len(s) \in Nat \ {0} /\ Len(r) = Len(s)
             /\ DOMAIN s = 1 .. Len(s) /\ DOMAIN r = DOMAIN s
             /\ r[Len(s)] = x
             /\ \A i \in 1 .. Len(s) : i # Len(s) => r[i] = s[i]
<1> DEFINE T == Range(s) \cup {x}
           r == [s EXCEPT ![Len(s)] = x]
<1>1. s \in Seq(T) /\ x \in T
  BY SeqMonotonic DEF Sequence
<1>2. Len(s) \in Nat \ {0} /\ DOMAIN s = 1 .. Len(s)
  BY <1>1, EmptySeq
<1>3. r \in Seq(T) /\ Len(r) = Len(s)
  BY <1>1, <1>2, ExceptSeq
<1>4. Sequence(r) /\ r # <<>>
  BY <1>2, <1>3, IsSequence
<1> QED BY <1>2, <1>3, <1>4

(* The beginning of one.                                                   *)
LEMMA Shortened ==
  ASSUME NEW s, Sequence(s), NEW n \in 0 .. Len(s)
  PROVE  /\ Sequence(SubSeq(s, 1, n))
         /\ Len(SubSeq(s, 1, n)) = n
         /\ \A i \in 1 .. n : SubSeq(s, 1, n)[i] = s[i]
<1>1. s \in Seq(Range(s)) /\ Len(s) \in Nat /\ DOMAIN s = 1 .. Len(s)
  BY DEF Sequence
<1>2. \A i \in 1 .. n : s[i] \in Range(s)
  BY <1>1 DEF Range
<1>3. 1 \in Int /\ n \in Int /\ 1 .. n - 1 + 1 = 1 .. n /\ \A i \in 1 .. n : 1 + i - 1 = i
  BY <1>1
<1>4. /\ SubSeq(s, 1, n) \in Seq(Range(s))
      /\ Len(SubSeq(s, 1, n)) = IF 1 <= n THEN n - 1 + 1 ELSE 0
      /\ \A i \in 1 .. n - 1 + 1 : SubSeq(s, 1, n)[i] = s[1 + i - 1]
  BY <1>2, <1>3, SubSeqProperties
<1>5. /\ SubSeq(s, 1, n) \in Seq(Range(s)) /\ Len(SubSeq(s, 1, n)) = n
      /\ \A i \in 1 .. n : SubSeq(s, 1, n)[i] = s[i]
  <2>1. Len(SubSeq(s, 1, n)) = n
    BY <1>1, <1>4
  <2>2. \A i \in 1 .. n : SubSeq(s, 1, n)[i] = s[1 + i - 1] /\ 1 + i - 1 = i
    BY <1>3, <1>4
  <2> QED BY <1>4, <2>1, <2>2
<1> QED BY <1>5, IsSequence

(* The last element goes and the one before it is replaced.                *)
LEMMA Popped ==
  ASSUME NEW s, Sequence(s), Len(s) > 1, NEW x
  PROVE  LET r == Append(SubSeq(s, 1, Len(s) - 2), x)
         IN  /\ Sequence(r) /\ r # <<>>
             /\ Len(s) \in Nat /\ Len(r) = Len(s) - 1
             /\ DOMAIN s = 1 .. Len(s) /\ DOMAIN r = 1 .. Len(s) - 1
             /\ r[Len(s) - 1] = x
             /\ \A i \in 1 .. Len(s) - 2 : r[i] = s[i]
<1>1. Len(s) \in Nat /\ DOMAIN s = 1 .. Len(s) /\ Len(s) - 2 \in 0 .. Len(s)
  BY DEF Sequence
<1> DEFINE b == SubSeq(s, 1, Len(s) - 2)
<1>2. Sequence(b) /\ Len(b) = Len(s) - 2 /\ \A i \in 1 .. Len(s) - 2 : b[i] = s[i]
  BY <1>1, Shortened
<1> HIDE DEF b
<1>3. /\ Sequence(Append(b, x)) /\ Append(b, x) # <<>> /\ Len(Append(b, x)) = Len(s) - 1
      /\ DOMAIN Append(b, x) = 1 .. Len(s) - 1
      /\ Append(b, x)[Len(s) - 1] = x
      /\ \A i \in 1 .. Len(s) - 2 : Append(b, x)[i] = b[i]
  <2>1. /\ Sequence(Append(b, x)) /\ Append(b, x) # <<>>
        /\ Len(Append(b, x)) = Len(b) + 1
        /\ DOMAIN Append(b, x) = 1 .. Len(b) + 1
        /\ \A i \in 1 .. Len(b) : Append(b, x)[i] = b[i]
        /\ Append(b, x)[Len(b) + 1] = x
    <3>1. Sequence(b)
      BY <1>2, Zenon
    <3> QED BY <3>1, Pushed
  <2>2. Len(b) + 1 = Len(s) - 1
    BY <1>1, <1>2
  <2> QED BY <1>2, <2>1, <2>2
<1>4. \A i \in 1 .. Len(s) - 2 : Append(b, x)[i] = s[i]
  BY <1>2, <1>3
<1> QED BY <1>1, <1>3, <1>4, Zenon DEF b

(* The files of a stack of parsers are those being parsed, each once.      *)
Exact(s, f) ==
  /\ {s[i].file : i \in DOMAIN s} = {file \in DOMAIN f : f[file] = "parsing"}
  /\ IsInjective([i \in DOMAIN s |-> s[i].file])

(* The same element by element.                                            *)
LEMMA ExactMeans ==
  ASSUME NEW s, NEW f
  PROVE  Exact(s, f) <=>
            /\ \A i \in DOMAIN s : s[i].file \in DOMAIN f /\ f[s[i].file] = "parsing"
            /\ \A file \in DOMAIN f : f[file] = "parsing" => \E i \in DOMAIN s : s[i].file = file
            /\ \A i, j \in DOMAIN s : s[i].file = s[j].file => i = j
<1>1. IsInjective([i \in DOMAIN s |-> s[i].file])
        <=> \A i, j \in DOMAIN s : s[i].file = s[j].file => i = j
  BY DEF IsInjective
<1>2. {s[i].file : i \in DOMAIN s} = {file \in DOMAIN f : f[file] = "parsing"} <=>
            /\ \A i \in DOMAIN s : s[i].file \in DOMAIN f /\ f[s[i].file] = "parsing"
            /\ \A file \in DOMAIN f : f[file] = "parsing" => \E i \in DOMAIN s : s[i].file = file
  OBVIOUS
<1> QED BY <1>1, <1>2, Zenon DEF Exact

(* It holds of the first parser of a run,                                  *)
LEMMA ExactFirst ==
  ASSUME NEW path, NEW p
  PROVE  /\ Exact(<<Frame(path, p)>>, Update(<<>>, path, "parsing"))
         /\ Sequence(<<Frame(path, p)>>) /\ <<Frame(path, p)>> # <<>>
<1> DEFINE s == <<Frame(path, p)>>
           f == Update(<<>>, path, "parsing")
<1>1. s \in Seq({Frame(path, p)}) /\ DOMAIN s = {1} /\ s[1].file = path
  BY DEF Frame
<1>2. DOMAIN f = {path} /\ f[path] = "parsing"
  <2>1. DOMAIN <<>> = {}
    OBVIOUS
  <2> QED BY <2>1 DEF Update
<1>3. Sequence(s) /\ s # <<>>
  BY <1>1, IsSequence
<1> HIDE DEF s, f
<1>4. Exact(s, f)
  BY <1>1, <1>2, ExactMeans
<1> QED BY <1>3, <1>4 DEF s, f

(* when the innermost parser changes,                                      *)
LEMMA ExactInPlace ==
  ASSUME NEW s, Sequence(s), s # <<>>, NEW f, Exact(s, f), NEW p
  PROVE  LET r == [s EXCEPT ![Len(s)] = Frame(s[Len(s)].file, p)]
         IN  Sequence(r) /\ r # <<>> /\ Len(r) = Len(s) /\ Exact(r, f)
<1> DEFINE x == Frame(s[Len(s)].file, p)
           r == [s EXCEPT ![Len(s)] = x]
<1>1. x.file = s[Len(s)].file
  BY DEF Frame
<1> HIDE DEF x
<1>2. /\ Sequence(r) /\ r # <<>> /\ Len(r) = Len(s) /\ Len(s) \in Nat \ {0}
      /\ DOMAIN s = 1 .. Len(s) /\ DOMAIN r = DOMAIN s
      /\ r[Len(s)] = x
      /\ \A i \in 1 .. Len(s) : i # Len(s) => r[i] = s[i]
  BY Replaced, SMTT(30)
<1> HIDE DEF r
<1>3. \A i \in DOMAIN s : r[i].file = s[i].file
  BY <1>1, <1>2
<1>4. Exact(r, f)
  BY <1>2, <1>3, ExactMeans, ZenonT(60)
<1> QED BY <1>2, <1>4 DEF r, x

(* when a file is opened that was not opened before,                       *)
LEMMA ExactPush ==
  ASSUME NEW s, Sequence(s), NEW f, Exact(s, f), NEW path, path \notin DOMAIN f, NEW p
  PROVE  LET r == Append(s, Frame(path, p))
         IN  Sequence(r) /\ r # <<>> /\ Exact(r, Update(f, path, "parsing"))
<1> DEFINE x == Frame(path, p)
           r == Append(s, x)
           g == Update(f, path, "parsing")
<1>1. x.file = path
  BY DEF Frame
<1> HIDE DEF x
<1>2. /\ Sequence(r) /\ r # <<>> /\ Len(s) \in Nat /\ DOMAIN s = 1 .. Len(s)
      /\ DOMAIN r = 1 .. Len(s) + 1
      /\ \A i \in 1 .. Len(s) : r[i] = s[i]
      /\ r[Len(s) + 1] = x
  BY Pushed
<1>3. /\ DOMAIN g = DOMAIN f \cup {path} /\ g[path] = "parsing"
      /\ \A file \in DOMAIN f : g[file] = f[file]
  BY DEF Update
<1> HIDE DEF r, g
<1>4. DOMAIN r = DOMAIN s \cup {Len(s) + 1} /\ Len(s) + 1 \notin DOMAIN s
  BY <1>2
<1>5. \A i \in DOMAIN s : r[i].file = s[i].file
  BY <1>2
<1>6. r[Len(s) + 1].file = path
  BY <1>1, <1>2
<1>7. Exact(r, g)
  BY <1>3, <1>4, <1>5, <1>6, ExactMeans
<1> QED BY <1>2, <1>7 DEF r, g, x

(* and when the innermost file is done.                                    *)
LEMMA ExactPop ==
  ASSUME NEW s, Sequence(s), Len(s) > 1, NEW f, Exact(s, f), NEW p
  PROVE  LET r == Append(SubSeq(s, 1, Len(s) - 2), Frame(s[Len(s) - 1].file, p))
         IN  /\ Sequence(r) /\ r # <<>>
             /\ Exact(r, [f EXCEPT ![s[Len(s)].file] = "parsed"])
<1> DEFINE x == Frame(s[Len(s) - 1].file, p)
           r == Append(SubSeq(s, 1, Len(s) - 2), x)
           path == s[Len(s)].file
           g == [f EXCEPT ![path] = "parsed"]
<1>1. x.file = s[Len(s) - 1].file
  BY DEF Frame
<1> HIDE DEF x
<1>2. /\ Sequence(r) /\ r # <<>> /\ Len(s) \in Nat /\ DOMAIN s = 1 .. Len(s)
      /\ DOMAIN r = 1 .. Len(s) - 1
      /\ r[Len(s) - 1] = x
      /\ \A i \in 1 .. Len(s) - 2 : r[i] = s[i]
  BY Popped
<1> HIDE DEF r
<1>3. DOMAIN s = DOMAIN r \cup {Len(s)} /\ Len(s) \notin DOMAIN r
  BY <1>2
<1>4. \A i \in DOMAIN r : r[i].file = s[i].file
  BY <1>1, <1>2
<1>5. /\ \A i \in DOMAIN s : s[i].file \in DOMAIN f /\ f[s[i].file] = "parsing"
      /\ \A file \in DOMAIN f : f[file] = "parsing" => \E i \in DOMAIN s : s[i].file = file
      /\ \A i, j \in DOMAIN s : s[i].file = s[j].file => i = j
  BY ExactMeans
<1>6. path \in DOMAIN f /\ \A i \in DOMAIN r : s[i].file # path
  BY <1>3, <1>5
<1>7. /\ DOMAIN g = DOMAIN f /\ g[path] = "parsed"
      /\ \A file \in DOMAIN f : file # path => g[file] = f[file]
  BY <1>6
<1> HIDE DEF g
<1>8. Exact(r, g)
  <2>1. \A i \in DOMAIN r : r[i].file \in DOMAIN g /\ g[r[i].file] = "parsing"
    BY <1>3, <1>4, <1>5, <1>6, <1>7, ZenonT(60)
  <2>2. ASSUME NEW file \in DOMAIN g, g[file] = "parsing"
        PROVE  \E i \in DOMAIN r : r[i].file = file
    <3>1. file # path /\ f[file] = "parsing" /\ file \in DOMAIN f
      BY <2>2, <1>7
    <3>2. PICK i \in DOMAIN s : s[i].file = file
      BY <3>1, <1>5
    <3>3. i \in DOMAIN r
      BY <3>1, <3>2, <1>3, ZenonT(60)
    <3> QED BY <3>2, <3>3, <1>4
  <2>3. \A i, j \in DOMAIN r : r[i].file = r[j].file => i = j
    BY <1>3, <1>4, <1>5
  <2> QED BY <2>1, <2>2, <2>3, ExactMeans, SMTT(60)
<1> QED BY <1>2, <1>8 DEF r, x, g

(* The inductive invariant: TypeOK, of a stack that is a sequence.         *)
Parsers ==
  /\ Sequence(frames)
  /\ stage \in {"line", "parse", "generate", "built", "stopped"}
  /\ frames # <<>> <=> stage = "parse"
  /\ steps # <<>> => stage \in {"generate", "stopped"}
  /\ stage = "parse" => Exact(frames, files)

(* Nothing is a sequence as well.                                          *)
LEMMA EmptySequence == Sequence(<<>>)
BY EmptySeq, IsSequence

(* A construct leaves the stack its files,                                 *)
LEMMA ConstructParsers ==
  ASSUME Parsers, NEW keyword, NEW p, Construct(keyword, p)
  PROVE  Parsers'
<1>1. /\ stage = "parse"
      /\ frames' = [frames EXCEPT ![Len(frames)] = Frame(frames[Len(frames)].file, p)]
      /\ UNCHANGED <<stage, files, steps>>
  BY DEF Construct, InPlace, File
<1>2. Sequence(frames) /\ frames # <<>> /\ Exact(frames, files) /\ steps = <<>>
  BY <1>1 DEF Parsers
<1>3. Sequence(frames') /\ frames' # <<>> /\ Exact(frames', files)
  BY <1>1, <1>2, ExactInPlace
<1> QED BY <1>1, <1>2, <1>3 DEF Parsers

(* an import opens a file only if the run has not seen it,                 *)
LEMMA ImportParsers ==
  ASSUME Parsers, Import
  PROVE  Parsers'
<1> DEFINE name  == NextToken(Top)
           file  == NextToken(name)
           paths == FullPaths(settings.imports, RemoveOuterQuotes(file.ret))
           p     == ExpectToken(ThrowIf(file, paths = <<>>, "ImportedEdlFileDoesNotExist"), ";")
           known == p.err = NoError /\ Seen(paths[1])
           q     == ThrowIf(p, known /\ files[paths[1]] = "parsing", "ImportCycleFound")
           here  == InPlace(q)
           next  == OpenFile(paths[1], project.texts[paths[1]], p.abi)
<1>1. /\ stage = "parse" /\ stage' = stage /\ steps' = steps
      /\ Sequence(frames) /\ frames # <<>> /\ Exact(frames, files) /\ steps = <<>>
  BY DEF Import, Parsers
<1>2. \/ frames' = here /\ files' = files
      \/ /\ ~(p.err # NoError \/ known)
         /\ frames' = Append(here, Frame(paths[1], next))
         /\ files' = Update(files, paths[1], "parsing")
  BY DEF Import
<1>3. Sequence(here) /\ here # <<>> /\ Exact(here, files)
  BY <1>1, ExactInPlace, ZenonT(60) DEF InPlace, File
<1>4. ~(p.err # NoError \/ known) => paths[1] \notin DOMAIN files
  BY DEF Seen
<1> HIDE DEF here, known, p, paths, next
<1>5. CASE frames' = here /\ files' = files
  BY <1>1, <1>3, <1>5 DEF Parsers
<1>6. CASE /\ ~(p.err # NoError \/ known)
           /\ frames' = Append(here, Frame(paths[1], next))
           /\ files' = Update(files, paths[1], "parsing")
  <2>1. Sequence(frames') /\ frames' # <<>> /\ Exact(frames', files')
    BY <1>3, <1>4, <1>6, ExactPush
  <2> QED BY <2>1, <1>1 DEF Parsers
<1> QED BY <1>2, <1>5, <1>6

(* and the end of a file closes that file.                                 *)
LEMMA EndOfFileParsers ==
  ASSUME Parsers, EndOfFile
  PROVE  Parsers'
<1> DEFINE p == ExpectToken(Validate(Top), "}")
           importer == frames[Len(frames) - 1]
           merged == [MergeInto(importer.parser, ParsedEdl(p)) EXCEPT !.abi = p.abi]
<1>1. /\ stage = "parse" /\ steps = <<>>
      /\ Sequence(frames) /\ frames # <<>> /\ Exact(frames, files)
  BY DEF EndOfFile, Parsers
<1>2. \/ /\ frames' = InPlace(p)
         /\ UNCHANGED <<stage, files, edl, steps>>
      \/ /\ Len(frames) > 1
         /\ frames' = Append(SubSeq(frames, 1, Len(frames) - 2), Frame(importer.file, merged))
         /\ files' = Completed(File)
         /\ UNCHANGED <<stage, edl, steps>>
      \/ frames' = <<>> /\ stage' = "generate"
  BY DEF EndOfFile
<1> HIDE DEF p, merged
<1>3. CASE frames' = InPlace(p) /\ UNCHANGED <<stage, files, edl, steps>>
  <2>1. Sequence(frames') /\ frames' # <<>> /\ Exact(frames', files)
    BY <1>1, <1>3, ExactInPlace DEF InPlace, File
  <2> QED BY <2>1, <1>1, <1>3 DEF Parsers
<1>4. CASE /\ Len(frames) > 1
           /\ frames' = Append(SubSeq(frames, 1, Len(frames) - 2), Frame(importer.file, merged))
           /\ files' = Completed(File)
           /\ UNCHANGED <<stage, edl, steps>>
  <2>1. Sequence(frames') /\ frames' # <<>> /\ Exact(frames', files')
    BY <1>1, <1>4, ExactPop DEF Completed, File
  <2> QED BY <2>1, <1>1, <1>4 DEF Parsers
<1>5. CASE frames' = <<>> /\ stage' = "generate"
  BY <1>5, EmptySequence DEF Parsers
<1> QED BY <1>2, <1>3, <1>4, <1>5

(* So every step keeps the stack.                                          *)
LEMMA NextParsers == Parsers /\ [Next]_vars => Parsers'
<1> SUFFICES ASSUME Parsers, [Next]_vars
             PROVE  Parsers'
  OBVIOUS
<1>1. CASE UNCHANGED vars \/ Over
  BY <1>1 DEF vars, Over, Parsers, Exact, Sequence, Range
<1>2. CASE LineRejected \/ ShowHelp \/ FailureToLoadFile
  BY <1>2 DEF LineRejected, ShowHelp, FailureToLoadFile, ReadLine, Stop, Parsers
<1>3. CASE StartParsing
  BY <1>3, ExactFirst DEF StartParsing, Opened, ReadLine, Parsers
<1>4. CASE Trusted \/ Untrusted \/ Enumeration \/ Structure \/ UnexpectedToken
  BY <1>4, ConstructParsers DEF Trusted, Untrusted, Enumeration, Structure, UnexpectedToken
<1>5. CASE Import
  BY <1>5, ImportParsers
<1>6. CASE EndOfFile
  BY <1>6, EndOfFileParsers
<1>7. CASE Thrown
  BY <1>7, EmptySequence DEF Thrown, Stop, Parsers
<1>8. CASE SaveFile \/ SaveFails \/ GeneratorThrows \/ CompileFlatbufferFile \/ CompilerFails
  BY <1>8 DEF SaveFile, SaveFails, GeneratorThrows, CompileFlatbufferFile, CompilerFails,
              Step, Stop, Parsers
<1>9. CASE Finished
  BY <1>9 DEF Finished, Parsers
<1> QED BY <1>1, <1>2, <1>3, <1>4, <1>5, <1>6, <1>7, <1>8, <1>9 DEF Next, Run

(* The tool is in one place at a time: the files being read are those of   *)
(* the parsers at work, each once, and nothing is generated while one is   *)
(* (ParseInternal, ParseImport, main).  Whatever the parser makes of the   *)
(* text, wherever imports lead and whatever the generators do.             *)
THEOREM BuildTyping == Safety => []TypeOK
<1>1. Init => Parsers
  BY EmptySequence DEF Init, Parsers
<1>2. Parsers => TypeOK
  BY DEF Parsers, TypeOK, Exact
<1> QED BY <1>1, <1>2, NextParsers, PTL DEF Safety

-----------------------------------------------------------------------------
(* A set of numbers has a least one.                                       *)
LEMMA Minimum ==
  ASSUME NEW S, S \subseteq Nat, S # {}
  PROVE  \E x \in S : \A y \in S : x <= y
<1>1. PICK x \in S : \A y \in S : ~(<<y, x>> \in OpToRel(<, Nat))
  BY NatLessThanWellFounded, WFMin, Zenon
<1>2. \A y \in S : y \in Nat /\ x \in Nat
  OBVIOUS
<1>3. \A y \in S : ~(y < x)
  BY <1>1, <1>2 DEF OpToRel
<1> QED BY <1>2, <1>3

(* Parsing a file as a function of where it stands: the stack, the files   *)
(* seen, and the interface once there is one.                              *)
State(fr, fi, source) == [frames |-> fr, files |-> fi, edl |-> source]

(* The innermost parser becomes p.                                         *)
PlaceOf(x, p) ==
  State([x.frames EXCEPT ![Len(x.frames)] = Frame(x.frames[Len(x.frames)].file, p)],
        x.files, x.edl)

TopOf(x) == x.frames[Len(x.frames)].parser

(* ParseImport,                                                            *)
ImportOf(texts, imports, x) ==
  LET name  == NextToken(TopOf(x))
      file  == NextToken(name)
      paths == FullPaths(imports, RemoveOuterQuotes(file.ret))
      p     == ExpectToken(ThrowIf(file, paths = <<>>, "ImportedEdlFileDoesNotExist"), ";")
      known == p.err = NoError /\ paths[1] \in DOMAIN x.files
      q     == ThrowIf(p, known /\ x.files[paths[1]] = "parsing", "ImportCycleFound")
      here  == PlaceOf(x, q)
  IN  IF p.err # NoError \/ known THEN here
      ELSE State(Append(here.frames, Frame(paths[1], OpenFile(paths[1], texts[paths[1]], p.abi))),
                 Update(x.files, paths[1], "parsing"), x.edl)

(* the end of a file,                                                      *)
EndOf(x) ==
  LET n        == Len(x.frames)
      p        == ExpectToken(Validate(TopOf(x)), "}")
      importer == x.frames[n - 1]
      done     == [x.files EXCEPT ![x.frames[n].file] = "parsed"]
  IN  IF p.err # NoError THEN PlaceOf(x, p)
      ELSE IF n > 1
      THEN State(Append(SubSeq(x.frames, 1, n - 2),
                        Frame(importer.file,
                              [MergeInto(importer.parser, ParsedEdl(p)) EXCEPT !.abi = p.abi])),
                 done, x.edl)
      ELSE State(<<>>, done, ParsedEdl(p))

(* and any turn of the loop of ParseBody.                                  *)
Turn(texts, imports, x) ==
  LET top == TopOf(x)
  IN  IF top.cur = "trusted" THEN PlaceOf(x, FunctionsBlock(NextToken(top), "trusted"))
      ELSE IF top.cur = "untrusted" THEN PlaceOf(x, FunctionsBlock(NextToken(top), "untrusted"))
      ELSE IF top.cur = "enum" THEN PlaceOf(x, EnumBlock(NextToken(top)))
      ELSE IF top.cur = "struct" THEN PlaceOf(x, StructBlock(NextToken(top)))
      ELSE IF top.cur = "import" THEN ImportOf(texts, imports, x)
      ELSE IF top.cur \in {"}", EndOfText} THEN EndOf(x)
      ELSE PlaceOf(x, ThrowIf(NextToken(top), TRUE, "EdlUnexpectedToken"))

(* Where a run stands that parses.                                         *)
Now == State(frames, files, NoEdl)

Parsing == Trusted \/ Untrusted \/ Enumeration \/ Structure \/ UnexpectedToken \/ Import \/ EndOfFile

(* It is the stack that the actions see.                                   *)
LEMMA NowFields ==
  /\ Now.frames = frames /\ Now.files = files /\ Now.edl = NoEdl
  /\ TopOf(Now) = Top
  /\ \A p : PlaceOf(Now, p) = State(InPlace(p), files, NoEdl) /\ PlaceOf(Now, p).frames = InPlace(p)
BY DEF Now, State, TopOf, Top, PlaceOf, InPlace, File

(* Each action of the parser does what Turn says, so none has a choice.    *)
LEMMA TurnStep ==
  ASSUME Parsers, Parsing
  PROVE  State(frames', files', IF stage' = "generate" THEN edl' ELSE NoEdl)
            = Turn(project.texts, settings.imports, Now)
<1> DEFINE next == State(frames', files', IF stage' = "generate" THEN edl' ELSE NoEdl)
           turn == Turn(project.texts, settings.imports, Now)
<1>1. ASSUME NEW keyword, NEW p, Construct(keyword, p)
      PROVE  next = PlaceOf(Now, p) /\ Top.cur = keyword
  <2>1. frames' = InPlace(p) /\ files' = files /\ stage' # "generate" /\ Top.cur = keyword
    BY <1>1 DEF Construct
  <2> QED BY <2>1, NowFields
<1>2. CASE Trusted
  BY <1>1, <1>2, NowFields DEF Trusted, Turn
<1>3. CASE Untrusted
  BY <1>1, <1>3, NowFields DEF Untrusted, Turn
<1>4. CASE Enumeration
  BY <1>1, <1>4, NowFields DEF Enumeration, Turn
<1>5. CASE Structure
  BY <1>1, <1>5, NowFields DEF Structure, Turn
<1>6. CASE UnexpectedToken
  <2>1. next = PlaceOf(Now, ThrowIf(NextToken(Top), TRUE, "EdlUnexpectedToken"))
    BY <1>1, <1>6 DEF UnexpectedToken
  <2>2. Top.cur \notin Keywords \cup {"}", EndOfText}
    BY <1>6 DEF UnexpectedToken, Keywords
  <2> QED BY <2>1, <2>2, NowFields DEF Turn, Keywords
<1>7. CASE Import
  <2> DEFINE file  == NextToken(NextToken(Top))
             paths == FullPaths(settings.imports, RemoveOuterQuotes(file.ret))
             p     == ExpectToken(ThrowIf(file, paths = <<>>, "ImportedEdlFileDoesNotExist"), ";")
             known == p.err = NoError /\ paths[1] \in DOMAIN files
             q     == ThrowIf(p, known /\ files[paths[1]] = "parsing", "ImportCycleFound")
             open  == Frame(paths[1], OpenFile(paths[1], project.texts[paths[1]], p.abi))
  <2>1. /\ Top.cur = "import" /\ stage' # "generate"
        /\ IF p.err # NoError \/ known
           THEN frames' = InPlace(q) /\ files' = files
           ELSE /\ frames' = Append(InPlace(q), open)
                /\ files' = Update(files, paths[1], "parsing")
    BY <1>7 DEF Import, Seen
  <2>2. turn = ImportOf(project.texts, settings.imports, Now)
    <3>1. TopOf(Now).cur = "import"
      BY <2>1, NowFields
    <3> QED BY <3>1, Zenon DEF Turn
  <2>3. ImportOf(project.texts, settings.imports, Now)
          = IF p.err # NoError \/ known THEN PlaceOf(Now, q)
            ELSE State(Append(PlaceOf(Now, q).frames, open), Update(files, paths[1], "parsing"), NoEdl)
    BY NowFields DEF ImportOf
  <2>4. PlaceOf(Now, q) = State(InPlace(q), files, NoEdl) /\ PlaceOf(Now, q).frames = InPlace(q)
    BY NowFields, Zenon
  <2> HIDE DEF file, paths, p, known, q, open
  <2>5. CASE p.err # NoError \/ known
    BY <2>1, <2>2, <2>3, <2>4, <2>5
  <2>6. CASE ~(p.err # NoError \/ known)
    BY <2>1, <2>2, <2>3, <2>4, <2>6
  <2> QED BY <2>5, <2>6
<1>8. CASE EndOfFile
  <2> DEFINE p        == ExpectToken(Validate(Top), "}")
             importer == frames[Len(frames) - 1]
             merged   == Append(SubSeq(frames, 1, Len(frames) - 2),
                                Frame(importer.file,
                                      [MergeInto(importer.parser, ParsedEdl(p)) EXCEPT !.abi = p.abi]))
             done     == [files EXCEPT ![File] = "parsed"]
  <2>1. /\ Top.cur \in {"}", EndOfText} /\ stage = "parse"
        /\ \/ /\ p.err # NoError
              /\ frames' = InPlace(p) /\ files' = files /\ stage' = stage
           \/ /\ p.err = NoError /\ Len(frames) > 1
              /\ frames' = merged /\ files' = done /\ stage' = stage
           \/ /\ p.err = NoError /\ Len(frames) = 1
              /\ frames' = <<>> /\ files' = done /\ stage' = "generate" /\ edl' = ParsedEdl(p)
    BY <1>8 DEF EndOfFile, Completed
  <2>2. turn = EndOf(Now)
    BY <2>1, BuildAssumption, NowFields DEF Turn, Keywords
  <2>3. EndOf(Now) = IF p.err # NoError THEN State(InPlace(p), files, NoEdl)
                     ELSE IF Len(frames) > 1 THEN State(merged, done, NoEdl)
                     ELSE State(<<>>, done, ParsedEdl(p))
    BY NowFields DEF EndOf, File
  <2> HIDE DEF p, importer, merged, done
  <2>4. CASE p.err # NoError
    BY <2>1, <2>2, <2>3, <2>4
  <2>5. CASE p.err = NoError /\ Len(frames) > 1
    <3>1. Len(frames) \in Nat
      BY DEF Parsers, Sequence
    <3>2. frames' = merged /\ files' = done /\ stage' # "generate"
      <4>1. ~(Len(frames) = 1)
        <5>1. Len(frames) > 1
          BY <2>5, Zenon
        <5> QED BY <5>1, <3>1, MoreThanOne, Zenon
      <4>2. ~(p.err # NoError)
        BY <2>5, Zenon
      <4> QED BY <4>1, <4>2, <2>1
    <3>3. turn = State(merged, done, NoEdl)
      BY <2>2, <2>3, <2>5, Zenon
    <3> QED BY <3>2, <3>3
  <2>6. CASE p.err = NoError /\ ~(Len(frames) > 1)
    <3>1. frames' = <<>> /\ files' = done /\ stage' = "generate" /\ edl' = ParsedEdl(p)
      BY <2>1, <2>6
    <3>2. turn = State(<<>>, done, ParsedEdl(p))
      BY <2>2, <2>3, <2>6, Zenon
    <3> QED BY <3>1, <3>2
  <2> QED BY <2>4, <2>5, <2>6
<1> QED BY <1>2, <1>3, <1>4, <1>5, <1>6, <1>7, <1>8 DEF Parsing

-----------------------------------------------------------------------------
(* Where a run with some settings starts to parse,                         *)
Start(texts, s) == State(Opened(texts, s.edl), Update(<<>>, s.edl, "parsing"), NoEdl)

(* the first n + 1 states it goes through,                                 *)
Trace(texts, s, trace, n) ==
  /\ n \in Nat
  /\ trace[0] = Start(texts, s)
  /\ \A i \in 0 .. n - 1 :
        /\ trace[i].frames # <<>>
        /\ trace[i + 1] = Turn(texts, s.imports, trace[i])

(* the states it comes to,                                                 *)
Reads(texts, s, x) == \E trace : \E n \in Nat : Trace(texts, s, trace, n) /\ trace[n] = x

(* and what it parses in the end.                                          *)
Result(texts, s, source) == \E x : Reads(texts, s, x) /\ x.frames = <<>> /\ x.edl = source

(* It comes to the start,                                                  *)
LEMMA ReadsStart ==
  ASSUME NEW texts, NEW s
  PROVE  Reads(texts, s, Start(texts, s))
<1> DEFINE trace == [i \in {0} |-> Start(texts, s)]
<1>1. Trace(texts, s, trace, 0) /\ trace[0] = Start(texts, s)
  BY DEF Trace
<1> QED BY <1>1 DEF Reads

(* and from where it has come to the next turn.                            *)
LEMMA ReadsTurn ==
  ASSUME NEW texts, NEW s, NEW x, Reads(texts, s, x), x.frames # <<>>
  PROVE  Reads(texts, s, Turn(texts, s.imports, x))
<1>1. PICK trace : \E m \in Nat : Trace(texts, s, trace, m) /\ trace[m] = x
  BY Zenon DEF Reads
<1>2. PICK n \in Nat : Trace(texts, s, trace, n) /\ trace[n] = x
  BY <1>1
<1> DEFINE y == Turn(texts, s.imports, x)
           longer == [i \in 0 .. n + 1 |-> IF i = n + 1 THEN y ELSE trace[i]]
<1> HIDE DEF y
<1>3. longer[0] = trace[0] /\ longer[n + 1] = y /\ n + 1 \in Nat
  OBVIOUS
<1>4. \A i \in 0 .. n : longer[i] = trace[i]
  OBVIOUS
<1> HIDE DEF longer
<1>5. \A i \in 0 .. n - 1 :
        trace[i].frames # <<>> /\ trace[i + 1] = Turn(texts, s.imports, trace[i])
  BY <1>2 DEF Trace
<1>6. ASSUME NEW i \in 0 .. (n + 1) - 1
      PROVE  longer[i].frames # <<>> /\ longer[i + 1] = Turn(texts, s.imports, longer[i])
  <2>1. CASE i = n
    BY <2>1, <1>2, <1>3, <1>4 DEF y
  <2>2. CASE i # n
    <3>1. i \in 0 .. n - 1 /\ i \in 0 .. n /\ i + 1 \in 0 .. n
      BY <2>2
    <3> QED BY <3>1, <1>4, <1>5
  <2> QED BY <2>1, <2>2
<1>7. Trace(texts, s, longer, n + 1)
  BY <1>2, <1>3, <1>6 DEF Trace
<1> QED BY <1>3, <1>7 DEF Reads, y

(* Runs on the same files go through the same states,                      *)
LEMMA TracesAgree ==
  ASSUME NEW texts, NEW s, NEW r, s.edl = r.edl, s.imports = r.imports,
         NEW a, NEW n, Trace(texts, s, a, n),
         NEW b, NEW m, Trace(texts, r, b, m),
         n <= m
  PROVE  \A i \in 0 .. n : a[i] = b[i]
<1>1. n \in Nat /\ m \in Nat
  BY DEF Trace
<1> DEFINE Apart == {i \in 0 .. n : a[i] # b[i]}
<1>2. SUFFICES ASSUME Apart # {}
               PROVE  FALSE
  OBVIOUS
<1>3. Apart \subseteq Nat
  BY <1>1
<1>4. PICK i \in Apart : \A j \in Apart : i <= j
  BY <1>2, <1>3, Minimum
<1>5. a[0] = Start(texts, s) /\ b[0] = Start(texts, s)
  BY DEF Trace, Start
<1>6. i \in 0 .. n /\ i # 0 /\ a[i] # b[i]
  BY <1>4, <1>5
<1>7. i - 1 \in 0 .. n - 1 /\ i - 1 \in 0 .. m - 1 /\ i - 1 \notin Apart /\ (i - 1) + 1 = i
  BY <1>1, <1>4, <1>6
<1>8. a[i - 1] = b[i - 1]
  BY <1>7, <1>1
<1>9. /\ a[(i - 1) + 1] = Turn(texts, s.imports, a[i - 1])
      /\ b[(i - 1) + 1] = Turn(texts, s.imports, b[i - 1])
  BY <1>7 DEF Trace
<1> QED BY <1>6, <1>7, <1>8, <1>9

(* so they parse the same.                                                 *)
LEMMA ResultOnce ==
  ASSUME NEW texts, NEW s, NEW r, s.edl = r.edl, s.imports = r.imports,
         NEW d, Result(texts, s, d), NEW e, Result(texts, r, e)
  PROVE  d = e
<1>1. PICK x : Reads(texts, s, x) /\ x.frames = <<>> /\ x.edl = d
  BY Zenon DEF Result
<1>2. PICK y : Reads(texts, r, y) /\ y.frames = <<>> /\ y.edl = e
  BY Zenon DEF Result
<1>3. PICK a : \E n \in Nat : Trace(texts, s, a, n) /\ a[n] = x
  BY <1>1, Zenon DEF Reads
<1>4. PICK n \in Nat : Trace(texts, s, a, n) /\ a[n] = x
  BY <1>3
<1>5. PICK b : \E m \in Nat : Trace(texts, r, b, m) /\ b[m] = y
  BY <1>2, Zenon DEF Reads
<1>6. PICK m \in Nat : Trace(texts, r, b, m) /\ b[m] = y
  BY <1>5
<1>7. /\ \A i \in 0 .. n - 1 : a[i].frames # <<>>
      /\ \A i \in 0 .. m - 1 : b[i].frames # <<>>
  BY <1>4, <1>6 DEF Trace
<1>8. CASE n <= m
  <2>1. a[n] = b[n]
    BY <1>4, <1>6, <1>8, TracesAgree, SMTT(30)
  <2>2. ~(n < m)
    <3>1. n < m => n \in 0 .. m - 1
      OBVIOUS
    <3> QED BY <3>1, <2>1, <1>1, <1>4, <1>7
  <2>3. n = m
    BY <2>2, <1>8
  <2> QED BY <2>1, <2>3, <1>1, <1>2, <1>4, <1>6
<1>9. CASE m <= n
  <2>1. b[m] = a[m]
    BY <1>4, <1>6, <1>9, TracesAgree
  <2>2. ~(m < n)
    <3>1. m < n => m \in 0 .. n - 1
      OBVIOUS
    <3> QED BY <3>1, <2>1, <1>2, <1>6, <1>7
  <2>3. n = m
    BY <2>2, <1>9
  <2> QED BY <2>1, <2>3, <1>1, <1>2, <1>4, <1>6
<1> QED BY <1>8, <1>9

-----------------------------------------------------------------------------
(* The first element of a sequence, and the rest.                          *)
LEMMA Rest ==
  ASSUME NEW s, Sequence(s), s # <<>>
  PROVE  Head(s) \in Range(s) /\ Sequence(Tail(s)) /\ Range(Tail(s)) \subseteq Range(s)
<1>1. s \in Seq(Range(s))
  BY DEF Sequence
<1>2. Head(s) \in Range(s) /\ Tail(s) \in Seq(Range(s))
  BY <1>1, HeadTailProperties
<1>3. Range(Tail(s)) \subseteq Range(s)
  BY <1>2 DEF Range
<1> QED BY <1>2, <1>3, IsSequence

(* A generator is a sequence of steps.                                     *)
Stepwise == \A source, s : Sequence(Generator(source, s))

(* The lines still to run, and the settings, are those of the project.     *)
Lines ==
  /\ project \in Projects
  /\ Sequence(todo) /\ Range(todo) \subseteq Range(project.lines)
  /\ stage = "line" => todo # <<>>
  /\ stage \in {"parse", "generate", "built"} =>
        \E line \in Range(project.lines) : settings = ParseLine(line)

(* What a run has parsed is what its settings say.                         *)
Read ==
  /\ stage = "parse" => Reads(project.texts, settings, Now)
  /\ stage \in {"generate", "built"} => Result(project.texts, settings, edl)

(* What it has still to do belongs to what it has parsed.                  *)
ToDo == stage = "generate" =>
          Sequence(steps) /\ Range(steps) \subseteq Range(Generator(edl, settings))

(* What a run of the project wrote, of whatever it parsed.                 *)
Sourced(layer, file, content) ==
  \E line \in Range(project.lines) : \E source :
    Result(project.texts, ParseLine(line), source) /\ Saves(source, line, layer, file, content)

AllSourced ==
  \A layer \in Layers : \A file \in DOMAIN saved[layer] :
    Sourced(layer, file, saved[layer][file])

BuildInv == Parsers /\ Lines /\ Read /\ ToDo /\ DOMAIN saved = Layers /\ AllSourced

(* The parts of the invariant, initially,                                  *)
LEMMA InitBuild ==
  ASSUME Init
  PROVE  BuildInv
<1>1. Parsers
  BY EmptySequence DEF Init, Parsers
<1>2. Lines
  BY BuildAssumption DEF Init, Lines, Sequence
<1>3. Read /\ ToDo
  BY DEF Init, Read, ToDo
<1>4. DOMAIN saved = Layers /\ \A layer \in Layers : saved[layer] = <<>>
  BY DEF Init
<1>5. DOMAIN <<>> = {}
  OBVIOUS
<1>6. AllSourced
  BY <1>4, <1>5 DEF AllSourced
<1> QED BY <1>1, <1>2, <1>3, <1>4, <1>6 DEF BuildInv

(* when nothing is written,                                                *)
LEMMA SameSourced ==
  ASSUME AllSourced, UNCHANGED <<project, saved>>
  PROVE  AllSourced'
BY DEF AllSourced, Sourced

(* when a command line is read,                                            *)
LEMMA ReadLineLines ==
  ASSUME Lines, ReadLine, stage' \in {"parse", "stopped"}
  PROVE  Lines'
<1>1. /\ stage = "line" /\ todo' = Tail(todo)
      /\ settings' = ParseLine(Head(todo)) /\ project' = project
  BY DEF ReadLine, Line
<1>2. /\ Head(todo) \in Range(project.lines)
      /\ Sequence(Tail(todo)) /\ Range(Tail(todo)) \subseteq Range(project.lines)
  BY <1>1, Rest DEF Lines
<1> QED BY <1>1, <1>2 DEF Lines

(* when parsing starts,                                                    *)
LEMMA StartBuild ==
  ASSUME BuildInv, StartParsing
  PROVE  Lines' /\ Read' /\ ToDo' /\ DOMAIN saved' = Layers /\ AllSourced'
<1>1. Lines'
  BY ReadLineLines DEF BuildInv, StartParsing
<1>2. /\ stage' = "parse" /\ project' = project /\ saved' = saved /\ settings' = Line
      /\ frames' = Opened(project.texts, Line.edl) /\ files' = Update(<<>>, Line.edl, "parsing")
  BY DEF StartParsing, ReadLine
<1>3. Now' = Start(project.texts, settings')
  BY <1>2 DEF Now, Start
<1>4. Read'
  BY <1>2, <1>3, ReadsStart DEF Read
<1> QED BY <1>1, <1>2, <1>4, SameSourced DEF BuildInv, ToDo

(* while it goes on and when it ends,                                      *)
LEMMA ParsingBuild ==
  ASSUME Stepwise, BuildInv, Parsers', Parsing
  PROVE  Lines' /\ Read' /\ ToDo' /\ DOMAIN saved' = Layers /\ AllSourced'
<1>1. /\ stage = "parse" /\ UNCHANGED <<project, todo, settings, saved>>
      /\ \/ stage' = "parse"
         \/ stage' = "generate" /\ steps' = Generator(edl', settings)
  BY DEF Parsing, Trusted, Untrusted, Enumeration, Structure, UnexpectedToken,
         Construct, Import, EndOfFile
<1>2. Lines'
  BY <1>1 DEF BuildInv, Lines
<1> DEFINE x == State(frames', files', IF stage' = "generate" THEN edl' ELSE NoEdl)
<1>3. Reads(project.texts, settings, x)
  <2>1. Reads(project.texts, settings, Now) /\ Now.frames # <<>>
    BY <1>1, NowFields DEF BuildInv, Read, Parsers
  <2>2. x = Turn(project.texts, settings.imports, Now)
    BY TurnStep DEF BuildInv
  <2> HIDE DEF x
  <2> QED BY <2>1, <2>2, ReadsTurn
<1>4. CASE stage' = "parse"
  <2>1. x = Now'
    BY <1>4 DEF Now
  <2>2. Read'
    BY <1>1, <1>3, <1>4, <2>1 DEF Read
  <2> QED BY <1>1, <1>2, <1>4, <2>2, SameSourced DEF BuildInv, ToDo
<1>5. CASE stage' = "generate" /\ steps' = Generator(edl', settings)
  <2>1. frames' = <<>>
    BY <1>5 DEF Parsers
  <2>2. x.frames = <<>> /\ x.edl = edl'
    BY <1>5, <2>1 DEF State
  <2>3. Result(project.texts, settings, edl')
    BY <1>3, <2>2, Zenon DEF Result
  <2>4. Sequence(Generator(edl', settings))
    BY DEF Stepwise
  <2>5. Read'
    BY <1>1, <1>5, <2>3 DEF Read
  <2>6. ToDo'
    BY <1>1, <1>5, <2>4 DEF ToDo
  <2> QED BY <1>1, <1>2, <2>5, <2>6, SameSourced DEF BuildInv
<1> QED BY <1>1, <1>4, <1>5

(* with each step of a generator,                                          *)
LEMMA StepBuild ==
  ASSUME BuildInv, NEW kind, Step(kind)
  PROVE  /\ Head(steps) \in Range(Generator(edl, settings)) /\ Head(steps).kind = kind
         /\ Lines /\ stage = "generate" /\ UNCHANGED <<project, todo, settings, edl, frames, files>>
         /\ stage' = "generate" => ToDo'
<1>1. /\ stage = "generate" /\ steps # <<>> /\ Head(steps).kind = kind
      /\ steps' = Tail(steps) /\ UNCHANGED <<project, todo, settings, edl, frames, files>>
  BY DEF Step
<1>2. Sequence(steps) /\ Range(steps) \subseteq Range(Generator(edl, settings))
  BY <1>1 DEF BuildInv, ToDo
<1>3. /\ Head(steps) \in Range(Generator(edl, settings))
      /\ Sequence(steps') /\ Range(steps') \subseteq Range(Generator(edl, settings))
  BY <1>1, <1>2, Rest
<1> QED BY <1>1, <1>3 DEF ToDo, BuildInv

(* when it saves a file,                                                   *)
LEMMA SaveFileBuild ==
  ASSUME BuildInv, SaveFile
  PROVE  Lines' /\ Read' /\ ToDo' /\ DOMAIN saved' = Layers /\ AllSourced'
<1>1. /\ Step("save") /\ stage' = stage
      /\ saved' = [saved EXCEPT ![settings.layer] =
                        Update(saved[settings.layer], Head(steps).file, Head(steps).content)]
  BY DEF SaveFile
<1>2. /\ Head(steps) \in Range(Generator(edl, settings)) /\ Head(steps).kind = "save"
      /\ stage = "generate" /\ stage' = "generate"
      /\ UNCHANGED <<project, todo, settings, edl, frames, files>>
      /\ ToDo'
  BY <1>1, StepBuild
<1>3. Lines' /\ Read'
  BY <1>2 DEF BuildInv, Lines, Read
<1>4. DOMAIN saved' = Layers
  BY <1>1 DEF BuildInv
<1>5. Sourced(settings.layer, Head(steps).file, Head(steps).content)
  <2>1. PICK line \in Range(project.lines) : settings = ParseLine(line)
    BY <1>2 DEF BuildInv, Lines
  <2>2. Result(project.texts, ParseLine(line), edl)
    BY <1>2, <2>1 DEF BuildInv, Read
  <2>3. Saves(edl, line, settings.layer, Head(steps).file, Head(steps).content)
    BY <1>2, <2>1 DEF Saves
  <2> QED BY <2>2, <2>3 DEF Sourced
<1>6. ASSUME NEW layer \in Layers, NEW file \in DOMAIN saved'[layer]
      PROVE  Sourced(layer, file, saved'[layer][file])
  <2>1. CASE layer = settings.layer
    <3>1. saved'[layer] = Update(saved[layer], Head(steps).file, Head(steps).content)
      BY <1>1, <2>1 DEF BuildInv
    <3>2. CASE file = Head(steps).file
      <4>1. saved'[layer][file] = Head(steps).content
        BY <3>1, <3>2 DEF Update
      <4> QED BY <4>1, <3>2, <2>1, <1>5
    <3>3. CASE file # Head(steps).file
      <4>1. file \in DOMAIN saved[layer] /\ saved'[layer][file] = saved[layer][file]
        BY <3>1, <3>3 DEF Update
      <4> QED BY <4>1 DEF BuildInv, AllSourced
    <3> QED BY <3>2, <3>3
  <2>2. CASE layer # settings.layer
    <3>1. saved'[layer] = saved[layer]
      BY <1>1, <2>2 DEF BuildInv
    <3> QED BY <3>1 DEF BuildInv, AllSourced
  <2> QED BY <2>1, <2>2
<1>7. AllSourced'
  BY <1>2, <1>6 DEF AllSourced, Sourced
<1> QED BY <1>2, <1>3, <1>4, <1>7

(* and so whatever happens.                                                *)
LEMMA NextBuild == Stepwise /\ BuildInv /\ [Next]_vars => BuildInv'
<1> SUFFICES ASSUME Stepwise, BuildInv, [Next]_vars
             PROVE  BuildInv'
  OBVIOUS
<1>0. Parsers'
  BY NextParsers DEF BuildInv
<1>1. CASE UNCHANGED vars \/ Over
  <2>1. UNCHANGED vars
    BY <1>1 DEF Over
  <2>2. Lines'
    BY <2>1 DEF vars, BuildInv, Lines
  <2>3. Read' /\ ToDo'
    BY <2>1 DEF vars, BuildInv, Read, ToDo, Now
  <2>4. DOMAIN saved' = Layers /\ AllSourced'
    BY <2>1, SameSourced DEF vars, BuildInv
  <2> QED BY <1>0, <2>2, <2>3, <2>4 DEF BuildInv
<1>2. CASE LineRejected \/ ShowHelp \/ FailureToLoadFile
  <2>1. ReadLine /\ stage' = "stopped" /\ project' = project /\ saved' = saved
    BY <1>2 DEF LineRejected, ShowHelp, FailureToLoadFile, Stop, ReadLine
  <2>2. Lines'
    BY <2>1, ReadLineLines DEF BuildInv
  <2>3. Read' /\ ToDo'
    BY <2>1 DEF Read, ToDo
  <2> QED BY <1>0, <2>1, <2>2, <2>3, SameSourced DEF BuildInv
<1>3. CASE StartParsing
  BY <1>0, <1>3, StartBuild DEF BuildInv
<1>4. CASE Parsing
  BY <1>0, <1>4, ParsingBuild DEF BuildInv
<1>5. CASE Thrown
  <2>1. stage' = "stopped" /\ UNCHANGED <<project, todo, saved>>
    BY <1>5 DEF Thrown, Stop
  <2>2. Lines' /\ Read' /\ ToDo'
    BY <2>1 DEF BuildInv, Lines, Read, ToDo
  <2> QED BY <1>0, <2>1, <2>2, SameSourced DEF BuildInv
<1>6. CASE SaveFile
  BY <1>0, <1>6, SaveFileBuild DEF BuildInv
<1>7. CASE SaveFails \/ GeneratorThrows \/ CompilerFails
  <2>1. stage' = "stopped" /\ UNCHANGED <<project, todo, saved>>
    BY <1>7 DEF SaveFails, GeneratorThrows, CompilerFails, Stop, Step
  <2>2. Lines' /\ Read' /\ ToDo'
    BY <2>1 DEF BuildInv, Lines, Read, ToDo
  <2> QED BY <1>0, <2>1, <2>2, SameSourced DEF BuildInv
<1>8. CASE CompileFlatbufferFile
  <2>1. Step("compile") /\ stage' = stage /\ saved' = saved
    BY <1>8 DEF CompileFlatbufferFile
  <2>2. /\ stage' = "generate" /\ stage = "generate" /\ ToDo'
        /\ UNCHANGED <<project, todo, settings, edl, frames, files>>
    BY <2>1, StepBuild
  <2>3. Lines' /\ Read'
    BY <2>2 DEF BuildInv, Lines, Read
  <2> QED BY <1>0, <2>1, <2>2, <2>3, SameSourced DEF BuildInv
<1>9. CASE Finished
  <2>1. /\ stage = "generate" /\ UNCHANGED <<project, todo, settings, edl, saved>>
        /\ stage' = IF todo = <<>> THEN "built" ELSE "line"
    BY <1>9 DEF Finished
  <2>2. Lines' /\ Read' /\ ToDo'
    BY <2>1 DEF BuildInv, Lines, Read, ToDo
  <2> QED BY <1>0, <2>1, <2>2, SameSourced DEF BuildInv
<1> QED BY <1>1, <1>2, <1>3, <1>4, <1>5, <1>6, <1>7, <1>8, <1>9 DEF Next, Run, Parsing

(* Lines for the same files, as their settings say.                        *)
LEMMA SameInput ==
  ASSUME OneInput, NEW line \in Range(project.lines), NEW other \in Range(project.lines)
  PROVE  /\ ParseLine(line).edl = ParseLine(other).edl
         /\ ParseLine(line).imports = ParseLine(other).imports
<1>1. PICK i \in DOMAIN project.lines : line = project.lines[i]
  BY DEF Range
<1>2. PICK j \in DOMAIN project.lines : other = project.lines[j]
  BY DEF Range
<1> QED BY <1>1, <1>2 DEF OneInput, Ran

(* When all runs read the same files, what they parsed is one interface.   *)
LEMMA BuiltFromOne == BuildInv => OneSource
<1> SUFFICES ASSUME BuildInv, stage = "built", OneInput,
                    NEW layer \in Layers, NEW file \in DOMAIN saved[layer]
             PROVE  \E line \in Range(project.lines) :
                        Saves(edl, line, layer, file, saved[layer][file])
  BY DEF OneSource
<1>1. PICK line \in Range(project.lines) : \E source :
        /\ Result(project.texts, ParseLine(line), source)
        /\ Saves(source, line, layer, file, saved[layer][file])
  BY Zenon DEF BuildInv, AllSourced, Sourced
<1>2. PICK source :
        /\ Result(project.texts, ParseLine(line), source)
        /\ Saves(source, line, layer, file, saved[layer][file])
  BY <1>1
<1>3. PICK other \in Range(project.lines) : settings = ParseLine(other)
  BY DEF BuildInv, Lines
<1>4. Result(project.texts, settings, edl)
  BY DEF BuildInv, Read
<1>5. /\ ParseLine(line).edl = ParseLine(other).edl
      /\ ParseLine(line).imports = ParseLine(other).imports
  BY SameInput
<1>6. source = edl
  BY <1>2, <1>3, <1>4, <1>5, ResultOnce
<1> QED BY <1>2, <1>6

(* Two runs on the same files make the two halves of one interface: in a   *)
(* finished build every file of either layer is what the generator makes   *)
(* of the one interface the last run parsed, under settings of that layer  *)
(* (main, EdlParser::Parse).  For any project, any parser whose methods    *)
(* depend on the parser alone, and any generator.                          *)
THEOREM BuiltFromOneSource ==
  ASSUME Stepwise
  PROVE  Safety => []OneSource
<1>1. Init => BuildInv
  BY InitBuild
<1>2. BuildInv /\ [Next]_vars => BuildInv'
  BY NextBuild
<1> QED BY <1>1, <1>2, BuiltFromOne, PTL DEF Safety

-----------------------------------------------------------------------------
(* What is in a sequence is its first element or in the rest.              *)
LEMMA HeadOrTail ==
  ASSUME NEW s, Sequence(s), NEW x \in Range(s)
  PROVE  s # <<>> /\ (x = Head(s) \/ x \in Range(Tail(s)))
<1>1. s \in Seq(Range(s))
  BY DEF Sequence
<1>2. PICK i \in DOMAIN s : s[i] = x
  BY DEF Range
<1>3. DOMAIN s = 1 .. Len(s) /\ Len(s) \in Nat
  BY <1>1
<1>4. s # <<>>
  BY <1>2, <1>3
<1>5. /\ Head(s) = s[1]
      /\ Tail(s) \in Seq(Range(s)) /\ Len(Tail(s)) = Len(s) - 1
      /\ \A j \in 1 .. Len(Tail(s)) : Tail(s)[j] = s[j + 1]
  BY <1>1, <1>4, HeadTailProperties
<1>6. CASE i = 1
  BY <1>2, <1>4, <1>5, <1>6
<1>7. CASE i # 1
  <2>1. i - 1 \in 1 .. Len(Tail(s)) /\ (i - 1) + 1 = i
    BY <1>2, <1>3, <1>5, <1>7
  <2>2. Tail(s)[i - 1] = x /\ i - 1 \in DOMAIN Tail(s)
    BY <1>2, <1>5, <2>1
  <2> QED BY <1>4, <2>2 DEF Range
<1> QED BY <1>6, <1>7

(* Settings that name the same files have the same result.                 *)
LEMMA ResultSame ==
  ASSUME NEW texts, NEW s, NEW r, s.edl = r.edl, s.imports = r.imports,
         NEW d, Result(texts, s, d)
  PROVE  Result(texts, r, d)
<1>1. Start(texts, s) = Start(texts, r)
  BY DEF Start
<1>2. \A trace, n : Trace(texts, s, trace, n) => Trace(texts, r, trace, n)
  BY <1>1 DEF Trace
<1>3. PICK x : Reads(texts, s, x) /\ x.frames = <<>> /\ x.edl = d
  BY Zenon DEF Result
<1>4. Reads(texts, r, x)
  BY <1>2, <1>3, Zenon DEF Reads
<1> QED BY <1>3, <1>4, Zenon DEF Result

(* A step of a generator that is behind it.                                *)
Done(step, layer) ==
  /\ step.kind # "throw"
  /\ step.kind = "save" /\ layer \in Layers => step.file \in DOMAIN saved[layer]

(* Nothing is lost: a line is still to be run, is being run or has left    *)
(* its files; and a step of the generator is still to be taken or done.    *)
Kept ==
  /\ stage = "built" => todo = <<>>
  /\ stage = "generate" => \A step \in Range(Generator(edl, settings)) :
        step \in Range(steps) \/ Done(step, settings.layer)
  /\ stage # "stopped" => \A line \in Range(project.lines) :
        \/ line \in Range(todo)
        \/ stage \in {"parse", "generate"} /\ settings = ParseLine(line)
        \/ \A source : Result(project.texts, ParseLine(line), source)
                         => Complete(source, line)

(* Files stay.                                                             *)
LEMMA CompleteStays ==
  ASSUME \A layer \in Layers : DOMAIN saved[layer] \subseteq DOMAIN saved'[layer]
  PROVE  /\ \A step, layer : Done(step, layer) => Done(step, layer)'
         /\ \A source, line : Complete(source, line) => Complete(source, line)'
BY DEF Done, Complete

(* Saving a file takes none away.                                          *)
LEMMA SaveKeeps ==
  ASSUME BuildInv, SaveFile
  PROVE  /\ \A layer \in Layers : DOMAIN saved[layer] \subseteq DOMAIN saved'[layer]
         /\ settings.layer \in Layers => Head(steps).file \in DOMAIN saved'[settings.layer]
<1>1. saved' = [saved EXCEPT ![settings.layer] =
                    Update(saved[settings.layer], Head(steps).file, Head(steps).content)]
  BY DEF SaveFile
<1>2. DOMAIN saved = Layers
  BY DEF BuildInv
<1>3. \A f, x, y : DOMAIN Update(f, x, y) = DOMAIN f \cup {x}
  BY DEF Update
<1>4. CASE settings.layer \in Layers
  <2>1. saved'[settings.layer] =
          Update(saved[settings.layer], Head(steps).file, Head(steps).content)
    BY <1>1, <1>2, <1>4
  <2>2. \A layer \in Layers : layer # settings.layer => saved'[layer] = saved[layer]
    BY <1>1, <1>2
  <2>3. DOMAIN saved'[settings.layer] = DOMAIN saved[settings.layer] \cup {Head(steps).file}
    BY <2>1 DEF Update
  <2>4. ASSUME NEW layer \in Layers
        PROVE  DOMAIN saved[layer] \subseteq DOMAIN saved'[layer]
    BY <2>2, <2>3
  <2> QED BY <2>3, <2>4
<1>5. CASE settings.layer \notin Layers
  BY <1>1, <1>2, <1>5
<1> QED BY <1>4, <1>5

(* Each step of a generator,                                               *)
LEMMA StepKept ==
  ASSUME BuildInv, Kept, NEW kind \in {"save", "compile"}, Step(kind), stage' = stage,
         \A layer \in Layers : DOMAIN saved[layer] \subseteq DOMAIN saved'[layer],
         kind = "save" /\ settings.layer \in Layers
            => Head(steps).file \in DOMAIN saved'[settings.layer]
  PROVE  Kept'
<1>1. /\ stage = "generate" /\ stage' = "generate" /\ steps # <<>> /\ Head(steps).kind = kind
      /\ steps' = Tail(steps) /\ UNCHANGED <<project, todo, settings, edl>>
  BY DEF Step
<1>2. Sequence(steps)
  BY <1>1 DEF BuildInv, ToDo
<1>3. ASSUME NEW step, step = Head(steps)
      PROVE  Done(step, settings.layer)'
  BY <1>1, <1>3 DEF Done
<1>4. ASSUME NEW step \in Range(Generator(edl, settings))
      PROVE  step \in Range(steps') \/ Done(step, settings.layer)'
  <2>1. CASE step \in Range(steps)
    <3>1. step = Head(steps) \/ step \in Range(Tail(steps))
      BY <1>2, <2>1, HeadOrTail
    <3> QED BY <1>1, <1>3, <3>1
  <2>2. CASE Done(step, settings.layer)
    <3>1. Done(step, settings.layer)'
      BY <1>1, <2>2 DEF Done
    <3> QED BY <3>1
  <2> QED BY <2>1, <2>2, <1>1 DEF Kept
<1>5. ASSUME NEW line \in Range(project.lines)
      PROVE  \/ line \in Range(todo)
             \/ settings = ParseLine(line)
             \/ \A source : Result(project.texts, ParseLine(line), source)
                              => Complete(source, line)'
  BY <1>1, CompleteStays DEF Kept
<1> QED BY <1>1, <1>4, <1>5 DEF Kept

(* and its end,                                                            *)
LEMMA FinishedKept ==
  ASSUME BuildInv, Kept, Finished
  PROVE  Kept'
<1>1. /\ stage = "generate" /\ steps = <<>>
      /\ UNCHANGED <<project, todo, settings, edl, saved>>
      /\ stage' = IF todo = <<>> THEN "built" ELSE "line"
  BY DEF Finished
<1>2. Range(steps) = {}
  BY <1>1 DEF Range
<1>3. \A step \in Range(Generator(edl, settings)) : Done(step, settings.layer)
  BY <1>1, <1>2 DEF Kept
<1>4. Result(project.texts, settings, edl)
  BY <1>1 DEF BuildInv, Read
<1>5. ASSUME NEW line \in Range(project.lines), settings = ParseLine(line),
             NEW source, Result(project.texts, ParseLine(line), source)
      PROVE  Complete(source, line)
  <2>1. source = edl
    BY <1>4, <1>5, ResultOnce
  <2> QED BY <1>3, <1>5, <2>1 DEF Complete, Done
<1>6. ASSUME NEW line \in Range(project.lines)
      PROVE  \/ line \in Range(todo)
             \/ \A source : Result(project.texts, ParseLine(line), source)
                              => Complete(source, line)
  BY <1>1, <1>5 DEF Kept
<1>7. \A source, line : Complete(source, line) => Complete(source, line)'
  BY <1>1, CompleteStays
<1> QED BY <1>1, <1>6, <1>7 DEF Kept

(* like any other step, lose nothing.                                      *)
LEMMA NextKept == Stepwise /\ BuildInv /\ BuildInv' /\ Kept /\ [Next]_vars => Kept'
<1> SUFFICES ASSUME Stepwise, BuildInv, BuildInv', Kept, [Next]_vars
             PROVE  Kept'
  OBVIOUS
<1>1. CASE UNCHANGED vars \/ Over
  <2>1. UNCHANGED vars
    BY <1>1 DEF Over
  <2>2. \A step, layer : Done(step, layer)' <=> Done(step, layer)
    BY <2>1 DEF vars, Done
  <2>3. \A source, line : Complete(source, line)' <=> Complete(source, line)
    BY <2>1 DEF vars, Complete
  <2> QED BY <2>1, <2>2, <2>3 DEF vars, Kept
<1>2. CASE LineRejected \/ ShowHelp \/ FailureToLoadFile \/ Thrown
           \/ SaveFails \/ GeneratorThrows \/ CompilerFails
  BY <1>2 DEF LineRejected, ShowHelp, FailureToLoadFile, Thrown, SaveFails, GeneratorThrows,
              CompilerFails, Stop, Kept
<1>3. CASE StartParsing
  <2>1. /\ stage = "line" /\ stage' = "parse" /\ todo' = Tail(todo)
        /\ settings' = ParseLine(Head(todo)) /\ UNCHANGED <<project, saved>>
    BY <1>3 DEF StartParsing, ReadLine, Line
  <2>2. Sequence(todo)
    BY DEF BuildInv, Lines
  <2>3. \A source, line : Complete(source, line) => Complete(source, line)'
    BY <2>1, CompleteStays
  <2>4. ASSUME NEW line \in Range(project.lines)
        PROVE  \/ line \in Range(todo')
               \/ settings' = ParseLine(line)
               \/ \A source : Result(project.texts, ParseLine(line), source)
                                => Complete(source, line)
    <3>1. CASE line \in Range(todo)
      BY <2>1, <2>2, <3>1, HeadOrTail
    <3>2. CASE line \notin Range(todo)
      BY <2>1, <3>2 DEF Kept
    <3> QED BY <3>1, <3>2
  <2> QED BY <2>1, <2>3, <2>4 DEF Kept
<1>4. CASE Parsing
  <2>1. /\ stage = "parse" /\ UNCHANGED <<project, todo, settings, saved>>
        /\ \/ stage' = "parse"
           \/ stage' = "generate" /\ steps' = Generator(edl', settings)
    BY <1>4 DEF Parsing, Trusted, Untrusted, Enumeration, Structure, UnexpectedToken,
                Construct, Import, EndOfFile
  <2>2. \A source, line : Complete(source, line) => Complete(source, line)'
    BY <2>1, CompleteStays
  <2>3. ASSUME NEW line \in Range(project.lines)
        PROVE  \/ line \in Range(todo)
               \/ settings = ParseLine(line)
               \/ \A source : Result(project.texts, ParseLine(line), source)
                                => Complete(source, line)
    BY <2>1 DEF Kept
  <2> QED BY <2>1, <2>2, <2>3 DEF Kept
<1>5. CASE SaveFile
  <2>1. Step("save") /\ stage' = stage
    BY <1>5 DEF SaveFile
  <2> QED BY <1>5, <2>1, SaveKeeps, StepKept
<1>6. CASE CompileFlatbufferFile
  <2>1. Step("compile") /\ stage' = stage /\ saved' = saved
    BY <1>6 DEF CompileFlatbufferFile
  <2> QED BY <2>1, StepKept
<1>7. CASE Finished
  BY <1>7, FinishedKept
<1> QED BY <1>1, <1>2, <1>3, <1>4, <1>5, <1>6, <1>7 DEF Next, Run, Parsing

(* Neither half lacks a file: when a build is done, every line's generator *)
(* has taken all its steps for the one interface, none of them threw, and  *)
(* what it saved is still there (main, SaveFileToOutputFolder).            *)
THEOREM BuiltCompletely ==
  ASSUME Stepwise
  PROVE  Safety => []NothingMissing
<1>1. Init => BuildInv
  BY InitBuild
<1>2. Init => Kept
  <2> SUFFICES ASSUME Init
               PROVE  Kept
    OBVIOUS
  <2> QED BY DEF Init, Kept
<1>3. BuildInv /\ [Next]_vars => BuildInv'
  BY NextBuild
<1>4. BuildInv /\ BuildInv' /\ Kept /\ [Next]_vars => Kept'
  BY NextKept
<1>5. BuildInv /\ Kept => NothingMissing
  <2> SUFFICES ASSUME BuildInv, Kept, stage = "built", OneInput,
                      NEW line \in Range(project.lines)
               PROVE  Complete(edl, line)
    BY DEF NothingMissing
  <2>1. PICK other \in Range(project.lines) : settings = ParseLine(other)
    BY DEF BuildInv, Lines
  <2>2. Result(project.texts, settings, edl)
    BY DEF BuildInv, Read
  <2>3. /\ ParseLine(other).edl = ParseLine(line).edl
        /\ ParseLine(other).imports = ParseLine(line).imports
    BY SameInput
  <2>4. Result(project.texts, ParseLine(line), edl)
    BY <2>1, <2>2, <2>3, ResultSame
  <2>5. Range(todo) = {}
    <3>1. todo = <<>>
      BY DEF Kept
    <3> QED BY <3>1 DEF Range
  <2> QED BY <2>4, <2>5 DEF Kept
<1> QED BY <1>1, <1>2, <1>3, <1>4, <1>5, PTL DEF Safety

-----------------------------------------------------------------------------
(* Both halves of what a build generates.                                   *)

(* What is in short sequences,                                             *)
LEMMA Listing ==
  /\ \A a : Sequence(<<a>>) /\ Range(<<a>>) = {a}
  /\ \A a, b : Sequence(<<a, b>>) /\ Range(<<a, b>>) = {a, b}
  /\ \A a, b, c : Sequence(<<a, b, c>>) /\ Range(<<a, b, c>>) = {a, b, c}
<1>1. ASSUME NEW a
      PROVE  Sequence(<<a>>) /\ Range(<<a>>) = {a}
  <2>1. <<a>> \in Seq({a}) /\ Range(<<a>>) = {a}
    BY DEF Range
  <2> QED BY <2>1, IsSequence
<1>2. ASSUME NEW a, NEW b
      PROVE  Sequence(<<a, b>>) /\ Range(<<a, b>>) = {a, b}
  <2> DEFINE s == <<a, b>>
  <2>1. DOMAIN s = {1, 2} /\ s[1] = a /\ s[2] = b /\ s \in Seq({a, b})
    OBVIOUS
  <2> HIDE DEF s
  <2>2. Range(s) = {a, b}
    BY <2>1 DEF Range
  <2> QED BY <2>1, <2>2, IsSequence DEF s
<1>3. ASSUME NEW a, NEW b, NEW c
      PROVE  Sequence(<<a, b, c>>) /\ Range(<<a, b, c>>) = {a, b, c}
  <2> DEFINE s == <<a, b, c>>
  <2>1. DOMAIN s = {1, 2, 3} /\ s[1] = a /\ s[2] = b /\ s[3] = c /\ s \in Seq({a, b, c})
    OBVIOUS
  <2> HIDE DEF s
  <2>2. Range(s) = {a, b, c}
    BY <2>1 DEF Range
  <2> QED BY <2>1, <2>2, IsSequence DEF s
<1> QED BY <1>1, <1>2, <1>3, Zenon

(* in one of nine,                                                         *)
LEMMA Nine ==
  ASSUME NEW a, NEW b, NEW c, NEW d, NEW e, NEW f, NEW g, NEW h, NEW i
  PROVE  LET s == <<a, b, c, d, e, f, g, h, i>>
         IN  Sequence(s) /\ Range(s) = {a, b, c, d, e, f, g, h, i}
<1> DEFINE s == <<a, b, c, d, e, f, g, h, i>>
           S == {a, b, c, d, e, f, g, h, i}
<1>1. /\ DOMAIN s = {1, 2, 3, 4, 5, 6, 7, 8, 9}
      /\ s[1] = a /\ s[2] = b /\ s[3] = c /\ s[4] = d /\ s[5] = e
      /\ s[6] = f /\ s[7] = g /\ s[8] = h /\ s[9] = i
  OBVIOUS
<1>2. s \in Seq(S)
  OBVIOUS
<1> HIDE DEF s
<1>3. Range(s) = S
  BY <1>1 DEF Range
<1> QED BY <1>2, <1>3, IsSequence DEF s

(* and in two, one after the other.                                        *)
LEMMA Concatenated ==
  ASSUME NEW s, NEW t, Sequence(s), Sequence(t)
  PROVE  Sequence(s \o t) /\ Range(s \o t) = Range(s) \cup Range(t)
<1> DEFINE T == Range(s) \cup Range(t)
<1>1. s \in Seq(T) /\ t \in Seq(T)
  BY SeqMonotonic DEF Sequence
<1>2. s \o t \in Seq(T)
  BY <1>1
<1>3. /\ Len(s) \in Nat /\ Len(t) \in Nat /\ Len(s \o t) = Len(s) + Len(t)
      /\ DOMAIN s = 1 .. Len(s) /\ DOMAIN t = 1 .. Len(t)
      /\ DOMAIN (s \o t) = 1 .. Len(s) + Len(t)
  BY <1>1, <1>2
<1>4. \A i \in 1 .. Len(s) + Len(t) :
        (s \o t)[i] = IF i <= Len(s) THEN s[i] ELSE t[i - Len(s)]
  BY <1>1, ConcatProperties
<1>5. ASSUME NEW x \in Range(s \o t)
      PROVE  x \in T
  BY <1>2 DEF Range
<1>6. ASSUME NEW i \in DOMAIN s
      PROVE  s[i] \in Range(s \o t)
  <2>1. i \in 1 .. Len(s) + Len(t) /\ i <= Len(s)
    BY <1>3
  <2> QED BY <2>1, <1>3, <1>4 DEF Range
<1>7. ASSUME NEW i \in DOMAIN t
      PROVE  t[i] \in Range(s \o t)
  <2>1. Len(s) + i \in 1 .. Len(s) + Len(t) /\ ~(Len(s) + i <= Len(s)) /\ (Len(s) + i) - Len(s) = i
    BY <1>3
  <2>2. (s \o t)[Len(s) + i] = t[i]
    BY <2>1, <1>4
  <2> QED BY <2>1, <2>2, <1>3 DEF Range
<1>8. Range(s \o t) = T
  BY <1>5, <1>6, <1>7 DEF Range
<1> QED BY <1>2, <1>8, IsSequence

(* Among the steps of a generator, the one that saves a file.              *)
Writes(all, file, content) ==
  /\ Save(file, content) \in all
  /\ \A step \in all : step.kind = "save" /\ step.file = file => step.content = content

(* What a finished build has on the disk is what every line of the layer   *)
(* saved.                                                                  *)
LEMMA Written ==
  ASSUME OneSource, NothingMissing, stage = "built", OneInput, BothLayers,
         NEW layer \in Layers, NEW all,
         \A line \in Range(project.lines) :
            ParseLine(line).layer = layer => Range(Generator(edl, ParseLine(line))) = all
  PROVE  /\ \A step \in all : step.kind # "throw"
         /\ \A file, content : Writes(all, file, content) => saved[layer][file] = content
<1>1. PICK some \in DOMAIN saved[layer] : TRUE
  BY DEF BothLayers
<1>2. PICK line \in Range(project.lines) : Saves(edl, line, layer, some, saved[layer][some])
  BY DEF OneSource
<1>3. ParseLine(line).layer = layer /\ Range(Generator(edl, ParseLine(line))) = all
  BY <1>2 DEF Saves
<1>4. /\ \A step \in all : step.kind # "throw"
      /\ \A step \in all : step.kind = "save" => step.file \in DOMAIN saved[layer]
  BY <1>3 DEF NothingMissing, Complete
<1>5. ASSUME NEW file, NEW content, Writes(all, file, content)
      PROVE  saved[layer][file] = content
  <2>1. file \in DOMAIN saved[layer]
    BY <1>4, <1>5 DEF Writes, Save
  <2>2. PICK other \in Range(project.lines) : Saves(edl, other, layer, file, saved[layer][file])
    BY <2>1 DEF OneSource
  <2>3. PICK step \in all : /\ step.kind = "save" /\ step.file = file
                            /\ step.content = saved[layer][file]
    BY <2>2 DEF Saves
  <2> QED BY <1>5, <2>3 DEF Writes
<1> QED BY <1>4, <1>5

(* The files of a Rust half that the other half has or refers to.          *)
LEMMA RustWrites ==
  ASSUME NEW source, NEW layer \in Layers, NEW namespace, NEW all,
         all = Range(GenerateRust(source, layer, namespace)),
         \A step \in all : step.kind # "throw"
  PROVE  LET abiTypes == CreateDeveloperTypesForABIFunctions(source)
             schema   == GenerateFlatbufferSchema(source.types, abiTypes)
             stubs    == IF layer = "Enclave" THEN "stubs/untrusted.rs" ELSE "stubs/trusted.rs"
         IN  /\ Writes(all, "abi/definitions.rs",
                       GenerateAbiBoundaryModule(source, layer, namespace).content)
             /\ Writes(all, stubs, GenerateStubModules(source, layer, namespace)[1].content)
             /\ Writes(all, "implementation/types.rs",
                       GenerateDeveloperTypesModuleFile(source.types))
             /\ Writes(all, "abi/abi_types.rs", GenerateAbiTypesModuleFile(abiTypes))
             /\ Writes(all, "abi/flatbuffer_gen/FlatbufferTypes.fbs",
                       SchemaFile(source.types, schema))
<1> DEFINE abiTypes == CreateDeveloperTypesForABIFunctions(source)
           schema   == GenerateFlatbufferSchema(source.types, abiTypes)
           stubs    == IF layer = "Enclave" THEN "stubs/untrusted.rs" ELSE "stubs/trusted.rs"
           impl     == GenerateImplementationModules(source, layer)
           stub     == GenerateStubModules(source, layer, namespace)
           fbs      == GenerateFlatbufferComponents(source, abiTypes)
           boundary == GenerateAbiBoundaryModule(source, layer, namespace)
           types    == Save("abi/abi_types.rs", GenerateAbiTypesModuleFile(abiTypes))
           first    == <<Save("Cargo.toml", {})>>
           abi      == <<boundary, types, Save("abi/mod.rs", {})>>
           ends     == <<Save("lib.rs", {}), Save("build.rs", {})>>
<1>1. GenerateRust(source, layer, namespace) = first \o impl \o stub \o (fbs \o abi) \o ends
  BY DEF Layers, GenerateRust, GenerateAbiModules
<1>2. /\ Sequence(impl) /\ Sequence(stub) /\ Sequence(fbs) 
      /\ Sequence(first) /\ Sequence(abi) /\ Sequence(ends)
  BY Listing DEF GenerateImplementationModules, GenerateStubModules, GenerateFlatbufferComponents
<1> HIDE DEF first, impl, stub, fbs, abi, ends
<1>3. all = Range(first) \cup Range(impl) \cup Range(stub) \cup Range(fbs) \cup Range(abi)
              \cup Range(ends)
  <2>1. Sequence(first \o impl) /\ Range(first \o impl) = Range(first) \cup Range(impl)
    BY <1>2, Concatenated
  <2>2. Sequence(first \o impl \o stub)
        /\ Range(first \o impl \o stub) = Range(first) \cup Range(impl) \cup Range(stub)
    BY <1>2, <2>1, Concatenated
  <2>3. Sequence(fbs \o abi) /\ Range(fbs \o abi) = Range(fbs) \cup Range(abi)
    BY <1>2, Concatenated
  <2>4. /\ Sequence(first \o impl \o stub \o (fbs \o abi))
        /\ Range(first \o impl \o stub \o (fbs \o abi)) =
             Range(first) \cup Range(impl) \cup Range(stub) \cup Range(fbs) \cup Range(abi)
    BY <2>2, <2>3, Concatenated
  <2> QED BY <1>1, <1>2, <2>4, Concatenated
<1>4. ~Refused(schema)
  <2>1. SUFFICES ASSUME Refused(schema)
                 PROVE  FALSE
    OBVIOUS
  <2>2. fbs = <<Fail(schema.err)>>
    BY <2>1 DEF fbs, GenerateFlatbufferComponents
  <2>3. Fail(schema.err) \in Range(fbs)
    BY <2>2, Listing
  <2> QED BY <1>3, <2>3 DEF Fail
<1>5. /\ Range(first) = {Save("Cargo.toml", {})}
      /\ Range(ends) = {Save("lib.rs", {}), Save("build.rs", {})}
      /\ Range(abi) = {boundary, types, Save("abi/mod.rs", {})}
  BY Listing DEF first, ends, abi
<1>6. Range(fbs) = {Save("abi/flatbuffer_gen/FlatbufferTypes.fbs",
                         SchemaFile(source.types, schema)),
                    Save("abi/flatbuffer_gen/EdlTypes.fbs", {}),
                    Save("abi/fb_support.rs", GenerateFlatbuffersWrapperModuleFile(abiTypes))}
  BY <1>4, Listing DEF fbs, GenerateFlatbufferComponents
<1> DEFINE second == IF layer = "Enclave"
                     THEN Save("implementation/trusted.rs",
                               [traits |-> BuildImplTraitModule(source.trusted)])
                     ELSE Save("implementation/untrusted.rs",
                               [traits |-> BuildImplTraitModule(source.untrusted)])
<1>7. Range(impl) = {Save("implementation/types.rs",
                          GenerateDeveloperTypesModuleFile(source.types)),
                     second, Save("implementation/mod.rs", {})}
  BY Listing DEF impl, GenerateImplementationModules
<1>8. Range(stub) = {stub[1], Save("stubs/mod.rs", {})}
  <2>1. stub = <<stub[1], Save("stubs/mod.rs", {})>>
    BY DEF stub, GenerateStubModules
  <2> QED BY <2>1, Listing
<1>9. /\ stub[1] = Save(stubs, stub[1].content)
      /\ second.kind = "save"
      /\ second.file \in {"implementation/trusted.rs", "implementation/untrusted.rs"}
      /\ boundary = Save("abi/definitions.rs", boundary.content)
  <2>1. CASE layer = "Enclave"
    BY <2>1 DEF stub, GenerateStubModules, Save, GenerateAbiBoundaryModule
  <2>2. CASE layer # "Enclave"
    BY <2>2 DEF stub, GenerateStubModules, Save, GenerateAbiBoundaryModule
  <2> QED BY <2>1, <2>2
<1>10. \A step \in all :
         \/ step = stub[1] \/ step = boundary \/ step = types
         \/ step = Save("implementation/types.rs", GenerateDeveloperTypesModuleFile(source.types))
         \/ step = Save("abi/flatbuffer_gen/FlatbufferTypes.fbs", SchemaFile(source.types, schema))
         \/ step.file \in {"Cargo.toml", "lib.rs", "build.rs", "abi/mod.rs", "stubs/mod.rs",
                           "implementation/mod.rs", "implementation/trusted.rs",
                           "implementation/untrusted.rs", "abi/flatbuffer_gen/EdlTypes.fbs",
                           "abi/fb_support.rs"}
  <2> HIDE DEF second, boundary, types, schema
  <2> QED BY <1>3, <1>5, <1>6, <1>7, <1>8, <1>9 DEF Save
<1>11. /\ stub[1] \in all /\ boundary \in all /\ types \in all
       /\ Save("implementation/types.rs", GenerateDeveloperTypesModuleFile(source.types)) \in all
       /\ Save("abi/flatbuffer_gen/FlatbufferTypes.fbs", SchemaFile(source.types, schema)) \in all
  BY <1>3, <1>5, <1>6, <1>7, <1>8
<1>12. stubs \in {"stubs/untrusted.rs", "stubs/trusted.rs"}
  OBVIOUS
<1> HIDE DEF second, boundary, stubs, schema, abiTypes
<1> QED BY <1>9, <1>10, <1>11, <1>12 DEF Writes, Save, types, boundary, stubs, schema, abiTypes, stub

(* Every line has the Rust generator, under one namespace.                 *)
RustBuild(namespace) ==
  \A line \in Range(project.lines) :
    Generator(edl, ParseLine(line)) =
      GenerateRust(edl, ParseLine(line).layer, namespace)

(* The state of a build that is done, with both layers on the disk.        *)
BothBuilt == stage = "built" /\ OneInput /\ BothLayers /\ OneSource /\ NothingMissing

(* The two halves of a Rust build are what one interface says.             *)
LEMMA RustBuilt ==
  ASSUME BothBuilt, NEW namespace, RustBuild(namespace)
  PROVE  /\ RustFiles(saved["Enclave"], saved["HostApp"], namespace, edl)
         /\ Same({"implementation/types.rs", "abi/abi_types.rs",
                  "abi/flatbuffer_gen/FlatbufferTypes.fbs"})
<1> DEFINE all(layer) == Range(GenerateRust(edl, layer, namespace))
           abiTypes   == CreateDeveloperTypesForABIFunctions(edl)
           schema     == SchemaFile(edl.types, GenerateFlatbufferSchema(edl.types, abiTypes))
           types      == GenerateDeveloperTypesModuleFile(edl.types)
           abi        == GenerateAbiTypesModuleFile(abiTypes)
<1>1. ASSUME NEW layer \in Layers
      PROVE  /\ \A step \in all(layer) : step.kind # "throw"
             /\ \A file, content : Writes(all(layer), file, content)
                                     => saved[layer][file] = content
  <2>1. \A line \in Range(project.lines) :
          ParseLine(line).layer = layer
            => Range(Generator(edl, ParseLine(line))) = all(layer)
    BY DEF RustBuild
  <2> HIDE DEF all
  <2> QED BY <2>1, Written DEF BothBuilt
<1>2. ASSUME NEW layer \in Layers
      PROVE  /\ saved[layer]["abi/definitions.rs"] =
                  GenerateAbiBoundaryModule(edl, layer, namespace).content
             /\ saved[layer][IF layer = "Enclave" THEN "stubs/untrusted.rs"
                             ELSE "stubs/trusted.rs"] =
                  GenerateStubModules(edl, layer, namespace)[1].content
             /\ saved[layer]["implementation/types.rs"] = types
             /\ saved[layer]["abi/abi_types.rs"] = abi
             /\ saved[layer]["abi/flatbuffer_gen/FlatbufferTypes.fbs"] = schema
  <2>1. /\ Writes(all(layer), "abi/definitions.rs",
                  GenerateAbiBoundaryModule(edl, layer, namespace).content)
        /\ Writes(all(layer), IF layer = "Enclave" THEN "stubs/untrusted.rs"
                              ELSE "stubs/trusted.rs",
                  GenerateStubModules(edl, layer, namespace)[1].content)
        /\ Writes(all(layer), "implementation/types.rs", types)
        /\ Writes(all(layer), "abi/abi_types.rs", abi)
        /\ Writes(all(layer), "abi/flatbuffer_gen/FlatbufferTypes.fbs", schema)
    BY <1>1, RustWrites
  <2> HIDE DEF all, types, abi, schema
  <2> QED BY <2>1, <1>1, Zenon
<1>3. "Enclave" \in Layers /\ "HostApp" \in Layers
  BY DEF Layers
<1> HIDE DEF types, abi, schema
<1>4. Same({"implementation/types.rs", "abi/abi_types.rs",
            "abi/flatbuffer_gen/FlatbufferTypes.fbs"})
  BY <1>2, <1>3 DEF Same
<1>5. RustFiles(saved["Enclave"], saved["HostApp"], namespace, edl)
  BY <1>2, <1>3 DEF RustFiles
<1> QED BY <1>4, <1>5

(* What an interface has to be like for its halves to fit: the functions   *)
(* of each side can be told apart by name and number.                      *)
Regular(source) ==
  \A functions \in {source.trusted, source.untrusted} :
    /\ Sequence(functions) /\ Numbered(functions)
    /\ \A f \in Range(functions) : Sequence(f.parameters)

(* And then they fit.                                                      *)
LEMMA RustFits ==
  ASSUME BothBuilt, Regular(edl), NEW namespace, RustBuild(namespace)
  PROVE  RustSidesAgree
<1> DEFINE F == Range(edl.trusted) \cup Range(edl.untrusted)
           P == UNION {Range(f.parameters) : f \in F}
<1>1. /\ edl.trusted \in Seq(F) /\ edl.untrusted \in Seq(F)
      /\ Numbered(edl.trusted) /\ Numbered(edl.untrusted)
  BY SeqMonotonic DEF Regular, Sequence
<1>2. ASSUME NEW f \in F
      PROVE  f.parameters \in Seq(P)
  <2>1. Range(f.parameters) \subseteq P /\ f.parameters \in Seq(Range(f.parameters))
    BY DEF Regular, Sequence
  <2> QED BY <2>1, SeqMonotonic
<1> HIDE DEF F, P
<1>3. StubsReach(saved["Enclave"], saved["HostApp"])
  BY <1>1, <1>2, RustBuilt, RustLayersFit
<1> QED BY <1>3, RustBuilt DEF RustSidesAgree

(* The files of a C++ half that the other half has or refers to.           *)
LEMMA CppWrites ==
  ASSUME NEW source, NEW layer \in Layers, NEW namespace, NEW types, NEW all,
         all = Range(CppSteps(source, layer, namespace, types)),
         \A step \in all : step.kind # "throw"
  PROVE  LET abiTypes  == CreateDeveloperTypesForABIFunctions(source)
             schema    == GenerateFlatbufferSchema(source.types, abiTypes)
             toEnclave == BuildHostToEnclaveFunctions(namespace, source.trusted)
             toHost    == BuildEnclaveToHostFunctions(namespace, source.untrusted)
             trusted   == SaveTrustedHeader(layer, toEnclave, toHost, namespace)
             untrusted == SaveUntrustedHeader(layer, toHost)
         IN  /\ Writes(all, "Abi/Definitions.h",
                       SaveAbiDefinitionsHeader(layer, toEnclave, toHost).content)
             /\ Writes(all, "Implementation/Types.h", types)
             /\ Writes(all, "Abi/AbiTypes.h", BuildAbiTypesHeader(abiTypes))
             /\ Writes(all, "Abi/TypeMetadata.h",
                       BuildAbiTypesMetadataHeader(source.types, abiTypes))
             /\ Writes(all, "Abi/FlatbufferTypes.fbs", SchemaFile(source.types, schema))
             /\ layer = "Enclave" =>
                  /\ Writes(all, "Abi/Exports.cpp",
                            BuildVtl1ExportedFunctionsSourcefile(namespace, source.trusted))
                  /\ Writes(all, "Abi/LinkerPragmas.cpp",
                            BuildVtl1PragmaStatementsSourcefile(namespace, source.trusted))
                  /\ Writes(all, "Stubs/Untrusted.h", untrusted.content)
             /\ layer = "HostApp" => Writes(all, "Stubs/Trusted.h", trusted.content)
<1> DEFINE abiTypes   == CreateDeveloperTypesForABIFunctions(source)
           schema     == GenerateFlatbufferSchema(source.types, abiTypes)
           toEnclave  == BuildHostToEnclaveFunctions(namespace, source.trusted)
           toHost     == BuildEnclaveToHostFunctions(namespace, source.untrusted)
           trusted    == SaveTrustedHeader(layer, toEnclave, toHost, namespace)
           untrusted  == SaveUntrustedHeader(layer, toHost)
           boundary   == SaveAbiDefinitionsHeader(layer, toEnclave, toHost)
           header     == Save("Implementation/Types.h", types)
           abi        == Save("Abi/AbiTypes.h", BuildAbiTypesHeader(abiTypes))
           metadata   == Save("Abi/TypeMetadata.h",
                              BuildAbiTypesMetadataHeader(source.types, abiTypes))
           fbs        == Save("Abi/FlatbufferTypes.fbs", SchemaFile(source.types, schema))
           exported   == Save("Abi/Exports.cpp",
                              BuildVtl1ExportedFunctionsSourcefile(namespace, source.trusted))
           pragmas    == Save("Abi/LinkerPragmas.cpp",
                              BuildVtl1PragmaStatementsSourcefile(namespace, source.trusted))
           exports    == <<exported, pragmas>>
           edlTypes   == Save("Abi/EdlTypes.fbs", {})
           compile    == Compile("Abi/FlatbufferTypes.fbs")
           second     == <<header, trusted, untrusted, boundary, abi, metadata, fbs,
                           edlTypes, compile>>
           first      == IF layer = "Enclave" THEN exports ELSE <<>>
<1>1. ~Refused(schema)
  <2>1. SUFFICES ASSUME Refused(schema)
                 PROVE  FALSE
    OBVIOUS
  <2>2. CppSteps(source, layer, namespace, types) = <<Fail(schema.err)>>
    BY <2>1 DEF CppSteps
  <2>3. Fail(schema.err) \in all
    BY <2>2, Listing
  <2> QED BY <2>3 DEF Fail
<1>2. CppSteps(source, layer, namespace, types) = first \o second
  BY <1>1 DEF CppSteps, Layers
<1>3. /\ Sequence(second)
      /\ Range(second) = {header, trusted, untrusted, boundary, abi, metadata, fbs, edlTypes, compile}
  BY Nine
<1>4. /\ Sequence(first)
      /\ Range(first) = IF layer = "Enclave" THEN {exported, pragmas} ELSE {}
  <2>1. Sequence(<<>>) /\ Range(<<>>) = {}
    BY EmptySequence DEF Range
  <2>2. Sequence(exports) /\ Range(exports) = {exported, pragmas}
    BY Listing
  <2> QED BY <2>1, <2>2
<1>5. all = Range(first) \cup Range(second)
  BY <1>2, <1>3, <1>4, Concatenated
<1>6. /\ header.kind = "save" /\ header.file = "Implementation/Types.h"
      /\ abi.kind = "save" /\ abi.file = "Abi/AbiTypes.h"
      /\ metadata.kind = "save" /\ metadata.file = "Abi/TypeMetadata.h"
      /\ fbs.kind = "save" /\ fbs.file = "Abi/FlatbufferTypes.fbs"
      /\ boundary.kind = "save" /\ boundary.file = "Abi/Definitions.h"
      /\ exported.kind = "save" /\ exported.file = "Abi/Exports.cpp"
      /\ pragmas.kind = "save" /\ pragmas.file = "Abi/LinkerPragmas.cpp"
      /\ edlTypes.file = "Abi/EdlTypes.fbs"
      /\ compile.kind = "compile"
  BY DEF Save, Compile, SaveAbiDefinitionsHeader
<1>7. /\ trusted.kind = "save"
      /\ trusted.file = IF layer = "Enclave" THEN "Implementation/Trusted.h" ELSE "Stubs/Trusted.h"
      /\ untrusted.kind = "save"
      /\ untrusted.file =
           IF layer = "Enclave" THEN "Stubs/Untrusted.h" ELSE "Implementation/Untrusted.h"
  BY DEF Save, SaveTrustedHeader, SaveUntrustedHeader
<1>8. /\ \A file, content : Save(file, content).content = content
      /\ trusted = Save(trusted.file, trusted.content)
      /\ untrusted = Save(untrusted.file, untrusted.content)
      /\ boundary = Save(boundary.file, boundary.content)
  BY DEF Save, SaveTrustedHeader, SaveUntrustedHeader, SaveAbiDefinitionsHeader
<1> HIDE DEF trusted, untrusted, boundary, edlTypes, compile, exports, first, second
<1>9. ASSUME NEW saving \in all, saving.kind = "save",
             \A step \in all : step.kind = "save" /\ step.file = saving.file => step = saving,
             saving = Save(saving.file, saving.content)
      PROVE  Writes(all, saving.file, saving.content)
  BY <1>9 DEF Writes
<1> DEFINE named(saving) ==
             /\ saving \in all
             /\ \A step \in all : step.kind = "save" /\ step.file = saving.file => step = saving
<1>10. named(header) /\ named(abi) /\ named(metadata) /\ named(fbs) /\ named(boundary)
  <2> HIDE DEF header, abi, metadata, fbs, exported, pragmas
  <2> QED BY <1>3, <1>4, <1>5, <1>6, <1>7
<1>11. named(trusted) /\ named(untrusted)
       /\ (layer = "Enclave" => named(exported) /\ named(pragmas))
  <2> HIDE DEF header, abi, metadata, fbs, exported, pragmas
  <2> QED BY <1>3, <1>4, <1>5, <1>6, <1>7
<1>12. \A saving : saving.kind = "save" /\ saving = Save(saving.file, saving.content)
                     /\ named(saving) => Writes(all, saving.file, saving.content)
  BY <1>9
<1>13. /\ header = Save(header.file, header.content) /\ header.content = types
       /\ abi = Save(abi.file, abi.content) /\ abi.content = BuildAbiTypesHeader(abiTypes)
       /\ metadata = Save(metadata.file, metadata.content)
       /\ metadata.content = BuildAbiTypesMetadataHeader(source.types, abiTypes)
       /\ fbs = Save(fbs.file, fbs.content)
       /\ fbs.content = SchemaFile(source.types, schema)
       /\ exported = Save(exported.file, exported.content)
       /\ exported.content = BuildVtl1ExportedFunctionsSourcefile(namespace, source.trusted)
       /\ pragmas = Save(pragmas.file, pragmas.content)
       /\ pragmas.content = BuildVtl1PragmaStatementsSourcefile(namespace, source.trusted)
  BY DEF Save
<1> HIDE DEF header, abi, metadata, fbs, exported, pragmas, named
<1>14. /\ Writes(all, boundary.file, boundary.content)
       /\ Writes(all, header.file, header.content)
       /\ Writes(all, abi.file, abi.content)
       /\ Writes(all, metadata.file, metadata.content)
       /\ Writes(all, fbs.file, fbs.content)
       /\ Writes(all, trusted.file, trusted.content)
       /\ Writes(all, untrusted.file, untrusted.content)
       /\ layer = "Enclave" => /\ Writes(all, exported.file, exported.content)
                               /\ Writes(all, pragmas.file, pragmas.content)
  BY <1>6, <1>7, <1>8, <1>10, <1>11, <1>12, <1>13, Zenon
<1>15. layer = "Enclave" => layer # "HostApp"
  OBVIOUS
<1> QED BY <1>6, <1>7, <1>13, <1>14, <1>15 DEF boundary, trusted, untrusted

(* Every line has the C++ generator, under one namespace, and the header   *)
(* of the developer's types is the same.                                   *)
CppBuild(namespace, types) ==
  \A line \in Range(project.lines) :
    Generator(edl, ParseLine(line)) =
      CppSteps(edl, ParseLine(line).layer, namespace, types)

(* The two halves of a C++ build are what one interface says.              *)
LEMMA CppBuilt ==
  ASSUME BothBuilt, NEW namespace, NEW types, CppBuild(namespace, types)
  PROVE  /\ CppFiles(saved["Enclave"], saved["HostApp"], namespace, edl.trusted, edl.untrusted)
         /\ Same({"Implementation/Types.h", "Abi/AbiTypes.h", "Abi/TypeMetadata.h",
                  "Abi/FlatbufferTypes.fbs"})
<1> DEFINE all(layer) == Range(CppSteps(edl, layer, namespace, types))
           abiTypes   == CreateDeveloperTypesForABIFunctions(edl)
           schema     == SchemaFile(edl.types, GenerateFlatbufferSchema(edl.types, abiTypes))
           abi        == BuildAbiTypesHeader(abiTypes)
           metadata   == BuildAbiTypesMetadataHeader(edl.types, abiTypes)
           toEnclave  == BuildHostToEnclaveFunctions(namespace, edl.trusted)
           toHost     == BuildEnclaveToHostFunctions(namespace, edl.untrusted)
<1>1. ASSUME NEW layer \in Layers
      PROVE  /\ \A step \in all(layer) : step.kind # "throw"
             /\ \A file, content : Writes(all(layer), file, content)
                                     => saved[layer][file] = content
  <2>1. \A line \in Range(project.lines) :
          ParseLine(line).layer = layer
            => Range(Generator(edl, ParseLine(line))) = all(layer)
    BY DEF CppBuild
  <2> HIDE DEF all
  <2> QED BY <2>1, Written DEF BothBuilt
<1>2. ASSUME NEW layer \in Layers
      PROVE  /\ Writes(all(layer), "Abi/Definitions.h",
                       SaveAbiDefinitionsHeader(layer, toEnclave, toHost).content)
             /\ Writes(all(layer), "Implementation/Types.h", types)
             /\ Writes(all(layer), "Abi/AbiTypes.h", abi)
             /\ Writes(all(layer), "Abi/TypeMetadata.h", metadata)
             /\ Writes(all(layer), "Abi/FlatbufferTypes.fbs", schema)
             /\ layer = "Enclave" =>
                  /\ Writes(all(layer), "Abi/Exports.cpp",
                            BuildVtl1ExportedFunctionsSourcefile(namespace, edl.trusted))
                  /\ Writes(all(layer), "Abi/LinkerPragmas.cpp",
                            BuildVtl1PragmaStatementsSourcefile(namespace, edl.trusted))
                  /\ Writes(all(layer), "Stubs/Untrusted.h",
                            SaveUntrustedHeader(layer, toHost).content)
             /\ layer = "HostApp" =>
                  Writes(all(layer), "Stubs/Trusted.h",
                         SaveTrustedHeader(layer, toEnclave, toHost, namespace).content)
  BY <1>1, CppWrites
<1>3. "Enclave" \in Layers /\ "HostApp" \in Layers
  BY DEF Layers
<1> HIDE DEF all, abi, metadata, schema, toEnclave, toHost
<1>4. ASSUME NEW layer \in Layers
      PROVE  /\ saved[layer]["Implementation/Types.h"] = types
             /\ saved[layer]["Abi/AbiTypes.h"] = abi
             /\ saved[layer]["Abi/TypeMetadata.h"] = metadata
             /\ saved[layer]["Abi/FlatbufferTypes.fbs"] = schema
             /\ saved[layer]["Abi/Definitions.h"] =
                  SaveAbiDefinitionsHeader(layer, toEnclave, toHost).content
  BY <1>1, <1>2, Zenon
<1>5. Same({"Implementation/Types.h", "Abi/AbiTypes.h", "Abi/TypeMetadata.h",
            "Abi/FlatbufferTypes.fbs"})
  BY <1>3, <1>4 DEF Same
<1>6. /\ saved["Enclave"]["Abi/Exports.cpp"] =
           BuildVtl1ExportedFunctionsSourcefile(namespace, edl.trusted)
      /\ saved["Enclave"]["Abi/LinkerPragmas.cpp"] =
           BuildVtl1PragmaStatementsSourcefile(namespace, edl.trusted)
      /\ saved["Enclave"]["Stubs/Untrusted.h"] = SaveUntrustedHeader("Enclave", toHost).content
      /\ saved["HostApp"]["Stubs/Trusted.h"] =
           SaveTrustedHeader("HostApp", toEnclave, toHost, namespace).content
  BY <1>1, <1>2, <1>3, Zenon
<1>7. CppFiles(saved["Enclave"], saved["HostApp"], namespace, edl.trusted, edl.untrusted)
  BY <1>3, <1>4, <1>6 DEF CppFiles, toEnclave, toHost
<1> QED BY <1>5, <1>7

(* And they fit, if no function has the name of the one that registers.    *)
LEMMA CppFits ==
  ASSUME BothBuilt, Regular(edl), NEW namespace, NEW types, CppBuild(namespace, types),
         \A i \in DOMAIN edl.trusted : AbiName(edl.trusted[i]) # RegisterCallbacks(namespace)
  PROVE  CppSidesAgree
<1> DEFINE F == Range(edl.trusted) \cup Range(edl.untrusted)
<1>1. /\ edl.trusted \in Seq(F) /\ edl.untrusted \in Seq(F)
      /\ Numbered(edl.trusted) /\ Numbered(edl.untrusted)
  BY SeqMonotonic DEF Regular, Sequence
<1> HIDE DEF F
<1>2. CallsResolve(saved["Enclave"], saved["HostApp"])
  BY <1>1, CppBuilt, CppLayersFit
<1> QED BY <1>2, CppBuilt DEF CppSidesAgree

-----------------------------------------------------------------------------
(* The generators, as the settings choose them.  The C++ one orders the    *)
(* developer's types in a way that depends on nothing but the interface.   *)
Generates ==
  \A source : \E types : \A s :
    /\ s.language = "c++" =>
         Generator(source, s) = CppSteps(source, s.layer, Namespace(s), types)
    /\ s.language = "rust" =>
         Generator(source, s) = GenerateRust(source, s.layer, Namespace(s))
    /\ s.language \notin {"c++", "rust"} => Generator(source, s) = <<>>

(* Lines for one interface have one generator.                             *)
LEMMA OneGenerator ==
  ASSUME Generates, BuildInv, BothBuilt, OneInterface
  PROVE  /\ settings.language \in {"c++", "rust"}
         /\ settings.language = "c++" => \E types : CppBuild(Namespace(settings), types)
         /\ settings.language = "rust" => RustBuild(Namespace(settings))
<1>1. PICK other \in Range(project.lines) : settings = ParseLine(other)
  BY DEF BothBuilt, BuildInv, Lines
<1>2. \A line \in Range(project.lines) :
        /\ ParseLine(line).language = settings.language
        /\ Namespace(ParseLine(line)) = Namespace(settings)
  <2>1. PICK j \in DOMAIN project.lines : other = project.lines[j]
    BY DEF Range
  <2>2. DOMAIN Ran = DOMAIN project.lines
        /\ \A i \in DOMAIN Ran : Ran[i] = ParseLine(project.lines[i])
    BY DEF Ran
  <2>3. SUFFICES ASSUME NEW line \in Range(project.lines)
                 PROVE  /\ ParseLine(line).language = settings.language
                        /\ Namespace(ParseLine(line)) = Namespace(settings)
    OBVIOUS
  <2>4. PICK i \in DOMAIN project.lines : line = project.lines[i]
    BY DEF Range
  <2> QED BY <1>1, <2>1, <2>2, <2>4 DEF OneInterface
<1>3. PICK types : \A s :
        /\ s.language = "c++" =>
             Generator(edl, s) = CppSteps(edl, s.layer, Namespace(s), types)
        /\ s.language = "rust" =>
             Generator(edl, s) = GenerateRust(edl, s.layer, Namespace(s))
        /\ s.language \notin {"c++", "rust"} => Generator(edl, s) = <<>>
  BY DEF Generates
<1>4. settings.language = "c++" => CppBuild(Namespace(settings), types)
  BY <1>2, <1>3 DEF CppBuild
<1>5. settings.language = "rust" => RustBuild(Namespace(settings))
  BY <1>2, <1>3 DEF RustBuild
<1>6. settings.language \in {"c++", "rust"}
  <2>1. PICK file \in DOMAIN saved["Enclave"] : TRUE
    BY DEF BothBuilt, BothLayers, Layers
  <2>2. PICK line \in Range(project.lines) :
          Saves(edl, line, "Enclave", file, saved["Enclave"][file])
    BY <2>1 DEF BothBuilt, OneSource, Layers
  <2>3. Range(Generator(edl, ParseLine(line))) # {}
    BY <2>2 DEF Saves
  <2>4. Range(<<>>) = {}
    BY DEF Range
  <2> QED BY <1>2, <1>3, <2>3, <2>4
<1> QED BY <1>4, <1>5, <1>6

(* A caller does not disturb the build.                                    *)
LEMMA CallsApart == ToolSafety => Safety
<1>1. ToolInit => Init
  BY DEF ToolInit
<1>2. [ToolNext]_ToolVars => [Next]_vars
  BY DEF ToolNext, ToolVars, Call
<1> QED BY <1>1, <1>2, PTL DEF ToolSafety, Safety

(* Either generator is a sequence of steps.                                *)
LEMMA CppStepwise ==
  ASSUME NEW source, NEW layer, NEW namespace, NEW types
  PROVE  Sequence(CppSteps(source, layer, namespace, types))
<1>1. \A a, b, c, d, e, f, g, h, i : Sequence(<<a, b, c, d, e, f, g, h, i>>)
  BY Nine
<1>2. Sequence(<<>>) /\ \A a : Sequence(<<a>>) /\ \A b : Sequence(<<a, b>>)
  BY EmptySequence, Listing
<1>3. \A s, t : Sequence(s) /\ Sequence(t) => Sequence(s \o t)
  BY Concatenated
<1> DEFINE schema == GenerateFlatbufferSchema(source.types, CreateDeveloperTypesForABIFunctions(source))
<1>4. CASE Refused(schema)
  BY <1>2, <1>4 DEF CppSteps
<1>5. CASE ~Refused(schema) /\ layer \notin {"Enclave", "HostApp"}
  BY <1>2, <1>5 DEF CppSteps
<1>6. CASE ~Refused(schema) /\ layer \in {"Enclave", "HostApp"}
  BY <1>1, <1>2, <1>3, <1>6 DEF CppSteps
<1> QED BY <1>4, <1>5, <1>6

(* The Rust one too,                                                       *)
LEMMA RustStepwise ==
  ASSUME NEW source, NEW layer, NEW namespace
  PROVE  Sequence(GenerateRust(source, layer, namespace))
<1>1. /\ \A a : Sequence(<<a>>)
      /\ \A a, b : Sequence(<<a, b>>)
      /\ \A a, b, c : Sequence(<<a, b, c>>)
  BY Listing
<1>2. \A s, t : Sequence(s) /\ Sequence(t) => Sequence(s \o t)
  BY Concatenated
<1>3. /\ Sequence(GenerateImplementationModules(source, layer))
      /\ Sequence(GenerateStubModules(source, layer, namespace))
  BY <1>1 DEF GenerateImplementationModules, GenerateStubModules
<1>4. \A abiTypes : Sequence(GenerateFlatbufferComponents(source, abiTypes))
  BY <1>1 DEF GenerateFlatbufferComponents
<1>5. Sequence(GenerateAbiModules(source, layer, namespace))
  BY <1>1, <1>2, <1>4 DEF GenerateAbiModules
<1> QED BY <1>1, <1>2, <1>3, <1>5 DEF GenerateRust

(* so whichever the settings choose.                                       *)
LEMMA GeneratesSteps ==
  ASSUME Generates
  PROVE  Stepwise
<1>1. SUFFICES ASSUME NEW source, NEW s
               PROVE  Sequence(Generator(source, s))
  BY DEF Stepwise
<1>2. PICK types :
        /\ s.language = "c++" =>
             Generator(source, s) = CppSteps(source, s.layer, Namespace(s), types)
        /\ s.language = "rust" =>
             Generator(source, s) = GenerateRust(source, s.layer, Namespace(s))
        /\ s.language \notin {"c++", "rust"} => Generator(source, s) = <<>>
  BY DEF Generates
<1> QED BY <1>2, CppStepwise, RustStepwise, EmptySequence

(* What a build keeps.                                                     *)
LEMMA BuildKeeps ==
  ASSUME Generates
  PROVE  ToolSafety => [](BuildInv /\ OneSource /\ NothingMissing)
<1>1. Init => BuildInv
  BY InitBuild
<1>2. BuildInv /\ [Next]_vars => BuildInv'
  BY NextBuild, GeneratesSteps
<1>3. Safety => []BuildInv
  BY <1>1, <1>2, PTL DEF Safety
<1> QED BY <1>3, GeneratesSteps, CallsApart, BuiltFromOneSource, BuiltCompletely, PTL

(* What the functions of an interface need: those of a side have names of  *)
(* their own, and none has the name of the one that registers callbacks.   *)
ToldApart ==
  /\ Regular(edl)
  /\ \A i \in DOMAIN edl.trusted :
        AbiName(edl.trusted[i]) # RegisterCallbacks(Namespace(settings))

(* Two runs of the tool, one for each layer, make two halves that fit:     *)
(* every stub of either half reaches the function it is for in the other,  *)
(* callbacks are found under the names they are registered under, and both *)
(* declare the same structures.  The halves are made by processes that     *)
(* share nothing but the files they read (main, CppCodeGenerator::Generate,*)
(* RustCodeGenerator::Generate).                                           *)
THEOREM HalvesFit ==
  ASSUME Generates
  PROVE  ToolSafety => [](ToldApart => SidesAgree)
<1>1. BuildInv /\ OneSource /\ NothingMissing => (ToldApart => SidesAgree)
  <2> SUFFICES ASSUME BuildInv, OneSource, NothingMissing, ToldApart,
                      stage = "built", BothLayers, OneInterface
               PROVE  IF settings.language = "c++" THEN CppSidesAgree ELSE RustSidesAgree
    BY DEF SidesAgree
  <2>1. BothBuilt
    BY DEF BothBuilt, OneInterface
  <2>2. CASE settings.language = "c++"
    <3>1. PICK types : CppBuild(Namespace(settings), types)
      BY <2>1, <2>2, OneGenerator
    <3> QED BY <2>1, <2>2, <3>1, CppFits DEF ToldApart
  <2>3. CASE settings.language # "c++"
    <3>1. RustBuild(Namespace(settings))
      BY <2>1, <2>3, OneGenerator
    <3> QED BY <2>1, <2>3, <3>1, RustFits DEF ToldApart
  <2> QED BY <2>2, <2>3
<1> QED BY <1>1, BuildKeeps, PTL

-----------------------------------------------------------------------------
(* Calls through what was built.                                           *)

(* The last call was made on this build.                                   *)
Calling ==
  \/ last = NoCall
  \/ /\ stage = "built" /\ BothLayers
     /\ \E side \in {"trusted", "untrusted"} :
          \E i \in DOMAIN StubsOf(side, settings.language) : \E args \in Arguments(edl[side][i]) :
            last = [function |-> edl[side][i], args |-> args,
                    result |-> Outcome(side, settings.language, i, args)]

(* A build that is done stays as it is.                                    *)
LEMMA BuiltStays ==
  ASSUME stage = "built", Next
  PROVE  UNCHANGED vars
<1>1. ~Run
  BY DEF Run, LineRejected, ShowHelp, FailureToLoadFile, StartParsing, ReadLine,
         Trusted, Untrusted, Enumeration, Structure, UnexpectedToken, Construct, Import,
         EndOfFile, Thrown, SaveFile, SaveFails, GeneratorThrows, CompileFlatbufferFile,
         CompilerFails, Step, Finished
<1> QED BY <1>1 DEF Next, Over

(* Then what the disk has to offer a caller stays too,                     *)
LEMMA DiskStays ==
  ASSUME UNCHANGED vars
  PROVE  /\ stage' = stage /\ edl' = edl /\ settings' = settings /\ BothLayers' = BothLayers
         /\ \A side, language : StubsOf(side, language)' = StubsOf(side, language)
         /\ \A side, language, i, args :
              Outcome(side, language, i, args)' = Outcome(side, language, i, args)
<1>1. /\ stage' = stage /\ edl' = edl /\ settings' = settings /\ saved' = saved
  BY DEF vars
<1>2. BothLayers' = BothLayers
  BY <1>1 DEF BothLayers
<1>3. \A side, language : StubsOf(side, language)' = StubsOf(side, language)
  BY <1>1 DEF StubsOf, Stubs
<1>4. \A side : ClosuresOf(side)' = ClosuresOf(side)
  BY <1>1 DEF ClosuresOf
<1>5. \A side, language, i, args :
        Outcome(side, language, i, args)' = Outcome(side, language, i, args)
  BY <1>1, <1>3, <1>4, Zenon DEF Outcome
<1> QED BY <1>1, <1>2, <1>3, <1>5

(* a call through it is one through it after the step,                      *)
LEMMA CallStands ==
  ASSUME UNCHANGED vars, stage = "built", BothLayers,
         NEW side \in {"trusted", "untrusted"}, NEW i \in DOMAIN StubsOf(side, settings.language),
         \E args \in Arguments(edl[side][i]) :
           last' = [function |-> edl[side][i], args |-> args,
                    result |-> Outcome(side, settings.language, i, args)]
  PROVE  Calling'
<1>1. stage' = "built" /\ BothLayers' /\ edl' = edl /\ settings' = settings
  BY DiskStays
<1>2. StubsOf(side, settings.language)' = StubsOf(side, settings.language)
  BY <1>1, DiskStays
<1>3. \A args : Outcome(side, settings.language, i, args)' = Outcome(side, settings.language, i, args)
  BY <1>1, DiskStays
<1>4. \E args \in Arguments(edl'[side][i]) :
        last' = [function |-> edl'[side][i], args |-> args,
                 result |-> Outcome(side, settings.language, i, args)']
  BY <1>1, <1>3
<1>5. i \in DOMAIN (StubsOf(side, settings.language)')
  BY <1>2
<1> QED BY <1>1, <1>4, <1>5 DEF Calling

(* and so does what was called.                                            *)
LEMMA CallStays ==
  ASSUME Calling, UNCHANGED vars, last' = last
  PROVE  Calling'
<1>1. CASE last = NoCall
  BY <1>1 DEF Calling, NoCall
<1>2. CASE last # NoCall
  <2>1. PICK side \in {"trusted", "untrusted"} :
          \E i \in DOMAIN StubsOf(side, settings.language) : \E args \in Arguments(edl[side][i]) :
            last = [function |-> edl[side][i], args |-> args,
                    result |-> Outcome(side, settings.language, i, args)]
    BY <1>2, Zenon DEF Calling
  <2>2. stage = "built" /\ BothLayers
    BY <1>2, Zenon DEF Calling
  <2>3. PICK i \in DOMAIN StubsOf(side, settings.language) : \E args \in Arguments(edl[side][i]) :
          last' = [function |-> edl[side][i], args |-> args,
                   result |-> Outcome(side, settings.language, i, args)]
    BY <2>1, Zenon
  <2> QED BY <2>2, <2>3, CallStands
<1> QED BY <1>1, <1>2, Zenon

(* So a call is a call through what is on the disk.                        *)
LEMMA CallsOnBuild == ToolSafety => []Calling
<1>1. ToolInit => Calling
  BY DEF ToolInit, Calling
<1>2. ASSUME Calling, ToolNext
      PROVE  Calling'
  <2>1. CASE Next /\ UNCHANGED last
    <3>1. CASE last = NoCall
      BY <2>1, <3>1 DEF Calling, NoCall
    <3>2. CASE last # NoCall
      <4>1. UNCHANGED vars /\ last' = last
        BY <1>2, <2>1, <3>2, BuiltStays, Zenon DEF Calling
      <4> QED BY <1>2, <4>1, CallStays
    <3> QED BY <3>1, <3>2
  <2>2. ASSUME NEW side \in {"trusted", "untrusted"}, Call(side)
        PROVE  Calling'
    <3>1. PICK i \in DOMAIN StubsOf(side, settings.language) :
            \E args \in Arguments(edl[side][i]) :
              last' = [function |-> edl[side][i], args |-> args,
                       result |-> Outcome(side, settings.language, i, args)]
      BY <2>2 DEF Call
    <3>2. UNCHANGED vars /\ stage = "built" /\ BothLayers
      BY <2>2 DEF Call
    <3> QED BY <3>1, <3>2, CallStands
  <2> QED BY <1>2, <2>1, <2>2 DEF ToolNext
<1>3. Calling /\ UNCHANGED ToolVars => Calling'
  BY CallStays DEF ToolVars
<1> QED BY <1>1, <1>2, <1>3, PTL DEF ToolSafety

(* A call through a C++ stub on the disk,                                  *)
LEMMA CppCalls ==
  ASSUME BothBuilt, NEW namespace, NEW types, CppBuild(namespace, types),
         NEW side \in {"trusted", "untrusted"}, NEW i \in DOMAIN StubsOf(side, "c++"),
         Accepted(edl[side][i]), NEW args \in Arguments(edl[side][i])
  PROVE  Arrive("c++", edl[side][i], args, Outcome(side, "c++", i, args))
           <=> ~Broken("c++", edl[side][i])
<1>1. CppFiles(saved["Enclave"], saved["HostApp"], namespace, edl.trusted, edl.untrusted)
  BY CppBuilt
<1>2. /\ saved["HostApp"]["Stubs/Trusted.h"].stubs =
           [j \in DOMAIN edl.trusted |-> BuildStubFunction(edl.trusted[j], AbiName(edl.trusted[j]))]
      /\ saved["Enclave"]["Stubs/Untrusted.h"].stubs =
           [j \in DOMAIN edl.untrusted |->
              BuildStubFunction(edl.untrusted[j], CallbackName(namespace, edl.untrusted[j]))]
  BY <1>1 DEF CppFiles, SaveTrustedHeader, SaveUntrustedHeader, Save, BuildHostToEnclaveFunctions,
              BuildEnclaveToHostFunctions
<1>3. DOMAIN <<>> = {}
  OBVIOUS
<1>4. \E target : StubsOf(side, "c++")[i] = BuildStubFunction(edl[side][i], target)
  <2>1. CASE side = "trusted"
    <3>1. StubsOf(side, "c++") = saved["HostApp"]["Stubs/Trusted.h"].stubs
      BY <1>3, <2>1 DEF StubsOf, Stubs
    <3> QED BY <1>2, <2>1, <3>1
  <2>2. CASE side = "untrusted"
    <3>1. StubsOf(side, "c++") = saved["Enclave"]["Stubs/Untrusted.h"].stubs
      BY <1>3, <2>2 DEF StubsOf, Stubs
    <3> QED BY <1>2, <2>2, <3>1
  <2> QED BY <2>1, <2>2
<1>5. PICK target : StubsOf(side, "c++")[i] = BuildStubFunction(edl[side][i], target)
  BY <1>4
<1>6. Outcome(side, "c++", i, args) =
        CallCpp(edl[side][i], BuildStubFunction(edl[side][i], target), args)
  BY <1>5 DEF Outcome
<1> QED BY <1>6, CppStubsDeliver

(* and through a Rust one, to the closure of the other half.               *)
LEMMA RustCalls ==
  ASSUME BothBuilt, NEW namespace, RustBuild(namespace),
         NEW side \in {"trusted", "untrusted"}, NEW i \in DOMAIN StubsOf(side, "rust"),
         Accepted(edl[side][i]), ~Broken("rust", edl[side][i]),
         NEW args \in Arguments(edl[side][i])
  PROVE  Arrive("rust", edl[side][i], args, Outcome(side, "rust", i, args))
<1> DEFINE layer == IF side = "trusted" THEN "Enclave" ELSE "HostApp"
<1>1. RustFiles(saved["Enclave"], saved["HostApp"], namespace, edl)
  BY RustBuilt
<1>2. DOMAIN <<>> = {}
  OBVIOUS
<1>3. StubsOf(side, "rust") = BuildStubTraitModule(edl[side])
  <2>1. CASE side = "trusted"
    <3>1. StubsOf(side, "rust") = saved["HostApp"]["stubs/trusted.rs"].stubs
      BY <1>2, <2>1 DEF StubsOf, Stubs
    <3> QED BY <1>1, <2>1, <3>1 DEF RustFiles, GenerateStubModules, Save
  <2>2. CASE side = "untrusted"
    <3>1. StubsOf(side, "rust") = saved["Enclave"]["stubs/untrusted.rs"].stubs
      BY <1>2, <2>2 DEF StubsOf, Stubs
    <3> QED BY <1>1, <2>2, <3>1 DEF RustFiles, GenerateStubModules, Save
  <2> QED BY <2>1, <2>2
<1>4. ClosuresOf(side) = BuildAbiDefinitionModule(layer, namespace, edl[side]).abi
  <2>1. CASE side = "trusted"
    BY <1>1, <2>1 DEF RustFiles, GenerateAbiBoundaryModule, Save, ClosuresOf
  <2>2. CASE side = "untrusted"
    BY <1>1, <2>2 DEF RustFiles, GenerateAbiBoundaryModule, Save, ClosuresOf
  <2> QED BY <2>1, <2>2
<1>5. i \in DOMAIN edl[side]
  BY <1>3 DEF BuildStubTraitModule
<1>6. Outcome(side, "rust", i, args) =
        CallRust(edl[side][i], BuildStubTraitModule(edl[side])[i],
                 BuildAbiDefinitionModule(layer, namespace, edl[side]).abi[i].closure, args)
  BY <1>3, <1>4 DEF Outcome
<1> HIDE DEF layer
<1> QED BY <1>5, <1>6, RustStubsDeliver

(* A call through a stub that a build wrote gives the implementation what  *)
(* the caller gave, and the caller what the implementation wrote, but for  *)
(* the functions that Broken names: after any build of any interface, for  *)
(* every function whose parameters have names and directions, and every    *)
(* argument (BuildStubFunction, the templates of Rust/Constants.h,         *)
(* ConversionHelpers.h).                                                   *)
THEOREM CallsDeliver ==
  ASSUME Generates
  PROVE  ToolSafety =>
           [](OneInterface /\ (last # NoCall => Accepted(last.function)) => ValuesArrive)
<1>1. BuildInv /\ OneSource /\ NothingMissing /\ Calling
        => (OneInterface /\ (last # NoCall => Accepted(last.function)) => ValuesArrive)
  <2> SUFFICES ASSUME BuildInv, OneSource, NothingMissing, Calling, OneInterface,
                      last # NoCall, Accepted(last.function),
                      ~Broken(settings.language, last.function)
               PROVE  Arrive(settings.language, last.function, last.args, last.result)
    BY DEF ValuesArrive
  <2>1. BothBuilt
    BY DEF BothBuilt, OneInterface, Calling
  <2>2. PICK side \in {"trusted", "untrusted"} :
          \E i \in DOMAIN StubsOf(side, settings.language) : \E args \in Arguments(edl[side][i]) :
            last = [function |-> edl[side][i], args |-> args,
                    result |-> Outcome(side, settings.language, i, args)]
    BY DEF Calling
  <2>3. PICK i \in DOMAIN StubsOf(side, settings.language) : \E args \in Arguments(edl[side][i]) :
          last = [function |-> edl[side][i], args |-> args,
                  result |-> Outcome(side, settings.language, i, args)]
    BY <2>2
  <2>4. PICK args \in Arguments(edl[side][i]) :
          last = [function |-> edl[side][i], args |-> args,
                  result |-> Outcome(side, settings.language, i, args)]
    BY <2>3
  <2>5. /\ last.function = edl[side][i] /\ last.args = args
        /\ last.result = Outcome(side, settings.language, i, args)
    BY <2>4
  <2>6. CASE settings.language = "c++"
    <3>1. PICK types : CppBuild(Namespace(settings), types)
      BY <2>1, <2>6, OneGenerator
    <3> QED BY <2>1, <2>5, <2>6, <3>1, CppCalls
  <2>7. CASE settings.language = "rust"
    <3>1. RustBuild(Namespace(settings))
      BY <2>1, <2>7, OneGenerator
    <3> QED BY <2>1, <2>5, <2>7, <3>1, RustCalls
  <2> QED BY <2>1, <2>6, <2>7, OneGenerator
<1> QED BY <1>1, BuildKeeps, CallsOnBuild, PTL

=============================================================================
