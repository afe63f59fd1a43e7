--------------------------- MODULE UserBoundKeyProofs ---------------------------
(***************************************************************************)
(* Every session is somebody's to close, for any number of calls, threads, *)
(* challenges and failures, a key is refused for the reasons given, and    *)
(* calls do not wait for each other for ever.                              *)
(***************************************************************************)
EXTENDS UserBoundKey, FiniteSetTheorems, TLAPS

USE DEF None

(* A step that moves one call, with its arguments or without, and nothing  *)
(* that TypeOK ties to where the call is.                                  *)
LEMMA Moves ==
  ASSUME TypeOK, NEW c \in Callers, NEW l \in Pcs, Goto(c, l),
         \/ UNCHANGED call
         \/ \E r \in Call : call' = [call EXCEPT ![c] = r]
  PROVE  /\ pc' \in [Callers -> Pcs] /\ call' \in [Callers -> Call]
         /\ pc'[c] = l /\ \A d \in Callers \ {c} : pc'[d] = pc[d]
BY DEF TypeOK, Types, Goto

LEMMA Tries ==
  ASSUME TypeOK, NEW c \in Callers, NEW l \in Pcs, Try(c, l) \/ Fail(c) \/ Pass(c, l)
                                                     \/ Leave(c, l)
  PROVE  /\ pc' \in [Callers -> Pcs] /\ call' \in [Callers -> Call]
         /\ pc'[c] \in {l, "cleanup"} /\ \A d \in Callers \ {c} : pc'[d] = pc[d]
<1>1. NoCall \in Call /\ "cleanup" \in Pcs
  BY DEF Call, Pcs
<1>2. CASE Pass(c, l)
  BY <1>2, Moves DEF Pass
<1>3. CASE Fail(c)
  BY <1>1, <1>3, Moves DEF Fail, Leave
<1>4. CASE Leave(c, l)
  BY <1>1, <1>4, Moves DEF Leave
<1> QED
  BY <1>2, <1>3, <1>4 DEF Try

(* What a caller holds, place by place.                                    *)
LEMMA HoldType ==
  ASSUME TypeOK, NEW c \in Callers
  PROVE  /\ hold[c] \in [Places -> Sessions \cup {None}]
         /\ hold[c]["report"] \in Sessions \cup {None}
         /\ hold[c]["host"] \in Sessions \cup {None}
         /\ hold[c]["return"] \in Sessions \cup {None}
         /\ hold[c]["enclave"] \in Sessions \cup {None}
BY DEF TypeOK, Types, Places

LEMMA InitType == Init => TypeOK /\ HandlesOwned
<1> SUFFICES ASSUME Init PROVE TypeOK /\ HandlesOwned
  OBVIOUS
<1>1. \A c \in Callers, p \in Places : hold[c][p] = None
  BY DEF Init, Nothing
<1>2. NoCall \in Call /\ Len(<<>>) = 0 /\ <<>> \in Seq([name : Names, option : Nat])
  BY DEF Call
<1>3. /\ keys \in Seq([name : Names, option : Nat])
      /\ store \in [Names -> 0..Len(keys)] /\ cred \in [Callers -> 0..Len(keys)]
  BY <1>2 DEF Init
<1>4. Nothing \in [Places -> Sessions \cup {None}]
  BY DEF Nothing
<1>5. Types
  BY <1>2, <1>3, <1>4 DEF Init, Types, Pcs
<1>6. \A c \in Callers : callback[c] = "none" /\ cred[c] = 0 /\ pc[c] = "idle"
  BY DEF Init
<1>7. TypeOK
  BY <1>1, <1>5, <1>6 DEF TypeOK, Places, InSession
<1> QED
  BY <1>1, <1>7 DEF HandlesOwned, Init

(* A handle is put somewhere, taken away (v = None) or passed on.          *)
LEMMA Puts ==
  ASSUME TypeOK, NEW c \in Callers, NEW p \in Places, NEW v \in Sessions \cup {None},
         hold' = [hold EXCEPT ![c][p] = v]
  PROVE  /\ hold' \in [Callers -> [Places -> Sessions \cup {None}]]
         /\ hold'[c][p] = v
         /\ \A d \in Callers, q \in Places :
              d # c \/ q # p => hold'[d][q] = hold[d][q]
BY DEF TypeOK, Types

LEMMA Passes ==
  ASSUME TypeOK, NEW c \in Callers, NEW p \in Places, NEW q \in Places, p # q,
         hold' = [hold EXCEPT ![c][q] = hold[c][p], ![c][p] = None]
  PROVE  /\ hold' \in [Callers -> [Places -> Sessions \cup {None}]]
         /\ hold'[c][p] = None /\ hold'[c][q] = hold[c][p]
         /\ \A d \in Callers, r \in Places :
              d # c \/ r \notin {p, q} => hold'[d][r] = hold[d][r]
BY DEF TypeOK, Types

(* What the calls have for arguments.                                      *)
LEMMA Arguments ==
  ASSUME TypeOK, NEW c \in Callers
  PROVE  /\ call[c].op = "create" =>
              call[c].name \in Names /\ ConvertCacheConfig(call[c].option) \in Nat
         /\ call[c].op = "load" => call[c].name \in Names /\ call[c].key \in Nat
<1>1. call[c] \in Call
  BY DEF TypeOK, Types
<1>2. CASE call[c] = NoCall
  BY <1>2 DEF NoCall
<1>3. CASE call[c] \in [op : {"create"}, name : Names, option : Options]
  BY <1>3, UserBoundKeyAssumption DEF ConvertCacheConfig
<1>4. CASE call[c] \in [op : {"load"}, name : Names, key : Nat]
  BY <1>4
<1> QED
  BY <1>1, <1>2, <1>3, <1>4 DEF Call

LEMMA NextType == TypeOK /\ HandlesOwned /\ [Next]_vars => TypeOK'
<1> SUFFICES ASSUME TypeOK, HandlesOwned, [Next]_vars PROVE TypeOK'
  OBVIOUS
<1> USE DEF flow, host, crypto, session, system
<1>0. /\ {"idle", "format", "establish", "request", "unwind", "return", "cleanup",
            "rac", "context", "protect", "dss", "unprotect"} \subseteq Pcs
      /\ InSession = {"rac", "context", "protect", "dss", "unprotect"}
  BY DEF Pcs, InSession
<1>1. Places = {"report", "host", "return", "enclave"} /\ None \notin Sessions
  BY DEF Places, Sessions
<1>2. Len(keys) \in Nat
  BY DEF TypeOK, Types
<1>3. CASE UNCHANGED vars
  BY <1>3 DEF vars, TypeOK, Types
<1>4. CASE Next
  <2> SUFFICES ASSUME NEW c \in Callers,
                      \/ \E n \in Names :
                           \/ \E o \in Options : CreateUserBoundKey(c, n, o)
                           \/ \E k \in sealed \cup {0}, stale \in BOOLEAN :
                                LoadUserBoundKey(c, n, k, stale)
                      \/ Challenge(c) \/ HostStep(c) \/ Step(c)
               PROVE  TypeOK'
    BY <1>4 DEF Next
  <2> HIDE DEF None
  <2>1. ASSUME NEW r \in Call, NEW l \in {"format", "cleanup"}, Begin(c, r, l)
        PROVE  TypeOK'
    <3>1. /\ pc' \in [Callers -> Pcs] /\ call' \in [Callers -> Call]
          /\ pc'[c] = l /\ \A d \in Callers \ {c} : pc'[d] = pc[d]
      BY <1>0, <2>1, Moves DEF Begin
    <3>2. pc[c] = "idle"
      BY <2>1 DEF Begin, At
    <3> QED
      BY <1>0, <2>1, <3>1, <3>2 DEF Begin, TypeOK, Types
  <2>2. ASSUME NEW n \in Names, NEW o \in Options, CreateUserBoundKey(c, n, o)
        PROVE  TypeOK'
    <3>1. [op |-> "create", name |-> n, option |-> o] \in Call
      BY DEF Call
    <3> QED
      BY <2>1, <2>2, <3>1 DEF CreateUserBoundKey
  <2>3. ASSUME NEW n \in Names, NEW k \in sealed \cup {0}, NEW stale \in BOOLEAN,
               LoadUserBoundKey(c, n, k, stale)
        PROVE  TypeOK'
    <3>1. k \in Nat
      BY DEF TypeOK, Types
    <3>2. [op |-> "load", name |-> n, key |-> k] \in Call /\ NoCall \in Call
      BY <3>1 DEF Call
    <3> QED
      BY <2>1, <2>3, <3>2 DEF LoadUserBoundKey
  <2>4. CASE FormatKeyName(c)
    <3>1. /\ pc' \in [Callers -> Pcs] /\ call' \in [Callers -> Call]
          /\ pc'[c] \in {"establish", "cleanup"} /\ pc[c] = "format"
          /\ \A d \in Callers \ {c} : pc'[d] = pc[d]
      BY <1>0, <2>4, Tries DEF FormatKeyName, At
    <3> QED
      BY <1>0, <2>4, <3>1 DEF FormatKeyName, TypeOK, Types
  <2>5. CASE Establish(c)
    <3>1. /\ pc' \in [Callers -> Pcs] /\ call' \in [Callers -> Call]
          /\ pc'[c] \in {"request", "cleanup"}
          /\ \A d \in Callers \ {c} : pc'[d] = pc[d]
      BY <1>0, <2>5, Tries DEF Establish
    <3>2. /\ pc[c] = "establish" /\ store \in [Names -> 0..Len(keys)]
          /\ \/ store' = [store EXCEPT ![call[c].name] = 0]
             \/ store' = store
      BY <2>5 DEF Establish, At, TypeOK, Types
    <3>3. store' \in [Names -> 0..Len(keys)]
      BY <1>2, <3>2
    <3> QED
      BY <1>0, <2>5, <3>1, <3>2, <3>3 DEF Establish, TypeOK, Types
  <2>6. CASE Challenge(c)
    BY <2>6 DEF Challenge, TypeOK, Types
  <2>7. CASE EnterEnclave(c)
    BY <2>7 DEF EnterEnclave, TypeOK, Types
  <2>8. CASE Attest(c)
    <3>1. ASSUME UNCHANGED hold, callback' = [callback EXCEPT ![c] = "none"],
                 open' \subseteq Sessions, lost' \subseteq open'
          PROVE  TypeOK'
      BY <2>8, <3>1 DEF Attest, TypeOK, Types
    <3>2. ASSUME NEW s \in Fresh, hold' = [hold EXCEPT ![c]["report"] = s],
                 callback' = [callback EXCEPT ![c] = "store"],
                 open' = open \cup {s}, UNCHANGED lost
          PROVE  TypeOK'
      <4>1. s \in Sessions
        BY DEF Fresh
      <4>2. /\ hold' \in [Callers -> [Places -> Sessions \cup {None}]]
            /\ hold'[c]["report"] = s
            /\ \A d \in Callers, q \in Places :
                 d # c \/ q # "report" => hold'[d][q] = hold[d][q]
        BY <1>1, <3>2, <4>1, Puts
      <4> QED
        BY <1>1, <2>8, <3>2, <4>1, <4>2, SMTT(60) DEF Attest, TypeOK, Types
    <3>3. Fresh \subseteq Sessions /\ open \subseteq Sessions /\ lost \subseteq open
      BY DEF Fresh, TypeOK, Types
    <3> QED
      BY <2>8, <3>1, <3>2, <3>3 DEF Attest
  <2>9. ASSUME Reset(c), UNCHANGED <<callback, flow, challenges, crypto, cred, system,
                                     sealed, terminated>>
        PROVE  TypeOK'
    <3>1. /\ hold' \in [Callers -> [Places -> Sessions \cup {None}]]
          /\ hold'[c]["host"] = None
          /\ \A d \in Callers, q \in Places :
               d # c \/ q # "host" => hold'[d][q] = hold[d][q]
      BY <1>1, <2>9, Puts DEF Reset
    <3>2. hold[c]["host"] \in open \ lost
      BY <1>1, <2>9 DEF Reset, HandlesOwned
    <3>3. CASE Close(hold[c]["host"]) /\ UNCHANGED lost
      <4>1. /\ asked' \in [Sessions -> Nat]
            /\ open' \subseteq Sessions /\ lost' \subseteq open'
        BY <3>2, <3>3 DEF Close, TypeOK, Types
      <4> QED
        BY <1>1, <2>9, <3>1, <4>1, SMTT(60) DEF TypeOK, Types
    <3>4. CASE lost' = lost \cup {hold[c]["host"]} /\ UNCHANGED <<open, asked>>
      BY <1>1, <2>9, <3>1, <3>2, <3>4 DEF TypeOK, Types
    <3> QED
      BY <2>9, <3>3, <3>4 DEF Reset
  <2>10. CASE Set(c)
    <3>1. CASE Keep(c)
      <4>1. /\ hold' \in [Callers -> [Places -> Sessions \cup {None}]]
            /\ hold'[c]["report"] = None
            /\ \A d \in Callers, q \in Places :
                 d # c \/ q \notin {"report", "host"} => hold'[d][q] = hold[d][q]
        BY <1>1, <3>1, Passes DEF Keep
      <4> QED
        BY <1>1, <2>10, <3>1, <4>1 DEF Set, Keep, TypeOK, Types
    <3> QED
      BY <2>9, <2>10, <3>1 DEF Set
  <2>11. CASE DestroyHandle(c)
    BY <2>9, <2>11 DEF DestroyHandle
  <2>12. ASSUME NEW k \in Nat, k # 0, Established(c, k), pc[c] = "request",
                Len(keys') \in Nat, Len(keys) <= Len(keys'), k <= Len(keys'),
                keys' \in Seq([name : Names, option : Nat]),
                store' \in [Names -> 0..Len(keys')]
         PROVE  TypeOK'
    <3>1. /\ pc' \in [Callers -> Pcs] /\ call' \in [Callers -> Call]
          /\ pc'[c] = "return"
          /\ \A d \in Callers \ {c} : pc'[d] = pc[d]
      BY <1>0, <2>12, Moves DEF Established, Pass
    <3>2. /\ hold' \in [Callers -> [Places -> Sessions \cup {None}]]
          /\ hold'[c]["host"] = None
          /\ \A d \in Callers, q \in Places :
               d # c \/ q \notin {"host", "return"} => hold'[d][q] = hold[d][q]
      BY <1>1, <2>12, Passes DEF Established
    <3>3. /\ cred' \in [Callers -> 0..Len(keys')] /\ cred'[c] = k
          /\ \A d \in Callers \ {c} : cred'[d] = cred[d]
      BY <1>2, <2>12 DEF Established, TypeOK, Types
    <3>4. sealed' \subseteq 0..Len(keys')
      BY <1>2, <2>12 DEF Established, TypeOK, Types
    <3>5. /\ challenges' \in [Callers -> Nat] /\ callback[c] = "none"
          /\ UNCHANGED <<callback, crypto, open, asked, lost, sealed, terminated>>
      BY <2>12 DEF Established, TypeOK, Types
    <3>6. Types'
      <4>1. /\ nonce' \in [Callers -> Nat] /\ request' \in [Callers -> Nat]
            /\ callback' \in [Callers -> {"none", "call", "attest", "store"}]
            /\ open' \subseteq Sessions /\ lost' \subseteq open'
            /\ asked' \in [Sessions -> Nat] /\ terminated' \in BOOLEAN
        BY <3>5 DEF TypeOK, Types
      <4> QED
        BY <2>12, <3>1, <3>2, <3>3, <3>4, <3>5, <4>1 DEF Types
    <3>7. /\ pc[c] = "request" /\ callback[c] = "none" /\ UNCHANGED callback
          /\ hold'[c]["report"] = hold[c]["report"]
          /\ hold'[c]["enclave"] = hold[c]["enclave"]
          /\ \A d \in Callers \ {c}, q \in Places : hold'[d][q] = hold[d][q]
      BY <1>1, <2>12, <3>2, <3>5
    <3> QED
      BY <1>0, <1>1, <3>1, <3>3, <3>6, <3>7 DEF TypeOK
  <2>13. CASE RequestCreate(c)
    <3>1. /\ call[c].name \in Names /\ ConvertCacheConfig(call[c].option) \in Nat
          /\ pc[c] = "request"
      BY <2>13, Arguments DEF RequestCreate, At
    <3>2. /\ keys' \in Seq([name : Names, option : Nat])
          /\ Len(keys') = Len(keys) + 1
      BY <2>13, <3>1 DEF RequestCreate, TypeOK, Types
    <3>3. store' \in [Names -> 0..Len(keys')]
      BY <1>2, <2>13, <3>1, <3>2 DEF RequestCreate, TypeOK, Types
    <3> QED
      BY <1>2, <2>12, <2>13, <3>1, <3>2, <3>3 DEF RequestCreate
  <2>14. CASE Open(c)
    <3>1. call[c].name \in Names /\ pc[c] = "request"
      BY <2>14, Arguments DEF Open, At
    <3>2. store[call[c].name] \in 1..Len(keys)
      BY <1>2, <2>14, <3>1 DEF Open, TypeOK, Types
    <3>3. /\ UNCHANGED <<keys, store>> /\ Established(c, store[call[c].name])
          /\ keys \in Seq([name : Names, option : Nat])
          /\ store \in [Names -> 0..Len(keys)]
      BY <2>14 DEF Open, TypeOK, Types
    <3> QED
      BY <1>2, <2>12, <3>1, <3>2, <3>3
  <2>15. CASE RequestFails(c)
    <3>1. /\ pc' \in [Callers -> Pcs] /\ call' \in [Callers -> Call]
          /\ pc'[c] \in {"unwind", "cleanup"} /\ pc[c] = "request"
          /\ \A d \in Callers \ {c} : pc'[d] = pc[d]
      BY <1>0, <2>15, Tries DEF RequestFails, At
    <3> QED
      BY <1>0, <2>15, <3>1 DEF RequestFails, TypeOK, Types
  <2>16. CASE Unwind(c)
    <3>1. /\ pc' \in [Callers -> Pcs] /\ call' \in [Callers -> Call]
          /\ pc'[c] = "cleanup" /\ pc[c] = "unwind"
          /\ \A d \in Callers \ {c} : pc'[d] = pc[d]
      BY <1>0, <2>16, Tries DEF Unwind, At
    <3> QED
      BY <1>0, <2>16, <3>1 DEF Unwind, TypeOK, Types
  <2>17. CASE Return(c)
    <3>1. /\ pc' \in [Callers -> Pcs] /\ call' \in [Callers -> Call]
          /\ pc'[c] \in {"rac", "cleanup"} /\ pc[c] = "return"
          /\ \A d \in Callers \ {c} : pc'[d] = pc[d]
      BY <1>0, <2>17, Tries DEF Return, At
    <3>2. /\ hold' \in [Callers -> [Places -> Sessions \cup {None}]]
          /\ hold'[c]["return"] = None
          /\ \A d \in Callers, q \in Places :
               d # c \/ q \notin {"return", "enclave"} => hold'[d][q] = hold[d][q]
          /\ pc'[c] = "cleanup" => hold'[c]["enclave"] = hold[c]["enclave"]
      <4>1. CASE Pass(c, "rac") /\ hold' = [hold EXCEPT ![c]["enclave"] = hold[c]["return"],
                                                        ![c]["return"] = None]
        <5>1. pc'[c] = "rac"
          BY <4>1 DEF Pass, Goto, TypeOK, Types
        <5>2. "return" \in Places /\ "enclave" \in Places /\ "return" # "enclave"
          BY <1>1
        <5>3. /\ hold' \in [Callers -> [Places -> Sessions \cup {None}]]
              /\ hold'[c]["return"] = None
              /\ \A d \in Callers, q \in Places :
                   d # c \/ q \notin {"return", "enclave"} => hold'[d][q] = hold[d][q]
          BY <4>1, <5>2, Passes
        <5> QED
          BY <5>1, <5>3
      <4>2. CASE hold' = [hold EXCEPT ![c]["return"] = None]
        <5>1. /\ hold' \in [Callers -> [Places -> Sessions \cup {None}]]
              /\ hold'[c]["return"] = None
              /\ \A d \in Callers, q \in Places :
                   d # c \/ q # "return" => hold'[d][q] = hold[d][q]
          BY <1>1, <4>2, Puts
        <5> QED
          BY <1>1, <5>1
      <4> QED
        BY <2>17, <4>1, <4>2 DEF Return
    <3>3. lost' \subseteq open
      <4>1. hold[c]["return"] # None => hold[c]["return"] \in open
        BY <1>1 DEF HandlesOwned
      <4>2. lost' = lost \/ lost' = lost \cup ({hold[c]["return"]} \ {None})
        BY <2>17 DEF Return
      <4>3. lost \subseteq open
        BY DEF TypeOK, Types
      <4> QED
        BY <4>1, <4>2, <4>3
    <3>4. /\ cred' \in [Callers -> 0..Len(keys)]
          /\ \A d \in Callers \ {c} : cred'[d] = cred[d]
      <4>1. cred' = cred \/ cred' = [cred EXCEPT ![c] = 0]
        BY <2>17 DEF Return
      <4>2. cred \in [Callers -> 0..Len(keys)] /\ 0 \in 0..Len(keys)
        BY <1>2 DEF TypeOK, Types
      <4> QED
        BY <4>1, <4>2
    <3>5. Types'
      BY <2>17, <3>1, <3>2, <3>3, <3>4 DEF Return, TypeOK, Types
    <3> QED
      BY <1>0, <1>1, <2>17, <3>1, <3>2, <3>4, <3>5 DEF Return, TypeOK
  <2>18. ASSUME (Encrypt(c) /\ Remember(c)) \/ UNCHANGED <<asked, crypto>>,
                hold[c]["enclave"] # None \/ UNCHANGED <<asked, crypto>>
         PROVE  /\ asked' \in [Sessions -> Nat]
                /\ nonce' \in [Callers -> Nat] /\ request' \in [Callers -> Nat]
    <3>1. CASE UNCHANGED <<asked, crypto>>
      BY <3>1 DEF TypeOK, Types
    <3>2. CASE hold[c]["enclave"] # None
      <4>1. hold[c]["enclave"] \in Sessions
        BY <3>2, HoldType
      <4>2. asked[hold[c]["enclave"]] + 1 \in Nat
        BY <4>1 DEF TypeOK, Types
      <4>3. CASE Encrypt(c) /\ Remember(c)
        BY <4>1, <4>2, <4>3 DEF Encrypt, Remember, TypeOK, Types
      <4> QED
        BY <2>18, <3>1, <4>3
    <3> QED
      BY <2>18, <3>1, <3>2
  <2>19. CASE RequestContext(c)
    <3>1. /\ pc' \in [Callers -> Pcs] /\ call' \in [Callers -> Call]
          /\ pc'[c] \in {"context", "cleanup"} /\ pc[c] = "rac"
          /\ \A d \in Callers \ {c} : pc'[d] = pc[d]
      BY <1>0, <2>19, Tries DEF RequestContext, GetAuthorizationContext, At
    <3>2. /\ asked' \in [Sessions -> Nat]
          /\ nonce' \in [Callers -> Nat] /\ request' \in [Callers -> Nat]
      BY <2>18, <2>19 DEF RequestContext
    <3>3. pc'[c] = "context" => hold[c]["enclave"] # None
      <4>1. hold[c]["enclave"] = None => Fail(c)
        BY <2>19 DEF RequestContext
      <4>2. Fail(c) => pc'[c] = "cleanup"
        BY DEF Fail, Leave, Goto, TypeOK, Types
      <4> QED
        BY <4>1, <4>2
    <3> QED
      BY <1>0, <2>19, <3>1, <3>2, <3>3 DEF RequestContext, TypeOK, Types
  <2>20. CASE GetAuthContext(c)
    <3>1. /\ pc' \in [Callers -> Pcs] /\ call' \in [Callers -> Call]
          /\ pc'[c] \in {"protect", "dss", "cleanup"} /\ pc[c] = "context"
          /\ \A d \in Callers \ {c} : pc'[d] = pc[d]
      BY <1>0, <2>20, Tries DEF GetAuthContext, At
    <3> QED
      BY <1>0, <2>20, <3>1 DEF GetAuthContext, TypeOK, Types
  <2>21. CASE Protect(c)
    <3>1. /\ pc' \in [Callers -> Pcs] /\ call' \in [Callers -> Call]
          /\ pc'[c] = "cleanup" /\ pc[c] = "protect"
          /\ \A d \in Callers \ {c} : pc'[d] = pc[d]
      BY <1>0, <2>21, Tries DEF Protect, At
    <3> QED
      BY <1>0, <2>21, <3>1, ZenonT(60) DEF Protect, TypeOK, Types
  <2>22. CASE RequestSecret(c)
    <3>1. /\ pc' \in [Callers -> Pcs] /\ call' \in [Callers -> Call]
          /\ pc'[c] \in {"unprotect", "cleanup"} /\ pc[c] = "dss"
          /\ \A d \in Callers \ {c} : pc'[d] = pc[d]
      BY <1>0, <2>22, Tries DEF RequestSecret, GetSecret, At
    <3>2. /\ asked' \in [Sessions -> Nat]
          /\ nonce' \in [Callers -> Nat] /\ request' \in [Callers -> Nat]
      BY <1>0, <2>18, <2>22 DEF RequestSecret, At, TypeOK
    <3> QED
      BY <1>0, <2>22, <3>1, <3>2 DEF RequestSecret, TypeOK, Types
  <2>23. CASE Unprotect(c)
    <3>1. /\ pc' \in [Callers -> Pcs] /\ call' \in [Callers -> Call]
          /\ pc'[c] = "cleanup" /\ pc[c] = "unprotect"
          /\ \A d \in Callers \ {c} : pc'[d] = pc[d]
      BY <1>0, <2>23, Tries DEF Unprotect, At
    <3> QED
      BY <1>0, <2>23, <3>1 DEF Unprotect, TypeOK, Types
  <2>24. CASE CloseSession(c)
    <3>1. /\ hold' \in [Callers -> [Places -> Sessions \cup {None}]]
          /\ hold'[c]["enclave"] = None
          /\ \A d \in Callers, q \in Places :
               d # c \/ q # "enclave" => hold'[d][q] = hold[d][q]
      BY <1>1, <2>24, Puts DEF CloseSession
    <3>2. hold[c]["enclave"] \in open \ lost
      BY <1>1, <2>24 DEF CloseSession, HandlesOwned
    <3>3. /\ asked' \in [Sessions -> Nat]
          /\ open' \subseteq Sessions /\ lost' \subseteq open'
      BY <2>24, <3>2 DEF CloseSession, Close, TypeOK, Types
    <3>4. /\ nonce' \in [Callers -> Nat] /\ request' \in [Callers -> Nat]
          /\ pc[c] = "cleanup" /\ UNCHANGED <<flow, host, cred, system, sealed, terminated>>
      BY <2>24 DEF CloseSession, At, TypeOK, Types
    <3> QED
      BY <1>0, <1>1, <3>1, <3>3, <3>4, ZenonT(60) DEF TypeOK, Types
  <2>25. CASE DeleteCredential(c)
    <3>1. /\ pc' \in [Callers -> Pcs] /\ call' \in [Callers -> Call]
          /\ pc'[c] = "idle" /\ pc[c] = "cleanup"
          /\ \A d \in Callers \ {c} : pc'[d] = pc[d]
      BY <1>0, <2>25, Moves DEF DeleteCredential, Pass, At
    <3>2. /\ cred' \in [Callers -> 0..Len(keys)] /\ cred'[c] = 0
          /\ \A d \in Callers \ {c} : cred'[d] = cred[d]
      BY <1>2, <2>25 DEF DeleteCredential, TypeOK, Types
    <3> QED
      BY <1>0, <2>25, <3>1, <3>2 DEF DeleteCredential, TypeOK, Types
  <2>26. CASE DeleteFails(c)
    BY <2>26 DEF DeleteFails, TypeOK, Types
  <2> QED
    BY <2>2, <2>3, <2>4, <2>5, <2>6, <2>7, <2>8, <2>9, <2>10, <2>11, <2>12,
       <2>13, <2>14, <2>15, <2>16, <2>17, <2>18, <2>19, <2>20, <2>21, <2>22,
       <2>23, <2>24, <2>25, <2>26
       DEF HostStep, Step, Establishing
<1> QED
  BY <1>3, <1>4

(* The step that ends a session, or loses it, takes its only handle.       *)
LEMMA Gone ==
  ASSUME TypeOK, HandlesOwned, NEW c \in Callers, NEW p \in Places, hold[c][p] # None,
         hold' = [hold EXCEPT ![c][p] = None],
         (open \ lost)' = (open \ lost) \ {hold[c][p]}
  PROVE  HandlesOwned'
<1>1. /\ hold'[c][p] = None
      /\ \A d \in Callers, q \in Places :
           d # c \/ q # p => hold'[d][q] = hold[d][q]
  BY Puts, ZenonT(60)
<1>2. \A d \in Callers, q \in Places :
        hold[d][q] # None /\ hold[d][q] = hold[c][p] => d = c /\ q = p
  BY DEF HandlesOwned
<1>3. \A s \in (open \ lost)' : s \in open \ lost /\ s # hold[c][p]
  OBVIOUS
<1>4. \A d \in Callers, q \in Places :
        hold'[d][q] # None => /\ hold'[d][q] = hold[d][q] /\ hold'[d][q] # hold[c][p]
                              /\ hold[d][q] \in open \ lost
  BY <1>1, <1>2 DEF HandlesOwned
<1>5. ASSUME NEW s \in (open \ lost)'
      PROVE  \E d \in Callers, q \in Places : hold'[d][q] = s
  <2>1. PICK d \in Callers, q \in Places : hold[d][q] = s
    BY <1>3 DEF HandlesOwned
  <2> QED
    BY <1>1, <1>3, <2>1
<1>6. \A d, e \in Callers, q, r \in Places :
        hold'[d][q] # None /\ hold'[d][q] = hold'[e][r] => d = e /\ q = r
  BY <1>4 DEF HandlesOwned
<1> QED
  BY <1>4, <1>5, <1>6 DEF HandlesOwned

(* The handles in h, each with one owner.                                  *)
Single(h) == \A d, e \in Callers, r, t \in Places :
               h[d][r] # 0 /\ h[d][r] = h[e][t] => d = e /\ r = t
Held(h)   == {s \in Int \ {0} : \E d \in Callers, r \in Places : h[d][r] = s}

(* From h to g, what c had in p has been passed on to its place q.         *)
Handed(h, g, c, p, q) ==
  /\ p # q /\ h[c][q] = 0 /\ g[c][p] = 0 /\ g[c][q] = h[c][p]
  /\ \A d \in Callers, r \in Places : d # c \/ r \notin {p, q} => g[d][r] = h[d][r]

LEMMA Owners ==
  ASSUME TypeOK, HandlesOwned
  PROVE  Single(hold) /\ Held(hold) = open \ lost
<1>1. 0 \notin open /\ open \subseteq Int
  BY DEF TypeOK, Types, Sessions
<1>2. Single(hold)
  BY DEF HandlesOwned, Single
<1>3. \A s \in Held(hold) : s \in open \ lost
  BY DEF HandlesOwned, Held
<1>4. \A s \in open \ lost : s \in Held(hold)
  BY <1>1 DEF HandlesOwned, Held
<1> QED
  BY <1>2, <1>3, <1>4

(* A handle that is passed on, from h to g, has one owner as before.       *)
LEMMA OneOwner ==
  ASSUME NEW h, NEW g, NEW c \in Callers, NEW p \in Places, NEW q \in Places,
         Handed(h, g, c, p, q), Single(h)
  PROVE  Single(g) /\ Held(g) = Held(h)
<1> USE DEF Handed
<1>0. \A d, e \in Callers, r, t \in Places :
        h[d][r] # 0 /\ h[d][r] = h[e][t] => d = e /\ r = t
  BY DEF Single
<1>1. \A d \in Callers, r \in Places :
        h[d][r] # 0 /\ h[d][r] = h[c][p] => d = c /\ r = p
  BY <1>0
<1>2. ASSUME NEW d \in Callers, NEW e \in Callers, NEW r \in Places, NEW t \in Places,
             g[d][r] # 0, g[d][r] = g[e][t]
      PROVE  d = e /\ r = t
  <2>1. (d = c => r # p) /\ (e = c => t # p)
    BY <1>2
  <2>2. CASE d = c /\ r = q
    <3>1. ASSUME e # c \/ t # q PROVE FALSE
      <4>1. h[e][t] # 0 /\ h[e][t] = h[c][p]
        BY <1>2, <2>1, <2>2, <3>1
      <4> QED
        BY <1>1, <2>1, <4>1
    <3> QED
      BY <2>2, <3>1
  <2>3. CASE e = c /\ t = q
    <3>1. ASSUME d # c \/ r # q PROVE FALSE
      <4>1. h[d][r] # 0 /\ h[d][r] = h[c][p]
        BY <1>2, <2>1, <2>3, <3>1
      <4> QED
        BY <1>1, <2>1, <4>1
    <3> QED
      BY <2>3, <3>1
  <2>4. CASE (d # c \/ r # q) /\ (e # c \/ t # q)
    <3>1. h[d][r] = g[d][r] /\ h[e][t] = g[e][t]
      BY <2>1, <2>4
    <3> QED
      BY <1>0, <1>2, <3>1
  <2> QED
    BY <2>2, <2>3, <2>4
<1>3. ASSUME NEW s, s # 0, NEW d \in Callers, NEW r \in Places, h[d][r] = s
      PROVE  \E e \in Callers, t \in Places : g[e][t] = s
  <2>1. CASE d = c /\ r = p
    BY <1>3, <2>1
  <2>2. CASE d # c \/ r \notin {p, q}
    BY <1>3, <2>2
  <2> QED
    BY <1>3, <2>1, <2>2
<1>4. ASSUME NEW s, s # 0, NEW d \in Callers, NEW r \in Places, g[d][r] = s
      PROVE  \E e \in Callers, t \in Places : h[e][t] = s
  <2>1. CASE d = c /\ r = q
    BY <1>4, <2>1
  <2>2. CASE d # c \/ r \notin {p, q}
    BY <1>4, <2>2
  <2> QED
    BY <1>4, <2>1, <2>2
<1> QED
  BY <1>2, <1>3, <1>4 DEF Single, Held

LEMMA Passed ==
  ASSUME TypeOK, HandlesOwned, NEW c \in Callers, NEW p \in Places, NEW q \in Places,
         Handed(hold, hold', c, p, q), open' = open, lost' = lost,
         hold' \in [Callers -> [Places -> Sessions \cup {None}]]
  PROVE  HandlesOwned'
<1>1. Single(hold) /\ Held(hold) = open \ lost
  BY Owners
<1>2. Single(hold') /\ Held(hold') = open' \ lost'
  BY <1>1, OneOwner
<1>3. \A d, e \in Callers, r, t \in Places :
        hold'[d][r] # 0 /\ hold'[d][r] = hold'[e][t] => d = e /\ r = t
  BY <1>2 DEF Single
<1>4. ASSUME NEW d \in Callers, NEW r \in Places, hold'[d][r] # 0
      PROVE  hold'[d][r] \in open' \ lost'
  <2>1. hold'[d][r] \in Int
    BY DEF Sessions
  <2> QED
    BY <1>2, <1>4, <2>1 DEF Held
<1>5. \A s \in open' \ lost' : \E d \in Callers, r \in Places : hold'[d][r] = s
  BY <1>2 DEF Held
<1> QED
  BY <1>3, <1>4, <1>5 DEF HandlesOwned

LEMMA PassedOn ==
  ASSUME TypeOK, HandlesOwned, NEW c \in Callers, NEW p \in Places, NEW q \in Places,
         p # q, hold[c][q] = None, open' = open, lost' = lost,
         hold' = [hold EXCEPT ![c][q] = hold[c][p], ![c][p] = None]
  PROVE  HandlesOwned'
<1>1. /\ hold' \in [Callers -> [Places -> Sessions \cup {None}]]
      /\ Handed(hold, hold', c, p, q)
  BY Passes, ZenonT(60) DEF Handed
<1> QED
  BY <1>1, Passed

LEMMA NextOwned == TypeOK /\ HandlesOwned /\ [Next]_vars => HandlesOwned'
<1> SUFFICES ASSUME TypeOK, HandlesOwned, [Next]_vars PROVE HandlesOwned'
  OBVIOUS
<1> USE DEF flow, host, crypto, session, system
<1>1. CASE UNCHANGED <<hold, open, lost>>
  BY <1>1 DEF HandlesOwned
<1>2. Places = {"report", "host", "return", "enclave"} /\ None \notin Sessions
  BY DEF Places, Sessions
<1>3. ASSUME NEW c \in Callers, Attest(c)
      PROVE  HandlesOwned'
  <2>1. CASE UNCHANGED hold /\ (open \ lost)' = open \ lost
    BY <2>1 DEF HandlesOwned
  <2>2. ASSUME NEW s \in Fresh, hold' = [hold EXCEPT ![c]["report"] = s],
               open' = open \cup {s}, UNCHANGED lost
        PROVE  HandlesOwned'
    <3>1. /\ hold'[c]["report"] = s /\ s # None
          /\ \A d \in Callers, q \in Places :
               d # c \/ q # "report" => hold'[d][q] = hold[d][q]
      BY <1>2, <2>2, Puts DEF Fresh
    <3>2. s \notin open /\ lost \subseteq open
      BY DEF Fresh, TypeOK, Types
    <3>3. hold[c]["report"] = None
      BY <1>2, <1>3 DEF Attest, TypeOK
    <3>4. \A d \in Callers, q \in Places :
            hold'[d][q] # None =>
              \/ d = c /\ q = "report"
              \/ hold'[d][q] = hold[d][q] /\ hold[d][q] \in open \ lost
      BY <3>1 DEF HandlesOwned
    <3>5. \A d \in Callers, q \in Places : hold'[d][q] # None =>
            hold'[d][q] \in (open \ lost)'
      BY <2>2, <3>1, <3>2, <3>4
    <3>6. \A d, e \in Callers, q, r \in Places :
            hold'[d][q] # None /\ hold'[d][q] = hold'[e][r] => d = e /\ q = r
      BY <3>1, <3>2, <3>4 DEF HandlesOwned
    <3>7. ASSUME NEW t \in (open \ lost)'
          PROVE  \E d \in Callers, q \in Places : hold'[d][q] = t
      <4>1. CASE t = s
        BY <1>2, <3>1, <4>1
      <4>2. CASE t # s
        <5>1. t \in open \ lost /\ t # None
          BY <2>2, <4>2 DEF TypeOK, Types, Sessions
        <5>2. PICK d \in Callers, q \in Places : hold[d][q] = t
          BY <5>1 DEF HandlesOwned
        <5> QED
          BY <3>1, <3>3, <5>1, <5>2
      <4> QED
        BY <4>1, <4>2
    <3> QED
      BY <3>5, <3>6, <3>7 DEF HandlesOwned
  <2>3. ASSUME NEW s \in Fresh, UNCHANGED hold, open' = open \cup {s}, lost' = lost \cup {s}
        PROVE  HandlesOwned'
    <3>1. (open \ lost)' = open \ lost
      BY <2>3 DEF Fresh
    <3> QED
      BY <2>1, <2>3, <3>1
  <2> QED
    BY <1>3, <2>1, <2>2, <2>3 DEF Attest
<1>4. ASSUME NEW c \in Callers, Reset(c)
      PROVE  HandlesOwned'
  <2>1. (open \ lost)' = (open \ lost) \ {hold[c]["host"]}
    BY <1>4 DEF Reset, Close
  <2> QED
    BY <1>2, <1>4, <2>1, Gone DEF Reset
<1>5. ASSUME NEW c \in Callers, hold[c]["host"] = None, Keep(c)
      PROVE  HandlesOwned'
  <2>1. open' = open /\ lost' = lost
    BY <1>5 DEF Keep
  <2> QED
    BY <1>2, <1>5, <2>1, PassedOn DEF Keep
<1>6. ASSUME NEW c \in Callers, NEW k, pc[c] = "request", Established(c, k)
      PROVE  HandlesOwned'
  <2>1. hold[c]["return"] = None
    BY <1>6 DEF TypeOK
  <2>2. open' = open /\ lost' = lost
    BY <1>6 DEF Established
  <2> QED
    BY <1>2, <1>6, <2>1, <2>2, PassedOn DEF Established
<1>7. ASSUME NEW c \in Callers, Return(c)
      PROVE  HandlesOwned'
  <2>1. pc[c] = "return" /\ hold[c]["enclave"] = None /\ open' = open
    BY <1>2, <1>7 DEF Return, At, TypeOK, InSession
  <2>2. CASE lost' = lost /\ hold' = [hold EXCEPT ![c]["enclave"] = hold[c]["return"],
                                                  ![c]["return"] = None]
    BY <1>2, <2>1, <2>2, PassedOn
  <2>3. CASE hold' = [hold EXCEPT ![c]["return"] = None]
               /\ lost' = lost \cup ({hold[c]["return"]} \ {None})
    <3>1. CASE hold[c]["return"] = None
      <4>1. hold' = hold
        BY <1>2, <2>3, <3>1 DEF TypeOK, Types
      <4> QED
        BY <1>1, <2>1, <2>3, <3>1, <4>1
    <3>2. CASE hold[c]["return"] # None
      <4>1. (open \ lost)' = (open \ lost) \ {hold[c]["return"]}
        BY <2>1, <2>3, <3>2
      <4> QED
        BY <1>2, <2>3, <3>2, <4>1, Gone
    <3> QED
      BY <3>1, <3>2
  <2> QED
    BY <1>7, <2>2, <2>3 DEF Return
<1>8. ASSUME NEW c \in Callers, CloseSession(c)
      PROVE  HandlesOwned'
  <2>1. (open \ lost)' = (open \ lost) \ {hold[c]["enclave"]}
    BY <1>8 DEF CloseSession, Close
  <2> QED
    BY <1>2, <1>8, <2>1, Gone DEF CloseSession
<1>9. CASE Next
  <2> SUFFICES ASSUME NEW c \in Callers,
                      \/ \E n \in Names :
                           \/ \E o \in Options : CreateUserBoundKey(c, n, o)
                           \/ \E k \in sealed \cup {0}, stale \in BOOLEAN :
                                LoadUserBoundKey(c, n, k, stale)
                      \/ Challenge(c) \/ HostStep(c) \/ Step(c)
               PROVE  HandlesOwned'
    BY <1>9 DEF Next
  <2>1. CASE \E n \in Names :
               \/ \E o \in Options : CreateUserBoundKey(c, n, o)
               \/ \E k \in sealed \cup {0}, stale \in BOOLEAN :
                    LoadUserBoundKey(c, n, k, stale)
    BY <1>1, <2>1 DEF CreateUserBoundKey, LoadUserBoundKey, Begin
  <2>2. CASE Challenge(c)
    BY <1>1, <2>2 DEF Challenge
  <2>3. CASE HostStep(c)
    BY <1>1, <1>3, <1>4, <1>5, <2>3 DEF HostStep, EnterEnclave, Set, DestroyHandle
  <2>4. CASE Establishing(c)
    BY <1>1, <1>6, <1>7, <2>4
       DEF Establishing, FormatKeyName, Establish, RequestCreate, Open,
           RequestFails, Unwind, At
  <2>5. CASE RequestContext(c) \/ RequestSecret(c)
    BY <1>1, <2>5 DEF RequestContext, RequestSecret
  <2>6. CASE \/ GetAuthContext(c) \/ Protect(c) \/ Unprotect(c)
             \/ DeleteCredential(c) \/ DeleteFails(c)
    BY <1>1, <2>6 DEF GetAuthContext, Protect, Unprotect, DeleteCredential, DeleteFails
  <2> QED
    BY <1>8, <2>1, <2>2, <2>3, <2>4, <2>5, <2>6 DEF Step
<1>10. CASE UNCHANGED vars
  BY <1>1, <1>10 DEF vars
<1> QED
  BY <1>9, <1>10

-----------------------------------------------------------------------------
(* What the calls, the host and its callbacks hold is of its type and in   *)
(* its place, however many there are and whatever fails.                   *)
THEOREM Typing == Safety => []TypeOK
<1>1. TypeOK /\ HandlesOwned /\ [Next]_vars => (TypeOK /\ HandlesOwned)'
  BY NextType, NextOwned
<1> QED
  BY <1>1, InitType, PTL DEF Safety

(* A session has one owner at a time from the attestation that opens it to *)
(* the call that closes it, unless an error of a return takes its handle.  *)
THEOREM Owned == Safety => []HandlesOwned
<1>1. TypeOK /\ HandlesOwned /\ [Next]_vars => (TypeOK /\ HandlesOwned)'
  BY NextType, NextOwned
<1> QED
  BY <1>1, InitType, PTL DEF Safety

-----------------------------------------------------------------------------
(***************************************************************************)
(* Why an answer matches its request: the store has the newest credential  *)
(* of a name, and what a call learned of the credentials stays true.       *)
(***************************************************************************)
Newest ==
  \A n \in Names : store[n] # 0 =>
    /\ keys[store[n]].name = n
    /\ \A k \in DOMAIN keys : k > store[n] => keys[k].name # n

(* A load is refused for another name, or for a key made since.            *)
HasCredential(c) == pc[c] \in InSession \cup {"return"}
MadeAgain(c) == \E k \in DOMAIN keys : k > call[c].key /\ keys[k].name = call[c].name
Loads(c)     == \/ cred[c] = call[c].key
                \/ keys[call[c].key].name # call[c].name
                \/ MadeAgain(c)

Match(c) ==
  /\ pc[c] \in {"context", "unprotect"} => nonce[c] = request[c]
  /\ call[c].op = "load" => call[c].key \in DOMAIN keys
  /\ HasCredential(c) => cred[c] # 0 /\ call[c].op \in {"create", "load"}
  /\ HasCredential(c) /\ call[c].op = "create" =>
       keys[cred[c]].option = ConvertCacheConfig(call[c].option)
  /\ HasCredential(c) /\ call[c].op = "load" => Loads(c)
  /\ pc[c] \in {"dss", "unprotect"} => call[c].op = "load"

MatchInv == TypeOK /\ HandlesOwned /\ Newest /\ \A c \in Callers : Match(c)

LEMMA InitMatch == Init => MatchInv
<1> SUFFICES ASSUME Init PROVE MatchInv
  OBVIOUS
<1>1. \A c \in Callers : pc[c] = "idle" /\ call[c].op = "none"
  BY DEF Init, NoCall
<1>2. \A c \in Callers : Match(c)
  BY <1>1 DEF Match, HasCredential, InSession
<1>3. Newest
  BY DEF Init, Newest
<1> QED
  BY <1>2, <1>3, InitType DEF MatchInv

(* No credential is ever taken back.                                       *)
LEMMA KeysGrow ==
  ASSUME TypeOK, NEW r \in [name : Names, option : Nat], keys' = Append(keys, r)
  PROVE  /\ DOMAIN keys = 1..Len(keys) /\ Len(keys) \in Nat
         /\ DOMAIN keys' = 1..(Len(keys) + 1) /\ keys'[Len(keys) + 1] = r
         /\ \A k \in DOMAIN keys : k \in DOMAIN keys' /\ keys'[k] = keys[k]
BY DEF TypeOK, Types

(* What a call has learned stays true while it does not move, or moves on  *)
(* with the same arguments and the same credential.                        *)
LEMMA Learned ==
  ASSUME TypeOK, NEW c \in Callers, Match(c),
         \A k \in DOMAIN keys : k \in DOMAIN keys' /\ keys'[k] = keys[k],
         call'[c] = call[c], cred'[c] = cred[c],
         HasCredential(c)' => HasCredential(c),
         pc'[c] \in {"context", "unprotect"} => nonce'[c] = request'[c],
         pc'[c] \in {"dss", "unprotect"} => call[c].op = "load"
  PROVE  Match(c)'
<1>1. cred[c] \in 0..Len(keys) /\ DOMAIN keys = 1..Len(keys)
  BY DEF TypeOK, Types
<1>2. HasCredential(c) => cred[c] \in DOMAIN keys
  BY <1>1 DEF Match
<1>3. HasCredential(c)' /\ call[c].op = "load" => Loads(c)'
  <2> SUFFICES ASSUME HasCredential(c)', call[c].op = "load" PROVE Loads(c)'
    OBVIOUS
  <2>1. Loads(c) /\ call[c].key \in DOMAIN keys
    BY DEF Match
  <2>2. MadeAgain(c) => MadeAgain(c)'
    BY DEF MadeAgain
  <2> QED
    BY <2>1, <2>2 DEF Loads
<1> QED
  BY <1>2, <1>3 DEF Match

(* A call that is not in a session needs to know only its arguments.       *)
LEMMA Outside ==
  ASSUME TypeOK, NEW c \in Callers, Match(c),
         \A k \in DOMAIN keys : k \in DOMAIN keys',
         pc'[c] \notin InSession \cup {"return"},
         call'[c] = call[c] \/ call'[c].op # "load"
  PROVE  Match(c)'
BY DEF Match, HasCredential, InSession

LEMMA Ends ==
  ASSUME TypeOK, NEW c \in Callers, Fail(c) \/ Leave(c, "cleanup") \/ Leave(c, "unwind")
  PROVE  pc'[c] \notin InSession \cup {"return"} /\ call'[c].op # "load"
BY DEF TypeOK, Types, Fail, Leave, Goto, InSession, NoCall

LEMMA Goes ==
  ASSUME TypeOK, NEW c \in Callers, NEW l, Pass(c, l)
  PROVE  pc'[c] = l /\ call'[c] = call[c]
BY DEF TypeOK, Types, Pass, Goto

(* A step of call c leaves the other calls alone.                          *)
LEMMA OtherCalls ==
  ASSUME TypeOK, NEW c \in Callers, NEW d \in Callers \ {c},
         \/ \E n \in Names :
              \/ \E o \in Options : CreateUserBoundKey(c, n, o)
              \/ \E k \in sealed \cup {0}, stale \in BOOLEAN :
                   LoadUserBoundKey(c, n, k, stale)
         \/ Challenge(c) \/ HostStep(c) \/ Step(c)
  PROVE  /\ pc'[d] = pc[d] /\ call'[d] = call[d] /\ cred'[d] = cred[d]
         /\ nonce'[d] = nonce[d] /\ request'[d] = request[d]
<1> USE DEF TypeOK, Types, flow, host, crypto, session, system, Pass, Leave, Fail, Try, Goto
<1>1. CASE \E n \in Names :
              \/ \E o \in Options : CreateUserBoundKey(c, n, o)
              \/ \E k \in sealed \cup {0}, stale \in BOOLEAN :
                   LoadUserBoundKey(c, n, k, stale)
  BY <1>1 DEF CreateUserBoundKey, LoadUserBoundKey, Begin
<1>2. CASE Challenge(c) \/ HostStep(c)
  BY <1>2 DEF Challenge, HostStep, EnterEnclave, Attest, Set, DestroyHandle
<1>3. CASE FormatKeyName(c) \/ Establish(c) \/ RequestCreate(c) \/ Open(c)
           \/ RequestFails(c) \/ Unwind(c) \/ Return(c)
  BY <1>3 DEF FormatKeyName, Establish, RequestCreate, Open, Established, RequestFails,
     Unwind, Return
<1>4. CASE RequestContext(c) \/ GetAuthContext(c) \/ Protect(c) \/ RequestSecret(c)
           \/ Unprotect(c)
  BY <1>4 DEF RequestContext, GetAuthContext, Protect, RequestSecret, Unprotect, Encrypt,
     Remember, GetAuthorizationContext, GetSecret
<1>5. CASE CloseSession(c) \/ DeleteCredential(c) \/ DeleteFails(c)
  BY <1>5 DEF CloseSession, DeleteCredential, DeleteFails
<1> QED
  BY <1>1, <1>2, <1>3, <1>4, <1>5 DEF Step, Establishing

(* Only a request for a new key adds a credential, and the store has it.   *)
LEMMA StoreStep ==
  ASSUME TypeOK, Newest, NEW c \in Callers,
         \/ \E n \in Names :
              \/ \E o \in Options : CreateUserBoundKey(c, n, o)
              \/ \E k \in sealed \cup {0}, stale \in BOOLEAN :
                   LoadUserBoundKey(c, n, k, stale)
         \/ Challenge(c) \/ HostStep(c) \/ Step(c)
  PROVE  /\ \A k \in DOMAIN keys : k \in DOMAIN keys' /\ keys'[k] = keys[k]
         /\ Newest'
<1> USE DEF system
<1>1. CASE UNCHANGED <<keys, store>>
  BY <1>1 DEF Newest
<1>2. CASE Establish(c)
  <2>1. keys' = keys /\ (store' = store \/ store' = [store EXCEPT ![call[c].name] = 0])
    BY <1>2 DEF Establish
  <2> QED
    BY <2>1 DEF Newest, TypeOK, Types
<1>3. CASE RequestCreate(c)
  <2> DEFINE r == [name   |-> call[c].name,
                   option |-> ConvertCacheConfig(call[c].option)]
             m == call[c].name
  <2>1. m \in Names /\ r \in [name : Names, option : Nat] /\ r.name = m
    BY <1>3, Arguments DEF RequestCreate
  <2>2. keys' = Append(keys, r) /\ store' = [store EXCEPT ![m] = Len(keys) + 1]
    BY <1>3 DEF RequestCreate
  <2> HIDE DEF r, m
  <2>3. /\ DOMAIN keys = 1..Len(keys) /\ Len(keys) \in Nat
        /\ DOMAIN keys' = 1..(Len(keys) + 1) /\ keys'[Len(keys) + 1] = r
        /\ \A k \in DOMAIN keys : k \in DOMAIN keys' /\ keys'[k] = keys[k]
    BY <2>1, <2>2, KeysGrow
  <2>4. store \in [Names -> 0..Len(keys)]
    BY DEF TypeOK, Types
  <2>5. ASSUME NEW n \in Names, store'[n] # 0
        PROVE  /\ keys'[store'[n]].name = n
               /\ \A k \in DOMAIN keys' : k > store'[n] => keys'[k].name # n
    <3>1. CASE n = m
      BY <2>1, <2>2, <2>3, <2>4, <3>1
    <3>2. CASE n # m
      <4>1. store'[n] = store[n] /\ store[n] \in DOMAIN keys
        BY <2>2, <2>3, <2>4, <2>5, <3>2
      <4>2. /\ keys[store[n]].name = n
            /\ \A k \in DOMAIN keys : k > store[n] => keys[k].name # n
        BY <2>5, <4>1 DEF Newest
      <4>3. \A k \in DOMAIN keys' : k \in DOMAIN keys \/ k = Len(keys) + 1
        BY <2>3
      <4> QED
        BY <2>1, <2>3, <3>2, <4>1, <4>2, <4>3
    <3> QED
      BY <3>1, <3>2
  <2> QED
    BY <2>3, <2>5 DEF Newest
<1>4. CASE \E n \in Names :
              \/ \E o \in Options : CreateUserBoundKey(c, n, o)
              \/ \E k \in sealed \cup {0}, stale \in BOOLEAN :
                   LoadUserBoundKey(c, n, k, stale)
  BY <1>1, <1>4 DEF CreateUserBoundKey, LoadUserBoundKey, Begin
<1>5. CASE Challenge(c) \/ HostStep(c)
  BY <1>1, <1>5 DEF Challenge, HostStep, EnterEnclave, Attest, Set, DestroyHandle
<1>6. CASE FormatKeyName(c) \/ Open(c) \/ RequestFails(c) \/ Unwind(c) \/ Return(c)
  BY <1>1, <1>6 DEF FormatKeyName, Open, RequestFails, Unwind, Return
<1>7. CASE RequestContext(c) \/ GetAuthContext(c) \/ Protect(c) \/ RequestSecret(c)
           \/ Unprotect(c) \/ CloseSession(c) \/ DeleteCredential(c) \/ DeleteFails(c)
  BY <1>1, <1>7 DEF RequestContext, GetAuthContext, Protect, RequestSecret, Unprotect,
     CloseSession, DeleteCredential, DeleteFails
<1> QED
  BY <1>2, <1>3, <1>4, <1>5, <1>6, <1>7 DEF Step, Establishing

(* What a call learns when its request is over.                            *)
LEMMA LearnsNew ==
  ASSUME TypeOK, NEW c \in Callers, RequestCreate(c)
  PROVE  Match(c)'
<1> DEFINE r == [name   |-> call[c].name, option |-> ConvertCacheConfig(call[c].option)]
<1>1. r \in [name : Names, option : Nat] /\ keys' = Append(keys, r)
  BY Arguments DEF RequestCreate
<1>2. Len(keys) \in Nat /\ keys'[Len(keys) + 1] = r
  BY <1>1, KeysGrow
<1>3. cred'[c] = Len(keys) + 1 /\ pc'[c] = "return" /\ call'[c] = call[c]
  BY Goes DEF RequestCreate, Established, TypeOK, Types
<1>4. call[c].op = "create"
  BY DEF RequestCreate
<1> QED
  BY <1>2, <1>3, <1>4 DEF Match

LEMMA LearnsStored ==
  ASSUME TypeOK, Newest, NEW c \in Callers, Match(c), Open(c)
  PROVE  Match(c)'
<1> DEFINE n == call[c].name
           k == call[c].key
<1>1. n \in Names /\ call[c].op = "load" /\ store[n] # 0 /\ keys' = keys
  BY Arguments DEF Open, system
<1>2. cred'[c] = store[n] /\ pc'[c] = "return" /\ call'[c] = call[c]
  BY Goes DEF Open, Established, TypeOK, Types
<1>3. k \in DOMAIN keys /\ store[n] \in DOMAIN keys /\ DOMAIN keys \subseteq Int
  BY <1>1 DEF Match, TypeOK, Types
<1>4. /\ keys[store[n]].name = n
      /\ \A j \in DOMAIN keys : j > store[n] => keys[j].name # n
  BY <1>1 DEF Newest
<1>5. store[n] = k \/ keys[k].name # n \/ \E j \in DOMAIN keys : j > k /\ keys[j].name = n
  <2>1. CASE k > store[n]
    BY <1>3, <1>4, <2>1
  <2>2. CASE store[n] > k
    BY <1>3, <1>4, <2>2
  <2>3. store[n] = k \/ k > store[n] \/ store[n] > k
    <3> HIDE DEF n, k
    <3> QED
      BY <1>3
  <2> QED
    BY <2>1, <2>2, <2>3
<1>6. Loads(c)'
  BY <1>1, <1>2, <1>5 DEF Loads, MadeAgain
<1> QED
  BY <1>1, <1>2, <1>3, <1>6 DEF Match

(* A step of a call keeps what it has learned.                             *)
LEMMA OwnStep ==
  ASSUME TypeOK, Newest, NEW c \in Callers, Match(c),
         \A k \in DOMAIN keys : k \in DOMAIN keys' /\ keys'[k] = keys[k],
         Challenge(c) \/ HostStep(c) \/ Step(c)
  PROVE  Match(c)'
<1> USE DEF flow, crypto, system
<1>1. CASE pc' = pc /\ UNCHANGED <<call, cred, nonce, request>>
  BY <1>1, Learned DEF Match, HasCredential
<1>2. CASE Challenge(c) \/ HostStep(c) \/ DeleteFails(c)
  BY <1>1, <1>2 DEF Challenge, HostStep, EnterEnclave, Attest, Set, DestroyHandle,
     DeleteFails
<1>3. CASE \/ FormatKeyName(c) \/ Establish(c) \/ RequestFails(c) \/ Unwind(c)
           \/ Protect(c) \/ Unprotect(c) \/ DeleteCredential(c)
  <2>1. \/ Pass(c, "establish") \/ Pass(c, "request") \/ Pass(c, "cleanup")
        \/ Pass(c, "idle") \/ Fail(c) \/ Leave(c, "cleanup") \/ Leave(c, "unwind")
    BY <1>3 DEF FormatKeyName, Establish, RequestFails, Unwind, Protect, Unprotect,
       DeleteCredential, Try
  <2>2. /\ pc'[c] \notin InSession \cup {"return"}
        /\ call'[c] = call[c] \/ call'[c].op # "load"
    BY <2>1, Ends, Goes DEF InSession
  <2> QED
    BY <2>2, Outside
<1>4. CASE RequestCreate(c) \/ Open(c)
  BY <1>4, LearnsNew, LearnsStored
<1>5. ASSUME NEW l \in {"rac", "context", "protect", "dss", "unprotect"}, Pass(c, l),
             HasCredential(c), cred' = cred,
             l \in {"context", "unprotect"} => nonce'[c] = request'[c],
             l \in {"dss", "unprotect"} => call[c].op = "load"
      PROVE  Match(c)'
  BY <1>5, Goes, Learned
<1>6. CASE Fail(c)
  BY <1>6, Ends, Outside
<1>7. CASE Return(c)
  <2>1. HasCredential(c)
    BY <1>7 DEF Return, At, HasCredential
  <2> QED
    BY <1>5, <1>6, <1>7, <2>1 DEF Return
<1>8. Encrypt(c) /\ Remember(c) => nonce'[c] = request'[c]
  BY DEF Encrypt, Remember, TypeOK, Types
<1>9. CASE RequestContext(c)
  <2>1. HasCredential(c)
    BY <1>9 DEF RequestContext, At, HasCredential, InSession
  <2> QED
    BY <1>5, <1>6, <1>8, <1>9, <2>1 DEF RequestContext, GetAuthorizationContext, Try
<1>10. CASE GetAuthContext(c)
  <2>1. HasCredential(c)
    BY <1>10 DEF GetAuthContext, At, HasCredential, InSession
  <2> QED
    BY <1>5, <1>6, <1>10, <2>1 DEF GetAuthContext, Try, Match
<1>11. CASE RequestSecret(c)
  <2>1. HasCredential(c) /\ pc[c] = "dss"
    BY <1>11 DEF RequestSecret, At, HasCredential, InSession
  <2> QED
    BY <1>5, <1>6, <1>8, <1>11, <2>1 DEF RequestSecret, GetSecret, Try, Match
<1>12. CASE CloseSession(c)
  <2>1. pc[c] = "cleanup" /\ UNCHANGED <<pc, call>>
    BY <1>12 DEF CloseSession, At
  <2> QED
    BY <2>1, Outside DEF InSession
<1> QED
  BY <1>2, <1>3, <1>4, <1>7, <1>9, <1>10, <1>11, <1>12 DEF Step, Establishing

LEMMA NextMatch == MatchInv /\ [Next]_vars => MatchInv'
<1> SUFFICES ASSUME MatchInv, [Next]_vars PROVE MatchInv'
  OBVIOUS
<1>0. TypeOK /\ HandlesOwned /\ Newest /\ \A c \in Callers : Match(c)
  BY DEF MatchInv
<1>1. TypeOK' /\ HandlesOwned'
  BY <1>0, NextType, NextOwned
<1>2. CASE UNCHANGED vars
  BY <1>0, <1>1, <1>2
     DEF vars, MatchInv, Newest, Match, HasCredential, Loads, MadeAgain
<1>3. CASE Next
  <2> SUFFICES ASSUME NEW c \in Callers,
                      \/ \E n \in Names :
                           \/ \E o \in Options : CreateUserBoundKey(c, n, o)
                           \/ \E k \in sealed \cup {0}, stale \in BOOLEAN :
                                LoadUserBoundKey(c, n, k, stale)
                      \/ Challenge(c) \/ HostStep(c) \/ Step(c)
               PROVE  MatchInv'
    BY <1>3 DEF Next
  <2>1. /\ \A k \in DOMAIN keys : k \in DOMAIN keys' /\ keys'[k] = keys[k]
        /\ Newest'
    BY <1>0, StoreStep
  <2>2. ASSUME NEW d \in Callers \ {c} PROVE Match(d)'
    <3>1. /\ pc'[d] = pc[d] /\ call'[d] = call[d] /\ cred'[d] = cred[d]
          /\ nonce'[d] = nonce[d] /\ request'[d] = request[d]
      BY <1>0, OtherCalls
    <3> QED
      BY <1>0, <2>1, <3>1, Learned DEF Match, HasCredential
  <2>3. ASSUME NEW n \in Names, NEW o \in Options, CreateUserBoundKey(c, n, o)
        PROVE  Match(c)'
    BY <1>0, <2>3 DEF CreateUserBoundKey, Begin, Goto, TypeOK, Types, Match,
       HasCredential, InSession
  <2>4. ASSUME NEW n \in Names, NEW k \in sealed \cup {0}, NEW stale \in BOOLEAN,
               LoadUserBoundKey(c, n, k, stale)
        PROVE  Match(c)'
    <3>1. CASE stale \/ k = 0
      BY <1>0, <2>4, <3>1 DEF LoadUserBoundKey, HoldsBoundKey, Begin, Goto, TypeOK,
         Types, Match, HasCredential, InSession, NoCall
    <3>2. CASE ~stale /\ k # 0
      <4>1. Begin(c, [op |-> "load", name |-> n, key |-> k], "format")
        BY <2>4, <3>2 DEF LoadUserBoundKey, HoldsBoundKey
      <4>2. /\ pc'[c] = "format" /\ keys' = keys
            /\ call'[c] = [op |-> "load", name |-> n, key |-> k]
        BY <1>0, <4>1 DEF Begin, Goto, TypeOK, Types, system
      <4>3. k \in DOMAIN keys
        BY <1>0, <3>2 DEF TypeOK, Types
      <4> QED
        BY <4>2, <4>3 DEF Match, HasCredential, InSession
    <3> QED
      BY <3>1, <3>2
  <2>5. Challenge(c) \/ HostStep(c) \/ Step(c) => Match(c)'
    BY <1>0, <2>1, OwnStep
  <2> QED
    BY <1>1, <2>1, <2>2, <2>3, <2>4, <2>5 DEF MatchInv
<1> QED
  BY <1>2, <1>3

(* A call fails for a nonce, a cache option or a key only for the reasons  *)
(* given, whatever the other calls create meanwhile (userboundkey.vtl1.cpp *)
(* :403-448, 574-666).                                                     *)
THEOREM Matches == Safety => []AnswersMatch
<1>1. MatchInv => AnswersMatch
  BY DEF MatchInv, Match, HasCredential, InSession, Loads, MadeAgain, AnswersMatch
<1> QED
  BY <1>1, InitMatch, NextMatch, PTL DEF Safety

-----------------------------------------------------------------------------
(***************************************************************************)
(* Why calls are served: one that has yet to ask knows what for, and while *)
(* no callback is in the enclave it has a thread free.                     *)
(***************************************************************************)
Asks == \A c \in Callers :
  pc[c] \in {"format", "establish"} => call[c].op \in {"create", "load"}

(* A call asks for what it was made for.                                   *)
LEMMA NextAsks == TypeOK /\ Asks /\ [Next]_vars => Asks'
<1> SUFFICES ASSUME TypeOK, Asks, [Next]_vars PROVE Asks'
  OBVIOUS
<1>1. CASE UNCHANGED vars
  BY <1>1 DEF vars, Asks
<1>2. CASE Next
  <2>1. PICK c \in Callers :
          \/ \E n \in Names :
               \/ \E o \in Options : CreateUserBoundKey(c, n, o)
               \/ \E k \in sealed \cup {0}, stale \in BOOLEAN :
                    LoadUserBoundKey(c, n, k, stale)
          \/ Challenge(c) \/ HostStep(c) \/ Step(c)
    BY <1>2 DEF Next
  <2>2. \A d \in Callers \ {c} : pc'[d] = pc[d] /\ call'[d] = call[d]
    BY <2>1, OtherCalls
  <2>3. pc'[c] \in {"format", "establish"} => call'[c].op \in {"create", "load"}
    <3> USE DEF TypeOK, Types, flow, Pass, Leave, Fail, Try, Goto, Asks
    <3>1. CASE \E n \in Names :
                 \/ \E o \in Options : CreateUserBoundKey(c, n, o)
                 \/ \E k \in sealed \cup {0}, stale \in BOOLEAN :
                      LoadUserBoundKey(c, n, k, stale)
      BY <3>1 DEF CreateUserBoundKey, LoadUserBoundKey, Begin
    <3>2. CASE Challenge(c) \/ HostStep(c)
      BY <3>2 DEF Challenge, HostStep, EnterEnclave, Attest, Set, DestroyHandle
    <3>3. CASE FormatKeyName(c)
      BY <3>3 DEF FormatKeyName, At
    <3>4. CASE Establish(c) \/ RequestCreate(c) \/ Open(c)
               \/ RequestFails(c) \/ Unwind(c) \/ Return(c)
      BY <3>4 DEF Establish, RequestCreate, Open, Established, RequestFails, Unwind, Return
    <3>5. CASE RequestContext(c) \/ GetAuthContext(c) \/ Protect(c) \/ RequestSecret(c)
               \/ Unprotect(c)
      BY <3>5 DEF RequestContext, GetAuthContext, Protect, RequestSecret, Unprotect,
         GetAuthorizationContext, GetSecret
    <3>6. CASE CloseSession(c) \/ DeleteCredential(c) \/ DeleteFails(c)
      BY <3>6 DEF CloseSession, DeleteCredential, DeleteFails
    <3> QED
      BY <2>1, <3>1, <3>2, <3>3, <3>4, <3>5, <3>6 DEF Step, Establishing
  <2> QED
    BY <2>2, <2>3 DEF Asks
<1> QED
  BY <1>1, <1>2

(* With no callback inside, each call has at most one thread.              *)
LEMMA ThreadIsFree ==
  ASSUME Cardinality(Callers) < EnclaveThreads,
         \A d \in Callers : callback[d] # "attest"
  PROVE  FreeThread
<1> DEFINE busy == {c \in Callers : pc[c] # "idle"}
           in   == {c \in Callers : callback[c] = "attest"}
<1>1. /\ Cardinality(busy) \in Nat /\ Cardinality(Callers) \in Nat
      /\ Cardinality(busy) <= Cardinality(Callers)
  BY FiniteCallers, FS_Subset, FS_CardinalityType, busy \in SUBSET Callers
<1>2. Cardinality(in) = 0
  BY FS_EmptySet, in = {}
<1>3. InUse = Cardinality(busy) + Cardinality(in)
  BY DEF InUse
<1> HIDE DEF busy, in
<1> QED
  BY <1>1, <1>2, <1>3, FiniteCallers DEF FreeThread

(* Where a call can be, it can go on, or waits for a thread.               *)
LEMMA GoesOnWithThread ==
  ASSUME TypeOK, Asks, FreeThread, NEW c \in Callers, Unfinished(c)
  PROVE  GoesOn(c)
<1>1. pc[c] \in Pcs /\ callback[c] \in {"none", "call", "attest", "store"}
  BY DEF TypeOK, Types
<1>2. CASE callback[c] # "none"
  BY <1>1, <1>2 DEF GoesOn, ClosesOrStores
<1>3. CASE callback[c] = "none" /\ pc[c] = "idle"
  BY <1>3 DEF GoesOn, ClosesOrStores, Unfinished
<1>4. CASE callback[c] = "none" /\ pc[c] \in {"establish", "request", "unwind"}
  BY <1>4 DEF GoesOn, ClosesOrStores, Asks
<1>5. CASE callback[c] = "none" /\ pc[c] \in InSession \cup {"format", "return", "cleanup"}
  BY <1>5 DEF GoesOn
<1> QED
  BY <1>1, <1>2, <1>3, <1>4, <1>5 DEF Pcs

(* Calls never wait for each other for ever, if the enclave has a thread   *)
(* more than calls are made, however often each is challenged and whatever *)
(* fails: the safety half of CallsEnd (userboundkey.vtl0.cpp:114-122,      *)
(* 278-287).                                                               *)
THEOREM Served == Safety => []CallsAreServed
<1>1. Init => TypeOK /\ HandlesOwned /\ Asks
  BY InitType DEF Init, Asks
<1>2. TypeOK /\ HandlesOwned /\ Asks /\ [Next]_vars => (TypeOK /\ HandlesOwned /\ Asks)'
  BY NextType, NextOwned, NextAsks
<1>3. TypeOK /\ HandlesOwned /\ Asks => CallsAreServed
  <2> SUFFICES ASSUME TypeOK, Asks, Cardinality(Callers) < EnclaveThreads,
                      NEW c \in Callers, Unfinished(c),
                      \A d \in Callers : callback[d] # "attest"
               PROVE  GoesOn(c)
    BY DEF CallsAreServed
  <2> QED
    BY ThreadIsFree, GoesOnWithThread
<1> QED
  BY <1>1, <1>2, <1>3, PTL DEF Safety
==============================================================================
