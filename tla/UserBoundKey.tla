------------------------------ MODULE UserBoundKey ------------------------------
(***************************************************************************)
(* Keys of an enclave that only a user of Windows Hello can unlock.  A     *)
(* call of create_user_bound_key or load_user_bound_key keeps its enclave  *)
(* thread while it asks the host for a credential; the credential manager  *)
(* (KCM, of the system) then challenges the enclave, through the host and  *)
(* on another thread of the enclave, which opens a session.  The session's *)
(* handle travels by way of the host to the call that asked, and whoever   *)
(* has it when something fails must close it.                              *)
(***************************************************************************)
EXTENDS Integers, Sequences, FiniteSets

CONSTANTS
  Callers,        \* code of the enclave that makes, loads and reseals keys
  Names,          \* names of keys
  Options,        \* cache options asked for, as numbers
  MaxSessions,    \* bound: sessions open at a time
  EnclaveThreads, \* threads the enclave has
  MaxKeys,        \* bound: credentials ever made
  MaxCreate,      \* bound: challenges during one request for a new key
  MaxOpen,        \* bound: challenges during one request to open a key
  MaxLost,        \* bound: sessions that are never closed
  Lang,           \* language of the enclave and its host
  Faults          \* what may go wrong: "system" calls, "return"s between the sides

ASSUME UserBoundKeyAssumption ==
  /\ MaxSessions \in Nat
  /\ Options \subseteq Nat /\ MaxKeys \in Nat
  /\ MaxCreate \in Nat /\ MaxOpen \in Nat /\ MaxLost \in Nat
  /\ Lang \in {"cpp", "rust"} /\ Faults \subseteq {"system", "return"}
ASSUME FiniteCallers == IsFiniteSet(Callers) /\ EnclaveThreads \in Nat

VARIABLES
  pc,          \* where each call is
  call,        \* its arguments, while it still reads them
  callback,    \* where the challenge callback of its request is
  challenges,  \* how often the request was challenged
  hold,        \* the session handles the call and its host have
  nonce,       \* localNonce
  request,     \* the nonce in the encrypted request that the KCM answers
  cred,        \* the key of the credential it refers to, 0 for none
  open,        \* sessions that are open in the enclave
  asked,       \* requests made in a session
  lost,        \* open sessions whose handle an error has taken along
  keys,        \* credentials ever made, with their name and cache option
  store,       \* the credential under a name, 0 for none
  sealed,      \* the keys for which a bound key has been sealed
  terminated   \* an exception has left a destructor

vars == <<pc, call, callback, challenges, hold, nonce, request, cred, open, asked,
          lost, keys, store, sealed, terminated>>

flow    == <<pc, call>>
host    == <<callback, challenges>>
crypto  == <<nonce, request>>
session == <<hold, open, asked, lost>>
system  == <<keys, store>>

(* A handle is in the return value of the attestation ("report"), in the   *)
(* host's unique_sessionhandle, in the return value of the request         *)
(* ("return") or in the enclave's unique_sessionhandle.                    *)
Places   == {"report", "host", "return", "enclave"}
Sessions == 1..MaxSessions
None     == 0
Nothing  == [p \in Places |-> None]
NoCall   == [op |-> "none"]

May(f)     == f \in Faults
MayLose    == May("return") /\ Cardinality(lost) < MaxLost
At(c, l)   == ~terminated /\ pc[c] = l
Goto(c, l) == pc' = [pc EXCEPT ![c] = l]
Pass(c, l) == Goto(c, l) /\ UNCHANGED call
Leave(c, l) == Goto(c, l) /\ call' = [call EXCEPT ![c] = NoCall]
Fail(c)    == Leave(c, "cleanup")
Try(c, l)  == \/ Pass(c, l)
              \/ May("system") /\ Fail(c)

(* Mutant: the callback keeps its thread until it has stored the session.  *)
InUseUntilStored == Cardinality({c \in Callers : pc[c] # "idle"})
                      + Cardinality({c \in Callers : callback[c] \in {"attest", "store"}})

(* Threads of the enclave in use; CallEnclave waits for a free one.        *)
InUse      == Cardinality({c \in Callers : pc[c] # "idle"})
                + Cardinality({c \in Callers : callback[c] = "attest"})
FreeThread == InUse < EnclaveThreads

(* What the host makes of a cache option.                                  *)
ConvertCacheConfig(o) == IF o \in {0, 1} THEN o ELSE 0

Init ==
  /\ pc = [c \in Callers |-> "idle"] /\ call = [c \in Callers |-> NoCall]
  /\ callback = [c \in Callers |-> "none"] /\ challenges = [c \in Callers |-> 0]
  /\ hold = [c \in Callers |-> Nothing]
  /\ nonce = [c \in Callers |-> 0] /\ request = [c \in Callers |-> 0]
  /\ cred = [c \in Callers |-> 0]
  /\ open = {} /\ asked = [s \in Sessions |-> 0] /\ lost = {}
  /\ keys = <<>> /\ store = [n \in Names |-> 0]
  /\ sealed = {} /\ terminated = FALSE

-----------------------------------------------------------------------------
(* Calls.                                                                  *)
Begin(c, r, first) ==
  /\ At(c, "idle") /\ callback[c] = "none" /\ hold[c] = Nothing /\ FreeThread
  /\ Goto(c, first)
  /\ call' = [call EXCEPT ![c] = r]
  /\ UNCHANGED <<host, crypto, session, cred, system, sealed, terminated>>

CreateUserBoundKey(c, n, o) ==
  Begin(c, [op |-> "create", name |-> n, option |-> o], "format")

(* Key 0 is other data that the enclave has sealed.                        *)
HoldsBoundKey(k) == k # 0

(* What is unsealed must be fresh, which resealing makes it, and hold a    *)
(* bound key.                                                              *)
LoadUserBoundKey(c, n, k, stale) ==
  IF stale \/ ~HoldsBoundKey(k)
  THEN Begin(c, NoCall, "cleanup")
  ELSE Begin(c, [op |-> "load", name |-> n, key |-> k], "format")

-----------------------------------------------------------------------------
(* The host formats the name, adding the user's identity; the enclave      *)
(* checks what has become of it.                                           *)
FormatKeyName(c) ==
  /\ At(c, "format")
  /\ Try(c, "establish")
  /\ UNCHANGED <<host, crypto, session, cred, system, sealed, terminated>>

(* The host asks the KCM, for a new key after removing the old one of the  *)
(* name, whatever comes of that.                                           *)
Establish(c) ==
  /\ At(c, "establish")
  /\ Pass(c, "request")
  /\ \/ /\ call[c].op = "create"
        /\ store' = [store EXCEPT ![call[c].name] = 0]
     \/ /\ call[c].op = "load" \/ May("system")
        /\ UNCHANGED store
  /\ UNCHANGED <<host, crypto, session, cred, keys, sealed, terminated>>

(* The challenge callback, on a thread of the system: it calls the enclave *)
(* for a report, which comes with a session.                               *)
Challenge(c) ==
  /\ At(c, "request") /\ callback[c] = "none"
  /\ challenges[c] < IF call[c].op = "create" THEN MaxCreate ELSE MaxOpen
  /\ challenges' = [challenges EXCEPT ![c] = @ + 1]
  /\ callback' = [callback EXCEPT ![c] = "call"]
  /\ UNCHANGED <<flow, crypto, session, cred, system, sealed, terminated>>

EnterEnclave(c) ==
  /\ ~terminated /\ callback[c] = "call" /\ FreeThread
  /\ callback' = [callback EXCEPT ![c] = "attest"]
  /\ UNCHANGED <<flow, challenges, crypto, session, cred, system, sealed, terminated>>

(* A new handle may be that of a session closed before.                    *)
Fresh == LET free == Sessions \ open
         IN  {s \in free : \A r \in free : s <= r}

(* userboundkey_get_attestation_report.  Once its handle is a number, a    *)
(* failing return leaves the session to nobody.                            *)
Attest(c) ==
  /\ ~terminated /\ callback[c] = "attest"
  /\ \/ \E s \in Fresh :
          /\ open' = open \cup {s}
          /\ \/ /\ hold' = [hold EXCEPT ![c]["report"] = s]
                /\ callback' = [callback EXCEPT ![c] = "store"]
                /\ UNCHANGED lost
             \/ /\ MayLose
                /\ lost' = lost \cup {s}
                /\ callback' = [callback EXCEPT ![c] = "none"]
                /\ UNCHANGED hold
     \/ /\ May("system") \/ Fresh = {}
        /\ callback' = [callback EXCEPT ![c] = "none"]
        /\ UNCHANGED <<hold, open, lost>>
  /\ UNCHANGED <<flow, challenges, crypto, asked, cred, system, sealed, terminated>>

Close(s) == open' = open \ {s} /\ asked' = [asked EXCEPT ![s] = 0]

(* unique_sessionhandle::reset: userboundkey_close_session in the enclave, *)
(* or an error that is swallowed with the handle.                          *)
Reset(c) ==
  /\ hold[c]["host"] # None /\ FreeThread
  /\ hold' = [hold EXCEPT ![c]["host"] = None]
  /\ \/ Close(hold[c]["host"]) /\ UNCHANGED lost
     \/ /\ MayLose
        /\ lost' = lost \cup {hold[c]["host"]}
        /\ UNCHANGED <<open, asked>>

Keep(c) == /\ hold' = [hold EXCEPT ![c]["host"] = hold[c]["report"], ![c]["report"] = None]
           /\ callback' = [callback EXCEPT ![c] = "none"]
           /\ UNCHANGED <<open, asked, lost>>

(* Mutant: a second session takes the place of the first.                  *)
SetOver(c) ==
  /\ ~terminated /\ callback[c] = "store"
  /\ Keep(c)
  /\ UNCHANGED <<flow, challenges, crypto, cred, system, sealed, terminated>>

(* unique_sessionhandle::set.                                              *)
Set(c) ==
  /\ ~terminated /\ callback[c] = "store"
  /\ \/ Reset(c) /\ UNCHANGED callback
     \/ hold[c]["host"] = None /\ Keep(c)
  /\ UNCHANGED <<flow, challenges, crypto, cred, system, sealed, terminated>>

(* The request is over, with a credential of key k: its reference and the  *)
(* session go into the return value.                                       *)
Established(c, k) ==
  /\ callback[c] = "none"
  /\ challenges' = [challenges EXCEPT ![c] = 0]
  /\ cred' = [cred EXCEPT ![c] = k]
  /\ hold' = [hold EXCEPT ![c]["return"] = hold[c]["host"], ![c]["host"] = None]
  /\ Pass(c, "return")
  /\ UNCHANGED <<callback, crypto, open, asked, lost, sealed, terminated>>

RequestCreate(c) ==
  /\ At(c, "request") /\ call[c].op = "create" /\ Len(keys) < MaxKeys
  /\ keys' = Append(keys, [name   |-> call[c].name,
                           option |-> ConvertCacheConfig(call[c].option)])
  /\ store' = [store EXCEPT ![call[c].name] = Len(keys) + 1]
  /\ Established(c, Len(keys) + 1)

Open(c) ==
  /\ At(c, "request") /\ call[c].op = "load" /\ store[call[c].name] # 0
  /\ Established(c, store[call[c].name])
  /\ UNCHANGED system

(* The user cancels, or there is no such key, perhaps while the callback   *)
(* is still at work.                                                       *)
RequestFails(c) ==
  /\ At(c, "request")
  /\ Leave(c, "unwind")
  /\ challenges' = [challenges EXCEPT ![c] = 0]
  /\ UNCHANGED <<callback, crypto, session, cred, system, sealed, terminated>>

(* The host's handle is shared by the call and the callback: the last of   *)
(* them to end closes it.                                                  *)
DestroyHandle(c) ==
  /\ ~terminated /\ pc[c] # "request" /\ callback[c] = "none"
  /\ Reset(c)
  /\ UNCHANGED <<flow, host, crypto, cred, system, sealed, terminated>>

Unwind(c) ==
  /\ At(c, "unwind") /\ (hold[c]["host"] = None \/ callback[c] # "none")
  /\ Pass(c, "cleanup")
  /\ UNCHANGED <<host, crypto, session, cred, system, sealed, terminated>>

(* Back in the enclave, unless what was returned does not get there.       *)
Return(c) ==
  /\ At(c, "return")
  /\ \/ /\ hold' = [hold EXCEPT ![c]["enclave"] = hold[c]["return"],
                               ![c]["return"] = None]
        /\ Pass(c, "rac")
        /\ UNCHANGED <<lost, cred>>
     \/ /\ MayLose
        /\ hold' = [hold EXCEPT ![c]["return"] = None]
        /\ lost' = lost \cup ({hold[c]["return"]} \ {None})
        /\ cred' = [cred EXCEPT ![c] = 0]
        /\ Fail(c)
  /\ UNCHANGED <<host, crypto, open, asked, system, sealed, terminated>>

-----------------------------------------------------------------------------
(* The two requests through the session, whose nonces the system counts,   *)
(* and the host's calls on the credential that answer them.                *)
Encrypt(c) ==
  /\ asked' = [asked EXCEPT ![hold[c]["enclave"]] = @ + 1]
  /\ request' = [request EXCEPT ![c] = asked[hold[c]["enclave"]] + 1]

Remember(c) == nonce' = [nonce EXCEPT ![c] = asked[hold[c]["enclave"]] + 1]

GetAuthorizationContext(c) == Try(c, "context")

RequestContext(c) ==
  /\ At(c, "rac")
  /\ IF hold[c]["enclave"] = None THEN Fail(c) /\ UNCHANGED <<asked, crypto>>
     ELSE \/ Encrypt(c) /\ Remember(c) /\ GetAuthorizationContext(c)
          \/ May("system") /\ Fail(c) /\ UNCHANGED <<asked, crypto>>
  /\ UNCHANGED <<host, hold, open, lost, cred, system, sealed, terminated>>

(* The answer must carry the nonce and the credential the cache option.  A *)
(* load that asks for another option fails as if a system call did.        *)
GetAuthContext(c) ==
  /\ At(c, "context")
  /\ IF \/ nonce[c] # request[c]
        \/ call[c].op = "create" /\ keys[cred[c]].option # call[c].option
     THEN Fail(c)
     ELSE Try(c, IF call[c].op = "create" THEN "protect" ELSE "dss")
  /\ UNCHANGED <<host, crypto, session, cred, system, sealed, terminated>>

Protect(c) ==
  /\ At(c, "protect")
  /\ Leave(c, "cleanup")
  /\ \/ sealed' = sealed \cup {cred[c]}
     \/ May("system") /\ UNCHANGED sealed
  /\ UNCHANGED <<host, crypto, session, cred, system, terminated>>

GetSecret(c) == Try(c, "unprotect")

(* Mutant: the second request leaves the nonce of the first.               *)
RequestSecretOldNonce(c) ==
  /\ At(c, "dss")
  /\ Encrypt(c) /\ UNCHANGED nonce /\ GetSecret(c)
  /\ UNCHANGED <<host, hold, open, lost, cred, system, sealed, terminated>>

RequestSecret(c) ==
  /\ At(c, "dss")
  /\ \/ Encrypt(c) /\ Remember(c) /\ GetSecret(c)
     \/ May("system") /\ Fail(c) /\ UNCHANGED <<asked, crypto>>
  /\ UNCHANGED <<host, hold, open, lost, cred, system, sealed, terminated>>

(* The secret unlocks what was bound with it: the call returns a key, if   *)
(* the nonce is the answer's and the credential the blob's, or an error.   *)
Unprotect(c) ==
  /\ At(c, "unprotect")
  /\ Leave(c, "cleanup")
  /\ UNCHANGED <<host, crypto, session, cred, system, sealed, terminated>>

-----------------------------------------------------------------------------
(* Destructors of the enclave: the session (and the authorization context) *)
(* before the credential, which the host has to delete.                    *)
CloseSession(c) ==
  /\ At(c, "cleanup") /\ hold[c]["enclave"] # None
  /\ Close(hold[c]["enclave"])
  /\ hold' = [hold EXCEPT ![c]["enclave"] = None]
  /\ nonce' = [nonce EXCEPT ![c] = 0] /\ request' = [request EXCEPT ![c] = 0]
  /\ UNCHANGED <<flow, host, lost, cred, system, sealed, terminated>>

(* Mutant: the session of a call is not closed when the call fails.        *)
DeleteCredentialOnly(c) ==
  /\ At(c, "cleanup")
  /\ Pass(c, "idle")
  /\ cred' = [cred EXCEPT ![c] = 0]
  /\ UNCHANGED <<host, crypto, session, system, sealed, terminated>>

DeleteCredential(c) ==
  /\ At(c, "cleanup") /\ hold[c]["enclave"] = None
  /\ Pass(c, "idle")
  /\ cred' = [cred EXCEPT ![c] = 0]
  /\ UNCHANGED <<host, crypto, session, system, sealed, terminated>>

(* When the host cannot be called, Rust drops the reference and C++ has an *)
(* exception in a destructor.                                              *)
DeleteFails(c) ==
  /\ At(c, "cleanup") /\ hold[c]["enclave"] = None
  /\ Lang = "cpp" /\ May("return") /\ cred[c] # 0
  /\ terminated' = TRUE
  /\ UNCHANGED <<flow, cred, host, crypto, session, system, sealed>>

HostStep(c) == EnterEnclave(c) \/ Attest(c) \/ Set(c) \/ DestroyHandle(c)
Establishing(c) == \/ FormatKeyName(c) \/ Establish(c)
                   \/ RequestCreate(c) \/ Open(c) \/ RequestFails(c) \/ Unwind(c) \/ Return(c)
Step(c) == \/ Establishing(c) \/ RequestContext(c) \/ GetAuthContext(c)
           \/ Protect(c) \/ RequestSecret(c) \/ Unprotect(c)
           \/ CloseSession(c) \/ DeleteCredential(c) \/ DeleteFails(c)

Next ==
  \E c \in Callers :
       \/ \E n \in Names :
            \/ \E o \in Options : CreateUserBoundKey(c, n, o)
            \/ \E k \in sealed \cup {0}, stale \in BOOLEAN :
                 LoadUserBoundKey(c, n, k, stale)
       \/ Challenge(c) \/ HostStep(c) \/ Step(c)

Safety == Init /\ [][Next]_vars

(* Code that can go on does; the KCM ends a request, with a credential or  *)
(* because the user gives up, when no challenge is under way; and          *)
(* CallEnclave serves those who wait for a thread in turn.                 *)
Run(c) == (pc[c] = "request" => callback[c] = "none") /\ Step(c)

Spec == Safety /\ \A c \in Callers : WF_vars(Run(c)) /\ SF_vars(HostStep(c))
-----------------------------------------------------------------------------
InSession == {"rac", "context", "protect", "dss", "unprotect"}
Pcs       == {"idle", "format", "establish", "request", "unwind", "return",
              "cleanup"} \cup InSession

Call ==
  {NoCall} \cup [op : {"create"}, name : Names, option : Options]
           \cup [op : {"load"}, name : Names, key : Nat]

Types ==
  /\ pc \in [Callers -> Pcs] /\ call \in [Callers -> Call]
  /\ callback \in [Callers -> {"none", "call", "attest", "store"}]
  /\ challenges \in [Callers -> Nat]
  /\ hold \in [Callers -> [Places -> Sessions \cup {None}]]
  /\ open \subseteq Sessions /\ lost \subseteq open /\ asked \in [Sessions -> Nat]
  /\ nonce \in [Callers -> Nat] /\ request \in [Callers -> Nat]
  /\ keys \in Seq([name : Names, option : Nat])
  /\ store \in [Names -> 0..Len(keys)] /\ cred \in [Callers -> 0..Len(keys)]
  /\ sealed \subseteq 0..Len(keys) /\ terminated \in BOOLEAN

(* Type invariant, with what a call may have where it is.                  *)
TypeOK ==
  /\ Types
  /\ \A c \in Callers :
       /\ hold[c]["report"] # None <=> callback[c] = "store"
       /\ hold[c]["return"] # None => pc[c] = "return"
       /\ hold[c]["enclave"] # None => pc[c] \in InSession \cup {"cleanup"}
       /\ pc[c] \in InSession \ {"rac"} => hold[c]["enclave"] # None
       /\ cred[c] # 0 => pc[c] \in InSession \cup {"return", "cleanup"}

(* Every open session has exactly one owner, who will close it, but for    *)
(* those whose handle went with a return that failed, and nobody has the   *)
(* handle of a session that is closed (userboundkey.vtl0.cpp:42-122,       *)
(* 134-182, 300-305 and userboundkey.vtl1.cpp:119-142, 394-395).           *)
HandlesOwned ==
  /\ \A c, d \in Callers, p, q \in Places :
       hold[c][p] # None =>
         /\ hold[c][p] \in open \ lost
         /\ hold[c][p] = hold[d][q] => c = d /\ p = q
  /\ \A s \in open \ lost : \E c \in Callers, p \in Places : hold[c][p] = s

(* No call fails because of another nonce than that of the request which   *)
(* was answered; a create fails for its cache option only if the host maps *)
(* it to another; and a key is refused only if its name has a credential   *)
(* that a later create made, or another name was given (userboundkey.vtl1  *)
(* .cpp:403-448, 574-666).                                                 *)
AnswersMatch ==
  \A c \in Callers :
    /\ pc[c] \in {"context", "unprotect"} => nonce[c] = request[c]
    /\ pc[c] = "context" /\ call[c].op = "create" =>
         keys[cred[c]].option = ConvertCacheConfig(call[c].option)
    /\ pc[c] = "unprotect" =>
         \/ cred[c] = call[c].key
         \/ keys[call[c].key].name # call[c].name
         \/ \E k \in DOMAIN keys :
              k > call[c].key /\ keys[k].name = call[c].name

(* What a call, its host or its callback can do next by itself.            *)
ClosesOrStores(c) ==
  \/ callback[c] = "store" /\ (hold[c]["host"] = None \/ FreeThread)
  \/ /\ callback[c] = "none" /\ pc[c] # "request"
     /\ hold[c]["host"] # None /\ FreeThread
GoesOn(c) ==
  \/ callback[c] = "call" /\ FreeThread
  \/ callback[c] = "attest"
  \/ ClosesOrStores(c)
  \/ pc[c] = "establish" /\ (call[c].op \in {"create", "load"} \/ May("system"))
  \/ pc[c] = "request" /\ callback[c] = "none"
  \/ pc[c] = "unwind" /\ (hold[c]["host"] = None \/ callback[c] # "none")
  \/ pc[c] \in InSession \cup {"format", "return", "cleanup"}

(* Calls never wait for each other for ever, if the enclave has a thread   *)
(* more than calls are made: one that is not over can go on, or a callback *)
(* is in the enclave, holding up the others, and will leave it again       *)
(* (userboundkey.vtl0.cpp:114-122, 278-287).                               *)
Unfinished(c) == pc[c] # "idle" \/ callback[c] # "none" \/ hold[c]["host"] # None
CallsAreServed ==
  Cardinality(Callers) < EnclaveThreads /\ ~terminated =>
    \A c \in Callers :
      Unfinished(c) => GoesOn(c) \/ \E d \in Callers : callback[d] = "attest"

(* A call ends, if the enclave has a thread more than calls are made, or   *)
(* the enclave has been terminated (userboundkey.vtl0.cpp:278-287).        *)
CallsEnd ==
  \A c \in Callers : pc[c] # "idle" ~> pc[c] = "idle" \/ terminated
==============================================================================
