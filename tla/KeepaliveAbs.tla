---------------------------- MODULE KeepaliveAbs ----------------------------
(***************************************************************************)
(* What the weak table and the keepalive mechanism promise an object with  *)
(* automatic storage, without references, promises or counts: from when    *)
(* its id is stored until it is erased, any thread may come to use the     *)
(* object; nobody comes after that; and the object goes once the last one  *)
(* that uses it has let go.                                                *)
(***************************************************************************)
CONSTANT Threads

VARIABLES
  phase,  \* "made", "known" by its id, "erased" or "gone"
  using   \* the threads that use the object

vars == <<phase, using>>

Init == phase \in {"made", "known"} /\ using = {}

Store == phase = "made" /\ phase' = "known" /\ UNCHANGED using

Resolve(t) == /\ phase = "known"
              /\ using' = using \cup {t}
              /\ UNCHANGED phase

LetGo(t) == /\ t \in using
            /\ using' = using \ {t}
            /\ UNCHANGED phase

Erase == phase = "known" /\ phase' = "erased" /\ UNCHANGED using

Destroy == phase = "erased" /\ using = {} /\ phase' = "gone" /\ UNCHANGED using

Next == Store \/ Erase \/ Destroy \/ \E t \in Threads : Resolve(t) \/ LetGo(t)

Safety == Init /\ [][Next]_vars
==============================================================================
