----------------------------- MODULE TaskpoolAbs -----------------------------
(***************************************************************************)
(* What the task pool promises its users, with no threads, queue, handles  *)
(* or VTL boundary in sight: a task is queued, runs at most once, and is   *)
(* done; a cancellation drops every task that has not started; a pool      *)
(* closes only when nothing runs, and, if it must finish its tasks, only   *)
(* when nothing is queued.                                                 *)
(***************************************************************************)
CONSTANTS Tasks, MustFinish

VARIABLES status, pool

vars == <<status, pool>>

Status == {"new", "queued", "running", "done", "dropped"}

With(s) == {t \in Tasks : status[t] = s}
Change(from, to) == status' = [t \in Tasks |->
                                 IF status[t] = from THEN to ELSE status[t]]

Init == status = [t \in Tasks |-> "new"] /\ pool = "open"

Submit(t) == /\ pool # "closed" /\ status[t] = "new"
             /\ status' = [status EXCEPT ![t] = "queued"]
             /\ UNCHANGED pool

Start(t) == /\ pool # "closed" /\ status[t] = "queued"
            /\ status' = [status EXCEPT ![t] = "running"]
            /\ UNCHANGED pool

Finish(t) == /\ status[t] = "running"
             /\ status' = [status EXCEPT ![t] = "done"]
             /\ UNCHANGED pool

Cancel == pool = "open" /\ Change("queued", "dropped") /\ UNCHANGED pool

Close == pool = "open" /\ pool' = "closing" /\ UNCHANGED status

Closed == /\ pool = "closing" /\ With("running") = {}
          /\ MustFinish => With("queued") = {}
          /\ pool' = "closed"
          /\ Change("queued", "dropped")

Next == \/ \E t \in Tasks : Submit(t) \/ Start(t) \/ Finish(t)
        \/ Cancel \/ Close \/ Closed

Safety == Init /\ [][Next]_vars

(* A task that runs is finished; a must-finish pool starts what is queued  *)
(* unless it is cancelled; a closing pool closes.                          *)
Spec == /\ Safety
        /\ \A t \in Tasks : WF_vars(Finish(t))
        /\ \A t \in Tasks : MustFinish => WF_vars(Start(t))
        /\ WF_vars(Closed)
==============================================================================
