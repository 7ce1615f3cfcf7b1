---------------------------- MODULE TaskLifecycle ----------------------------
(***************************************************************************)
(* What the Server promises about the status column of a task, whatever    *)
(* connections, Runners and restarts do: the state machine of protocol.md  *)
(* 3.1 as the code keeps it.  A task is settled once the coroutine that    *)
(* created it has written its last status, "dispatched" or "lost".  Until  *)
(* then a result or an outage may already have ended the task, and the     *)
(* settling write discards that; from then on a terminal status is final.  *)
(***************************************************************************)
CONSTANT Task

VARIABLES
  row,      \* row[t]: the status, "none" before the task exists
  settled   \* the tasks whose creator writes the row no more

Active == {"queued", "dispatched", "running"}
Reported == {"completed", "failed", "timeout", "cancelled"}

Init ==
  /\ row = [t \in Task |-> "none"]
  /\ settled = {}

Queue(t) ==
  /\ row[t] = "none"
  /\ t \notin settled
  /\ row' = [row EXCEPT ![t] = "queued"]
  /\ UNCHANGED settled

Settle(t) ==
  /\ row[t] # "none"
  /\ t \notin settled
  /\ \E s \in {"dispatched", "lost"} : row' = [row EXCEPT ![t] = s]
  /\ settled' = settled \cup {t}

(* The Runner accepts, once.                                               *)
Start(t) ==
  /\ t \in settled
  /\ row[t] = "dispatched"
  /\ row' = [row EXCEPT ![t] = "running"]
  /\ UNCHANGED settled

(* The Runner reports a terminal state of a task that is active.           *)
Report(t) ==
  /\ row[t] \in Active
  /\ \E s \in Reported : row' = [row EXCEPT ![t] = s]
  /\ UNCHANGED settled

LoseActive == row' = [t \in Task |-> IF row[t] \in Active THEN "lost" ELSE row[t]]

(* The machine is gone: every active task at once.                         *)
Outage == LoseActive /\ UNCHANGED settled

(* The server process is gone, and with it every creator.                  *)
Reset ==
  /\ LoseActive
  /\ settled' = settled \cup {t \in Task : row[t] # "none"}

Next ==
  \/ \E t \in Task : Queue(t) \/ Settle(t) \/ Start(t) \/ Report(t)
  \/ Outage
  \/ Reset

Spec == Init /\ [][Next]_<<row, settled>>
=============================================================================
