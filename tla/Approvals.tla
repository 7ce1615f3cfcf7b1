------------------------------ MODULE Approvals ------------------------------
(***************************************************************************)
(* High-risk tool calls: approve, reject and _approval_for_decision of     *)
(* server/app/routes.py, with create_approval and dispatch_no_wait of      *)
(* services.py.  A decision request is cut where it awaits the database,   *)
(* the connector or the Runner's socket, and two requests on one approval  *)
(* interleave at these points.  What becomes of a dispatched task is       *)
(* TaskPlatform; here only its first statuses matter.                      *)
(***************************************************************************)
EXTENDS FiniteSets, Naturals

CONSTANTS
  Approval,    \* approval ids
  Connector,   \* those for a connector tool (mcp__...), which the Server runs
  Request,     \* decision requests, one HTTP call each
  Owner,       \* the requests of the machine's owner or of an admin
  None,
  MaxRestarts  \* bound: restarts of the server process

ASSUME ApprovalAssumption == /\ Connector \subseteq Approval
                             /\ Owner \subseteq Request
                             /\ None \notin Approval \cup Request
                             /\ MaxRestarts \in Nat

VARIABLES
  verdict,    \* the column Approval.status; "none" before the row exists
  linked,     \* the column Approval.task_id, as the request that made the task
  online,     \* hub.is_online(machine_id)
  pc,         \* pc[r]: where request r is
  about,      \* about[r]: the approval r decides
  choice,     \* choice[r]: the verdict r wants to give, by its endpoint
  loaded,     \* loaded[r]: the status in the row as r read it
  task,       \* task[r]: status of the Task row r made, "none" before that
  called,     \* called[r]: what connectors.call returned to r
  audited,    \* the requests that stored a ToolCall row
  deciders,   \* deciders[a]: the requests that committed a verdict (history)
  late,       \* the requests that read a row already decided on (history)
  restarts

vars == <<verdict, linked, online, pc, about, choice, loaded, task, called, audited,
          deciders, late, restarts>>

Verdict == {"none", "pending", "approved", "rejected"}

(* loaded: row and machine read; decided: verdict committed; queued: task  *)
(* row committed; sent: hub.send returned; dispatched: its status          *)
(* committed; called: the connector has answered.                          *)
Refused == {"forbidden", "conflict"}
Finished == Refused \cup {"offline", "done", "killed"}
PC == {"idle", "loaded", "decided", "queued", "sent", "dispatched", "called"} \cup Finished

Init ==
  /\ verdict = [a \in Approval |-> "none"]
  /\ linked = [a \in Approval |-> None]
  /\ online \in BOOLEAN
  /\ pc = [r \in Request |-> "idle"]
  /\ about = [r \in Request |-> None]
  /\ choice = [r \in Request |-> "none"]
  /\ loaded = [r \in Request |-> "none"]
  /\ task = [r \in Request |-> "none"]
  /\ called = [r \in Request |-> "none"]
  /\ audited = {}
  /\ deciders = [a \in Approval |-> {}]
  /\ late = {}
  /\ restarts = 0

Goto(r, l) == pc' = [pc EXCEPT ![r] = l]

(* create_approval, from a POST /api/tasks (machine online) or from a tool *)
(* call of the Agent Loop (online or not).                                 *)
Ask(a) ==
  /\ verdict[a] = "none"
  /\ verdict' = [verdict EXCEPT ![a] = "pending"]
  /\ UNCHANGED <<linked, online, pc, about, choice, loaded, task, called, audited,
                 deciders, late, restarts>>

(* The row is read first, the machine after it.                            *)
Load(r, a, v) ==
  /\ pc[r] = "idle"
  /\ verdict[a] # "none"
  /\ about' = [about EXCEPT ![r] = a]
  /\ choice' = [choice EXCEPT ![r] = v]
  /\ loaded' = [loaded EXCEPT ![r] = verdict[a]]
  /\ late' = IF deciders[a] = {} THEN late ELSE late \cup {r}
  /\ Goto(r, "loaded")
  /\ UNCHANGED <<verdict, linked, online, task, called, audited, deciders, restarts>>

(* 403 for anybody but the owner and the admins, 409 on a decided row.     *)
Refuse(r) ==
  /\ pc[r] = "loaded"
  /\ r \notin Owner \/ loaded[r] # "pending"
  /\ Goto(r, IF r \notin Owner THEN "forbidden" ELSE "conflict")
  /\ UNCHANGED <<verdict, linked, online, about, choice, loaded, task, called, audited,
                 deciders, late, restarts>>

DecideUnchecked(r) ==
  /\ pc[r] = "loaded"
  /\ r \in Owner
  /\ verdict' = [verdict EXCEPT ![about[r]] = choice[r]]
  /\ deciders' = [deciders EXCEPT ![about[r]] = @ \cup {r}]
  /\ Goto(r, IF choice[r] = "approved" THEN "decided" ELSE "done")
  /\ UNCHANGED <<linked, online, about, choice, loaded, task, called, audited, late, restarts>>

DecideByAnyone(r) ==
  /\ pc[r] = "loaded"
  /\ loaded[r] = "pending"
  /\ verdict' = [verdict EXCEPT ![about[r]] = choice[r]]
  /\ deciders' = [deciders EXCEPT ![about[r]] = @ \cup {r}]
  /\ Goto(r, IF choice[r] = "approved" THEN "decided" ELSE "done")
  /\ UNCHANGED <<linked, online, about, choice, loaded, task, called, audited, late, restarts>>

(* The check is on the row as it was read; the UPDATE has no condition.    *)
Decide(r) ==
  /\ pc[r] = "loaded"
  /\ r \in Owner
  /\ loaded[r] = "pending"
  /\ verdict' = [verdict EXCEPT ![about[r]] = choice[r]]
  /\ deciders' = [deciders EXCEPT ![about[r]] = @ \cup {r}]
  /\ Goto(r, IF choice[r] = "approved" THEN "decided" ELSE "done")
  /\ UNCHANGED <<linked, online, about, choice, loaded, task, called, audited, late, restarts>>

CallConnectorUnaudited(r) ==
  /\ pc[r] = "decided"
  /\ about[r] \in Connector
  /\ \E s \in {"completed", "failed"} :
       /\ called' = [called EXCEPT ![r] = s]
       /\ Goto(r, IF s = "failed" THEN "done" ELSE "called")
  /\ UNCHANGED <<verdict, linked, online, about, choice, loaded, task, audited, deciders,
                 late, restarts>>

(* An approved connector tool is called at once, whatever its outcome the  *)
(* ToolCall row follows.                                                   *)
CallConnector(r) ==
  /\ pc[r] = "decided"
  /\ about[r] \in Connector
  /\ \E s \in {"completed", "failed"} : called' = [called EXCEPT ![r] = s]
  /\ Goto(r, "called")
  /\ UNCHANGED <<verdict, linked, online, about, choice, loaded, task, audited, deciders,
                 late, restarts>>

Audit(r) ==
  /\ pc[r] = "called"
  /\ audited' = audited \cup {r}
  /\ Goto(r, "done")
  /\ UNCHANGED <<verdict, linked, online, about, choice, loaded, task, called, deciders,
                 late, restarts>>

(* 409 after the verdict is committed: approved, and nothing runs.         *)
AnswerOffline(r) ==
  /\ pc[r] = "decided"
  /\ about[r] \notin Connector
  /\ ~online
  /\ Goto(r, "offline")
  /\ UNCHANGED <<verdict, linked, online, about, choice, loaded, task, called, audited,
                 deciders, late, restarts>>

CreateTaskLinked(r) ==
  /\ pc[r] = "decided"
  /\ about[r] \notin Connector
  /\ online
  /\ task' = [task EXCEPT ![r] = "queued"]
  /\ linked' = [linked EXCEPT ![about[r]] = r]
  /\ Goto(r, "queued")
  /\ UNCHANGED <<verdict, online, about, choice, loaded, called, audited, deciders,
                 late, restarts>>

(* dispatch_no_wait: the row, the send, the status.                        *)
CreateTask(r) ==
  /\ pc[r] = "decided"
  /\ about[r] \notin Connector
  /\ online
  /\ task' = [task EXCEPT ![r] = "queued"]
  /\ Goto(r, "queued")
  /\ UNCHANGED <<verdict, linked, online, about, choice, loaded, called, audited, deciders,
                 late, restarts>>

Send(r) ==
  /\ pc[r] = "queued"
  /\ online
  /\ Goto(r, "sent")
  /\ UNCHANGED <<verdict, linked, online, about, choice, loaded, task, called, audited,
                 deciders, late, restarts>>

CommitSent(r) ==
  /\ pc[r] = "sent"
  /\ task' = [task EXCEPT ![r] = "dispatched"]
  /\ Goto(r, "dispatched")
  /\ UNCHANGED <<verdict, linked, online, about, choice, loaded, called, audited, deciders,
                 late, restarts>>

CommitLostAsOffline(r) ==
  /\ pc[r] = "queued"
  /\ ~online
  /\ task' = [task EXCEPT ![r] = "offline"]
  /\ Goto(r, "dispatched")
  /\ UNCHANGED <<verdict, linked, online, about, choice, loaded, called, audited, deciders,
                 late, restarts>>

(* The send failed: online by the check, gone when the frame is written.   *)
CommitLost(r) ==
  /\ pc[r] = "queued"
  /\ ~online
  /\ task' = [task EXCEPT ![r] = "lost"]
  /\ Goto(r, "dispatched")
  /\ UNCHANGED <<verdict, linked, online, about, choice, loaded, called, audited, deciders,
                 late, restarts>>

(* task_id is written for a lost task too.                                 *)
Link(r) ==
  /\ pc[r] = "dispatched"
  /\ linked' = [linked EXCEPT ![about[r]] = r]
  /\ Goto(r, "done")
  /\ UNCHANGED <<verdict, online, about, choice, loaded, task, called, audited, deciders,
                 late, restarts>>

(* The Runner comes and goes.                                              *)
MachineTurns ==
  /\ online' = ~online
  /\ UNCHANGED <<verdict, linked, pc, about, choice, loaded, task, called, audited, deciders,
                 late, restarts>>

(* The server process restarts: requests die unanswered, lifespan sets the *)
(* active tasks lost, the approvals stay as they are.                      *)
Restart ==
  /\ restarts < MaxRestarts
  /\ restarts' = restarts + 1
  /\ pc' = [r \in Request |-> IF pc[r] \in {"idle"} \cup Finished THEN pc[r] ELSE "killed"]
  /\ task' = [r \in Request |-> IF task[r] \in {"queued", "dispatched"} THEN "lost" ELSE task[r]]
  /\ online' = FALSE
  /\ UNCHANGED <<verdict, linked, about, choice, loaded, called, audited, deciders, late>>

RequestStep(r) ==
  \/ \E a \in Approval, v \in {"approved", "rejected"} : Load(r, a, v)
  \/ Refuse(r) \/ Decide(r)
  \/ CallConnector(r) \/ Audit(r)
  \/ AnswerOffline(r) \/ CreateTask(r) \/ Send(r) \/ CommitSent(r) \/ CommitLost(r) \/ Link(r)

Next ==
  \/ \E a \in Approval : Ask(a)
  \/ \E r \in Request : RequestStep(r)
  \/ MachineTurns
  \/ Restart

Spec == Init /\ [][Next]_vars

----------------------------------------------------------------------------
TypeOK ==
  /\ verdict \in [Approval -> Verdict]
  /\ linked \in [Approval -> Request \cup {None}]
  /\ online \in BOOLEAN
  /\ pc \in [Request -> PC]
  /\ about \in [Request -> Approval \cup {None}]
  /\ choice \in [Request -> {"none", "approved", "rejected"}]
  /\ loaded \in [Request -> Verdict]
  /\ task \in [Request -> {"none", "queued", "dispatched", "lost"}]
  /\ called \in [Request -> {"none", "completed", "failed"}]
  /\ audited \subseteq Request
  /\ deciders \in [Approval -> SUBSET Request]
  /\ late \subseteq Request
  /\ restarts \in Nat

Ran(r) == task[r] # "none" \/ called[r] # "none"

(* A decision that begins after another one was committed is refused with  *)
(* 409 and runs nothing; only overlapping requests can both decide.        *)
LateDecisionRefused ==
  \A r \in late : about[r] # None => r \notin deciders[about[r]] /\ ~Ran(r)

(* An approval nobody decided on is pending, and nothing ran for it: no    *)
(* request of a grantee, no failure and no restart opens it (security.md:  *)
(* only the owner or an admin releases a high-risk operation).             *)
PendingRanNothing ==
  \A a \in Approval :
    /\ verdict[a] = "pending" <=> (verdict[a] # "none" /\ deciders[a] = {})
    /\ deciders[a] \subseteq Owner
    /\ \A r \in Request : Ran(r) /\ about[r] = a =>
         r \in deciders[a] /\ choice[r] = "approved"

(* The other requests that approved what r approved: both read it pending. *)
Rivals(r) == {q \in deciders[about[r]] \ {r} : choice[q] = "approved"}

(* Each decision to approve is accounted for by itself once its request is *)
(* over.  Answered with success, it left the ToolCall row of its own call, *)
(* or a settled task of its own; the approval names that task, unless a    *)
(* rival named another afterwards: a double approval runs the operation    *)
(* twice and keeps one task_id (routes.py 528, 566-570).  Answered with    *)
(* "offline", it ran nothing.  Killed by a restart, it left no task active;*)
(* only a connector's call can then be on no record (545-560).             *)
ApprovedIsAccounted ==
  \A a \in Approval : \A r \in deciders[a] : choice[r] = "approved" =>
    /\ pc[r] = "done" /\ a \in Connector => r \in audited
    /\ pc[r] = "done" /\ a \notin Connector =>
         /\ task[r] \in {"dispatched", "lost"}
         /\ linked[a] = r \/ linked[a] \in Rivals(r)
    /\ pc[r] = "offline" => ~Ran(r)
    /\ pc[r] = "killed" => task[r] \in {"none", "lost"}

(* task_id names a task of this approval whose dispatch is over, and one   *)
(* that was approved, whatever requests overlapped.                        *)
LinkIsSettled ==
  \A a \in Approval : linked[a] # None =>
    LET r == linked[a]
    IN  about[r] = a /\ choice[r] = "approved" /\ task[r] \in {"dispatched", "lost"}
=============================================================================
