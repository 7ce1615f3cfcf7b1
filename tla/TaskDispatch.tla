---------------------------- MODULE TaskDispatch ----------------------------
(***************************************************************************)
(* server/app/services.py: dispatch_and_wait (the Agent Loop's tool call)  *)
(* and dispatch_no_wait (POST /api/tasks, an approved Approval).  Each     *)
(* task has one coroutine that creates its row, sends it and settles its   *)
(* status; the steps are cut where the code awaits the database or the     *)
(* socket, because the handlers of RunnerSocket run in between.            *)
(***************************************************************************)
EXTENDS RunnerHub

VARIABLES
  blocking,   \* the tasks dispatch_and_wait created; the others do not wait
  status,     \* status[t]: the column Task.status; "none" before the row exists
  stored,     \* stored[t]: the columns stdout/stderr, as the chunks they hold
  machine,    \* the column Machine.status
  sessions,   \* app.state.task_sessions: tasks whose output goes to a session
  dpc,        \* dpc[t]: where the dispatching coroutine of t is
  via,        \* via[t]: the connection hub.send is using for t, or None
  answer      \* answer[t]: the status the coroutine returned to its caller

rowVars  == <<status, stored, machine>>
callVars == <<blocking, sessions, dpc, via, answer>>
dispatchVars == <<rowVars, callVars>>

RowStatus == {"none"} \cup ActiveStatus \cup TerminalStatus

(* created: row committed; sending: in hub.send; sent: hub.send returned   *)
(* True; giveup: about to write "lost"; waiting: in hub.wait; reading:     *)
(* about to read the row back; done: returned; killed: the process died.   *)
DispatchPC == {"idle", "created", "sending", "sent", "giveup", "waiting",
               "reading", "done", "killed"}

DispatchInit ==
  /\ blocking = {}
  /\ status = [t \in Task |-> "none"]
  /\ stored = [t \in Task |-> {}]
  /\ machine = "offline"
  /\ sessions = {}
  /\ dpc = [t \in Task |-> "idle"]
  /\ via = [t \in Task |-> None]
  /\ answer = [t \in Task |-> "none"]

Goto(t, l) == dpc' = [dpc EXCEPT ![t] = l]

(* A tool call of the Agent Loop, or a POST /api/tasks, which refuses an   *)
(* offline machine before it creates a row.                                *)
Create(t, wait) ==
  /\ dpc[t] = "idle"
  /\ wait \/ IsOnline
  /\ blocking' = IF wait THEN blocking \cup {t} ELSE blocking
  /\ status' = [status EXCEPT ![t] = "queued"]
  /\ Goto(t, "created")
  /\ UNCHANGED <<hubVars, shut, toRunner, stored, machine, sessions, via, answer>>

(* From the first commit to hub.send's look-up of the connection.  Only    *)
(* dispatch_and_wait checks that the machine is online and registers a     *)
(* future; dispatch_no_wait leaves the check to hub.send.                  *)
Begin(t) ==
  /\ dpc[t] = "created"
  /\ IF t \in blocking /\ ~IsOnline
     THEN /\ Goto(t, "giveup")
          /\ UNCHANGED <<buffers, waiters, sessions, via>>
     ELSE /\ Goto(t, "sending")
          /\ OpenBuffer(t)
          /\ via' = [via EXCEPT ![t] = hubConn]
          /\ IF t \in blocking
             THEN Expect(t) /\ sessions' = sessions \cup {t}
             ELSE UNCHANGED <<waiters, sessions>>
  /\ UNCHANGED <<blocking, hubConn, shut, toRunner, rowVars, answer>>

(* hub.send returns True: the frame was handed to a socket this side has   *)
(* not closed, whether or not the Runner will ever read it.                *)
SendDone(t) ==
  /\ dpc[t] = "sending"
  /\ via[t] # None
  /\ ~shut[via[t]]
  /\ Len(toRunner[via[t]]) < MaxInFlight
  /\ PushToRunner(via[t], TaskFrame(t))
  /\ via' = [via EXCEPT ![t] = None]
  /\ Goto(t, "sent")
  /\ UNCHANGED <<blocking, hubVars, shut, rowVars, sessions, answer>>

(* Mutant: the failed send forgets the future and the session route.       *)
SendFailedKeepsFuture(t) ==
  /\ dpc[t] = "sending"
  /\ via[t] # None => shut[via[t]] \/ link[via[t]] = "down"
  /\ via' = [via EXCEPT ![t] = None]
  /\ CloseBuffer(t)
  /\ Goto(t, "giveup")
  /\ UNCHANGED <<blocking, hubConn, waiters, sessions, shut, toRunner, rowVars, answer>>

(* hub.send returns False: no connection, or the send raised.              *)
SendFailed(t) ==
  /\ dpc[t] = "sending"
  /\ via[t] # None => shut[via[t]] \/ link[via[t]] = "down"
  /\ via' = [via EXCEPT ![t] = None]
  /\ CloseBuffer(t)
  /\ Resolve({t})
  /\ sessions' = sessions \ {t}
  /\ Goto(t, "giveup")
  /\ UNCHANGED <<blocking, hubConn, shut, toRunner, rowVars, answer>>

(* Mutant: the machine's word for its state, in the task's row.            *)
GiveUpAsOffline(t) ==
  /\ dpc[t] = "giveup"
  /\ status' = [status EXCEPT ![t] = "offline"]
  /\ answer' = [answer EXCEPT ![t] = "lost"]
  /\ Goto(t, "done")
  /\ UNCHANGED <<blocking, hubVars, shut, toRunner, stored, machine, sessions, via>>

GiveUp(t) ==
  /\ dpc[t] = "giveup"
  /\ status' = [status EXCEPT ![t] = "lost"]
  /\ answer' = [answer EXCEPT ![t] = "lost"]
  /\ Goto(t, "done")
  /\ UNCHANGED <<blocking, hubVars, shut, toRunner, stored, machine, sessions, via>>

(* Mutant: a task found lost after its send is sent once more.             *)
CommitDispatchedRetries(t) ==
  /\ dpc[t] = "sent"
  /\ IF status[t] = "lost"
     THEN Goto(t, "created") /\ UNCHANGED <<status, answer>>
     ELSE /\ status' = [status EXCEPT ![t] = "dispatched"]
          /\ IF t \in blocking
             THEN Goto(t, "waiting") /\ UNCHANGED answer
             ELSE Goto(t, "done") /\ answer' = [answer EXCEPT ![t] = "dispatched"]
  /\ UNCHANGED <<blocking, hubVars, shut, toRunner, stored, machine, sessions, via>>

(* The commit after the send writes "dispatched" over whatever the row     *)
(* holds by then.                                                          *)
CommitDispatched(t) ==
  /\ dpc[t] = "sent"
  /\ status' = [status EXCEPT ![t] = "dispatched"]
  /\ IF t \in blocking
     THEN Goto(t, "waiting") /\ UNCHANGED answer
     ELSE Goto(t, "done") /\ answer' = [answer EXCEPT ![t] = "dispatched"]
  /\ UNCHANGED <<blocking, hubVars, shut, toRunner, stored, machine, sessions, via>>

(* hub.wait: at once if the future is gone, else when it is resolved or    *)
(* after tool_wait_timeout_seconds; the future and the session route are   *)
(* dropped either way.                                                     *)
WaitReturns(t) ==
  /\ dpc[t] = "waiting"
  /\ t \notin waiters
  /\ sessions' = sessions \ {t}
  /\ Goto(t, "reading")
  /\ UNCHANGED <<blocking, hubVars, shut, toRunner, rowVars, via, answer>>

(* Mutant: the timeout only counts while the machine is offline.           *)
WaitTimesOutOffline(t) ==
  /\ dpc[t] = "waiting"
  /\ t \in waiters
  /\ ~IsOnline
  /\ Resolve({t})
  /\ sessions' = sessions \ {t}
  /\ Goto(t, "reading")
  /\ UNCHANGED <<blocking, hubConn, buffers, shut, toRunner, rowVars, via, answer>>

WaitTimesOut(t) ==
  /\ dpc[t] = "waiting"
  /\ t \in waiters
  /\ Resolve({t})
  /\ sessions' = sessions \ {t}
  /\ Goto(t, "reading")
  /\ UNCHANGED <<blocking, hubConn, buffers, shut, toRunner, rowVars, via, answer>>

ReadBack(t) ==
  /\ dpc[t] = "reading"
  /\ answer' = [answer EXCEPT ![t] = status[t]]
  /\ Goto(t, "done")
  /\ UNCHANGED <<blocking, hubVars, shut, toRunner, rowVars, sessions, via>>

(* POST /api/tasks/{id}/cancel: reads the row, then sends a task_cancel    *)
(* and changes no row.  The two are one step here: a frame sent for a task *)
(* that ended in between is ignored by the Runner, like a late frame.  One *)
(* request for t is in flight at a time (a bound: the event is only set).  *)
CancelTask(t) ==
  /\ status[t] \in ActiveStatus
  /\ hubConn # None
  /\ ~shut[hubConn]
  /\ Len(toRunner[hubConn]) < MaxInFlight
  /\ \A i \in DOMAIN toRunner[hubConn] : toRunner[hubConn][i] # Cancel(t)
  /\ PushToRunner(hubConn, Cancel(t))
  /\ UNCHANGED <<hubVars, shut, dispatchVars>>

(* One coroutine's own steps: what fairness is stated about.               *)
DispatchStep(t) ==
  \/ Begin(t)
  \/ SendDone(t)
  \/ SendFailed(t)
  \/ GiveUp(t)
  \/ CommitDispatched(t)
  \/ WaitReturns(t)
  \/ WaitTimesOut(t)
  \/ ReadBack(t)

DispatchNext ==
  \/ \E t \in Task, wait \in BOOLEAN : Create(t, wait)
  \/ \E t \in Task : DispatchStep(t) \/ CancelTask(t)

DispatchTypeOK ==
  /\ blocking \subseteq Task
  /\ status \in [Task -> RowStatus]
  /\ stored \in [Task -> SUBSET Chunk]
  /\ machine \in {"online", "offline"}
  /\ sessions \subseteq Task
  /\ dpc \in [Task -> DispatchPC]
  /\ via \in [Task -> Conn \cup {None}]
  /\ answer \in [Task -> RowStatus]
=============================================================================
