---------------------------- MODULE TaskPlatform ----------------------------
(***************************************************************************)
(* One machine's tasks from end to end: the dispatching coroutines         *)
(* (TaskDispatch), the connection handlers (RunnerSocket) and the Runner   *)
(* (RunnerAgent) over links that break (RunnerLink).                       *)
(***************************************************************************)
EXTENDS RunnerSocket, RunnerAgent

CONSTANT MaxRestarts   \* bound: restarts of the server process

ASSUME RestartsAssumption == MaxRestarts \in Nat

VARIABLE restarts

vars == <<linkVars, hubVars, dispatchVars, socketVars, agentVars, restarts>>

Init ==
  /\ LinkInit
  /\ HubInit
  /\ DispatchInit
  /\ SocketInit
  /\ AgentInit
  /\ restarts = 0

Dispatcher == DispatchNext /\ UNCHANGED <<link, toServer, socketVars, agentVars, restarts>>

Handler == SocketNext /\ UNCHANGED <<agentVars, restarts>>

Runner == AgentNext /\ UNCHANGED <<hubVars, dispatchVars, socketVars, restarts>>

Break ==
  /\ \E c \in Conn : Drop(c)
  /\ UNCHANGED <<hubVars, dispatchVars, socketVars, agentVars, restarts>>

ServerRestart ==
  /\ restarts < MaxRestarts
  /\ restarts' = restarts + 1
  /\ Restart
  /\ UNCHANGED agentVars

Next == Dispatcher \/ Handler \/ Runner \/ Break \/ ServerRestart

Spec == Init /\ [][Next]_vars

(* The event loop runs every coroutine that can run, and a timer fires.    *)
(* The sweep closes a connection whose Runner has stopped reading: such a  *)
(* Runner sends no heartbeat either.  Nothing else is assumed of the       *)
(* Runner, nothing of the network or the users.                            *)
Stalled(c) == Len(toRunner[c]) >= MaxInFlight

Fairness ==
  /\ \A t \in Task :
       WF_vars(DispatchStep(t) /\ UNCHANGED <<link, toServer, socketVars, agentVars, restarts>>)
  /\ \A c \in Conn : WF_vars(SocketStep(c) /\ UNCHANGED <<agentVars, restarts>>)
  /\ \A c \in Conn : WF_vars(Stalled(c) /\ Sweep(c) /\ UNCHANGED <<agentVars, restarts>>)

FairSpec == Spec /\ Fairness

----------------------------------------------------------------------------
(* Types: every variable has the shape its declaration says.               *)
TypeOK ==
  /\ LinkTypeOK
  /\ HubTypeOK
  /\ DispatchTypeOK
  /\ SocketTypeOK
  /\ AgentTypeOK
  /\ restarts \in Nat

(* No call leaves a future in task_waiters or a route in task_sessions     *)
(* behind it, whichever way it ends: offline, failed send, result, loss or *)
(* timeout (the cleanup of dispatch_and_wait and hub.wait).                *)
NothingLeftBehind ==
  /\ \A t \in waiters  : dpc[t] \in {"sending", "sent", "waiting"}
  /\ \A t \in sessions : dpc[t] \in {"sending", "sent", "waiting"}

(* No lost wake-up: once a Runner's result is in the row, a call that is   *)
(* still waiting for it has a handler about to wake it (the order of       *)
(* commit and hub.resolve in ws.py, of expect and send in services.py).    *)
ResultWakes ==
  \A t \in waiters :
    dpc[t] = "waiting" /\ status[t] \in ResultStatus
      => \E c \in Conn : hpc[c] = "stored" /\ frame[c].task = t

(* A status a Runner reported is that of the one execution of the task,    *)
(* and the row then holds every chunk of output this execution sent:       *)
(* buffers open before the frame goes out, close only on the result.       *)
RowIsTheExecution ==
  \A t \in Task :
    status[t] \in ResultStatus
      => /\ started[t] = 1
         /\ cache[t] = status[t]
         /\ stored[t] = {n \in Chunk : n < chunks[t]}

(* No task is executed twice, however often connections break and the      *)
(* server restarts (protocol.md 3.1: a lost task is not retried).          *)
AtMostOneExecution == \A t \in Task : started[t] <= 1

(* A terminal status returned to the caller is what the row says from then *)
(* on: the Agent Loop never acts on an outcome that is later withdrawn.    *)
AnswerStands ==
  \A t \in Task : answer[t] \in TerminalStatus => status[t] = answer[t]

(* The rows keep the promise of TaskLifecycle, a task being settled when   *)
(* its coroutine has made its last write or died.                          *)
Settled == {t \in Task : dpc[t] \in {"waiting", "reading", "done", "killed"}}

Lifecycle == INSTANCE TaskLifecycle WITH row <- status, settled <- Settled

LifecycleSpec == Lifecycle!Spec

(* The part of "terminal states are final" the code keeps: once the        *)
(* coroutine that created a task writes its row no more, the first         *)
(* terminal status of the row is its last.                                 *)
FinalOnceSettled ==
  [][\A t \in Settled : status[t] \in TerminalStatus => status'[t] = status[t]]_vars

(* Liveness.  A tool call of the Agent Loop returns, or its process died:  *)
(* when every other wake-up is missed, the timeout is not.                 *)
EveryCallReturns ==
  \A t \in Task : dpc[t] = "created" ~> dpc[t] \in {"done", "killed"}

(* A task that is active when the connection being served breaks reaches a *)
(* terminal status: the cleanup of every handler that entered its loop.    *)
BreakEndsTasks ==
  \A t \in Task, c \in Conn :
    (hpc[c] = "recv" /\ link[c] = "down" /\ status[t] \in ActiveStatus)
      ~> status[t] \in TerminalStatus

----------------------------------------------------------------------------
(* What the documentation says and the code does not keep.                 *)

(* protocol.md 3.1: completed, failed, timeout, cancelled and lost are     *)
(* terminal states.                                                        *)
TerminalIsFinal ==
  [][\A t \in Task : status[t] \in TerminalStatus => status'[t] = status[t]]_vars
=============================================================================
