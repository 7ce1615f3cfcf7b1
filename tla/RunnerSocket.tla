---------------------------- MODULE RunnerSocket ----------------------------
(***************************************************************************)
(* server/app/ws.py: the handler coroutine of one Runner connection, from  *)
(* hello to the cleanup after it ends, with the sweep and the start-up     *)
(* reset of main.py.  A handler is cut where it awaits the database, the   *)
(* closing of another connection or its own socket.                        *)
(***************************************************************************)
EXTENDS TaskDispatch

VARIABLES
  hpc,      \* hpc[c]: where the handler of connection c is
  frame,    \* frame[c]: the task frame it is handling, or None
  text,     \* text[c]: the output close_buffer gave it for that frame
  lostIds   \* lostIds[c]: lost_ids of mark_machine_lost

socketVars == <<hpc, frame, text, lostIds>>

(* hello: before attach; attaching: awaiting the old connection's close;   *)
(* attached: in the registry, machine row not yet online; acking: sending  *)
(* hello_ack; recv: in receive_json; accepting, storing: in the UPDATE for *)
(* a task_accepted, a task_result; stored: that commit has returned; exit: *)
(* leaving the loop; cleanup, marking, waking: in mark_machine_lost;       *)
(* closed: returned; dead: returned without ever entering the loop.        *)
SocketPC == {"hello", "attaching", "attached", "acking", "recv", "accepting",
             "storing", "stored", "exit", "cleanup", "marking", "waking",
             "closed", "dead"}

SocketInit ==
  /\ hpc = [c \in Conn |-> "hello"]
  /\ frame = [c \in Conn |-> None]
  /\ text = [c \in Conn |-> {}]
  /\ lostIds = [c \in Conn |-> {}]

Step(c, l) == hpc' = [hpc EXCEPT ![c] = l]

(* A frame is done with.  receive_json raises at once on a socket this     *)
(* side has closed, so at most the frame awaited at that moment is read.   *)
Resume(c) ==
  /\ Step(c, IF shut[c] THEN "exit" ELSE "recv")
  /\ frame' = [frame EXCEPT ![c] = None]
  /\ text' = [text EXCEPT ![c] = {}]

----------------------------------------------------------------------------
(* The handshake: all of it before the try block of the loop.              *)

(* The link is gone before a hello was read: nothing was registered.       *)
HelloMissed(c) ==
  /\ hpc[c] = "hello"
  /\ link[c] = "down"
  /\ Step(c, "dead")
  /\ UNCHANGED <<linkVars, hubVars, dispatchVars, frame, text, lostIds>>

(* A valid hello; the last frames of a link that is down are read too.     *)
Hello(c) ==
  /\ hpc[c] = "hello"
  /\ link[c] # "new"
  /\ AttachBegin(c)
  /\ Step(c, IF hubConn = None THEN "attached" ELSE "attaching")
  /\ UNCHANGED <<link, toRunner, toServer, buffers, waiters, dispatchVars,
                 frame, text, lostIds>>

OldClosed(c) ==
  /\ hpc[c] = "attaching"
  /\ AttachEnd(c)
  /\ Step(c, "attached")
  /\ UNCHANGED <<linkVars, buffers, waiters, dispatchVars, frame, text, lostIds>>

MarkOnline(c) ==
  /\ hpc[c] = "attached"
  /\ machine' = "online"
  /\ Step(c, "acking")
  /\ UNCHANGED <<linkVars, hubVars, status, stored, callVars, frame, text, lostIds>>

Ack(c) ==
  /\ hpc[c] = "acking"
  /\ ~shut[c]
  /\ Len(toRunner[c]) < MaxInFlight
  /\ PushToRunner(c, HelloAck)
  /\ Step(c, "recv")
  /\ UNCHANGED <<link, shut, toServer, hubVars, dispatchVars, frame, text, lostIds>>

(* send_json raises outside the try block: no detach and no cleanup.       *)
AckFailed(c) ==
  /\ hpc[c] = "acking"
  /\ shut[c] \/ link[c] = "down"
  /\ shut' = [shut EXCEPT ![c] = TRUE]
  /\ Step(c, "dead")
  /\ UNCHANGED <<link, toRunner, toServer, hubVars, dispatchVars, frame, text, lostIds>>

----------------------------------------------------------------------------
(* The receive loop.                                                       *)

Receive(c, type) ==
  /\ hpc[c] = "recv"
  /\ toServer[c] # <<>>
  /\ Head(toServer[c]).type = type
  /\ toServer' = [toServer EXCEPT ![c] = Tail(@)]
  /\ UNCHANGED <<link, shut, toRunner, hubConn, waiters, callVars, lostIds>>

(* task_output awaits nothing that suspends: buffer and event bus are in   *)
(* memory.                                                                 *)
ReceiveOutput(c) ==
  /\ Receive(c, "task_output")
  /\ LET f == Head(toServer[c]) IN BufferAdd(f.task, f.seq)
  /\ Resume(c)
  /\ UNCHANGED rowVars

ReceiveAccepted(c) ==
  /\ Receive(c, "task_accepted")
  /\ frame' = [frame EXCEPT ![c] = Head(toServer[c])]
  /\ Step(c, "accepting")
  /\ UNCHANGED <<buffers, rowVars, text>>

(* UPDATE ... WHERE status = 'dispatched'.                                 *)
CommitRunning(c) ==
  /\ hpc[c] = "accepting"
  /\ LET t == frame[c].task
     IN  status' = IF status[t] = "dispatched"
                   THEN [status EXCEPT ![t] = "running"]
                   ELSE status
  /\ Resume(c)
  /\ UNCHANGED <<linkVars, hubVars, stored, machine, callVars, lostIds>>

(* close_buffer comes before the await, the row and the wake-up after it.  *)
ReceiveResult(c) ==
  /\ Receive(c, "task_result")
  /\ frame' = [frame EXCEPT ![c] = Head(toServer[c])]
  /\ text' = [text EXCEPT ![c] = Held(Head(toServer[c]).task)]
  /\ CloseBuffer(Head(toServer[c]).task)
  /\ Step(c, "storing")
  /\ UNCHANGED rowVars

(* Mutant: the UPDATE without its WHERE on the status.                     *)
CommitResultAlways(c) ==
  /\ hpc[c] = "storing"
  /\ status' = [status EXCEPT ![frame[c].task] = frame[c].status]
  /\ stored' = [stored EXCEPT ![frame[c].task] = text[c]]
  /\ Step(c, "stored")
  /\ UNCHANGED <<linkVars, hubVars, machine, callVars, frame, text, lostIds>>

(* UPDATE ... WHERE status IN ACTIVE_TASK_STATUSES.                        *)
CommitResult(c) ==
  /\ hpc[c] = "storing"
  /\ LET t == frame[c].task
     IN  IF status[t] \in ActiveStatus
         THEN /\ status' = [status EXCEPT ![t] = frame[c].status]
              /\ stored' = [stored EXCEPT ![t] = text[c]]
         ELSE UNCHANGED <<status, stored>>
  /\ Step(c, "stored")
  /\ UNCHANGED <<linkVars, hubVars, machine, callVars, frame, text, lostIds>>

(* Mutant: the result is stored and nobody is told.                        *)
WakeWaiterNever(c) ==
  /\ hpc[c] = "stored"
  /\ Resume(c)
  /\ UNCHANGED <<linkVars, hubVars, dispatchVars, lostIds>>

WakeWaiter(c) ==
  /\ hpc[c] = "stored"
  /\ Resolve({frame[c].task})
  /\ Resume(c)
  /\ UNCHANGED <<linkVars, hubConn, buffers, dispatchVars, lostIds>>

----------------------------------------------------------------------------
(* The end of a connection.                                                *)

(* receive_json reports a disconnect once the received frames are used up, *)
(* or raises because this side has closed; either way finally runs.        *)
Leave(c) ==
  /\ \/ hpc[c] = "exit"
     \/ hpc[c] = "recv" /\ (shut[c] \/ (link[c] = "down" /\ toServer[c] = <<>>))
  /\ Detach(c)
  /\ Step(c, "cleanup")
  /\ UNCHANGED <<linkVars, buffers, waiters, dispatchVars, frame, text, lostIds>>

(* mark_machine_lost: SELECT, then UPDATE and COMMIT, then the wake-ups.   *)
SelectLost(c) ==
  /\ hpc[c] = "cleanup"
  /\ lostIds' = [lostIds EXCEPT ![c] = {t \in Task : status[t] \in ActiveStatus}]
  /\ Step(c, "marking")
  /\ UNCHANGED <<linkVars, hubVars, dispatchVars, frame, text>>

(* Mutant: every task of the machine is lost, the finished ones too.       *)
CommitLostAll(c) ==
  /\ hpc[c] = "marking"
  /\ machine' = "offline"
  /\ status' = [t \in Task |-> IF status[t] = "none" THEN "none" ELSE "lost"]
  /\ Step(c, "waking")
  /\ UNCHANGED <<linkVars, hubVars, stored, callVars, frame, text, lostIds>>

(* Mutant: only the tasks that run are lost, not those queued or sent.     *)
CommitLostRunning(c) ==
  /\ hpc[c] = "marking"
  /\ machine' = "offline"
  /\ status' = [t \in Task |-> IF status[t] = "running" THEN "lost" ELSE status[t]]
  /\ Step(c, "waking")
  /\ UNCHANGED <<linkVars, hubVars, stored, callVars, frame, text, lostIds>>

CommitLost(c) ==
  /\ hpc[c] = "marking"
  /\ machine' = "offline"
  /\ status' = [t \in Task |-> IF status[t] \in ActiveStatus THEN "lost" ELSE status[t]]
  /\ Step(c, "waking")
  /\ UNCHANGED <<linkVars, hubVars, stored, callVars, frame, text, lostIds>>

WakeLost(c) ==
  /\ hpc[c] = "waking"
  /\ Resolve(lostIds[c])
  /\ lostIds' = [lostIds EXCEPT ![c] = {}]
  /\ Step(c, "closed")
  /\ UNCHANGED <<linkVars, hubConn, buffers, dispatchVars, frame, text>>

(* _sweep_loop closes a connection with no heartbeat for 30 s.  Time is    *)
(* not modelled: a heartbeat may be late at any moment.                    *)
Sweep(c) ==
  /\ hubConn = c
  /\ ~shut[c]
  /\ shut' = [shut EXCEPT ![c] = TRUE]
  /\ UNCHANGED <<link, toRunner, toServer, hubVars, dispatchVars, socketVars>>

(* The process dies and starts again: the memory is gone, lifespan resets  *)
(* the rows before the first connection or request is served.              *)
Restart ==
  /\ DropAll
  /\ hubConn' = None
  /\ buffers' = [t \in Task |-> None]
  /\ waiters' = {}
  /\ machine' = "offline"
  /\ status' = [t \in Task |-> IF status[t] \in ActiveStatus THEN "lost" ELSE status[t]]
  /\ sessions' = {}
  /\ dpc' = [t \in Task |-> IF dpc[t] \in {"idle", "done"} THEN dpc[t] ELSE "killed"]
  /\ hpc' = [c \in Conn |-> IF link[c] = "new" THEN hpc[c] ELSE "dead"]
  /\ frame' = [c \in Conn |-> None]
  /\ text' = [c \in Conn |-> {}]
  /\ lostIds' = [c \in Conn |-> {}]
  /\ via' = [t \in Task |-> None]
  /\ UNCHANGED <<stored, blocking, answer>>

(* One handler's own steps: what fairness is stated about.                 *)
SocketStep(c) ==
  \/ HelloMissed(c) \/ Hello(c) \/ OldClosed(c)
  \/ MarkOnline(c) \/ Ack(c) \/ AckFailed(c)
  \/ ReceiveOutput(c) \/ ReceiveAccepted(c) \/ CommitRunning(c)
  \/ ReceiveResult(c) \/ CommitResult(c) \/ WakeWaiter(c)
  \/ Leave(c) \/ SelectLost(c) \/ CommitLost(c) \/ WakeLost(c)

SocketNext == \E c \in Conn : SocketStep(c) \/ Sweep(c)

SocketTypeOK ==
  /\ hpc \in [Conn -> SocketPC]
  /\ frame \in [Conn -> ToServerFrame \cup {None}]
  /\ text \in [Conn -> SUBSET Chunk]
  /\ lostIds \in [Conn -> SUBSET Task]
=============================================================================
