----------------------------- MODULE RunnerLink -----------------------------
(***************************************************************************)
(* The WebSocket between one Runner and the Server, as far as the two      *)
(* programs can observe it (uvicorn and the websockets library are not     *)
(* part of the repository).  A connection is a pair of FIFO channels of    *)
(* JSON frames.  It may break at any moment: frames on their way to the    *)
(* Runner are gone, of those on their way to the Server any prefix has     *)
(* already reached the Server's receive buffer and will still be read.     *)
(* Neither side learns of the break at once.                               *)
(***************************************************************************)
EXTENDS Naturals, Sequences

CONSTANTS
  Task,         \* task ids, fresh ones: new_id("t") never repeats
  Conn,         \* connections the Runner of the machine opens, one after another
  None,         \* Python's None: no connection, no frame, no answer
  MaxInFlight,  \* bound: frames queued in one direction of one connection
  MaxChunks     \* bound: task_output frames of one task

ASSUME LinkAssumption == /\ None \notin Conn
                         /\ None \notin Task
                         /\ MaxInFlight \in Nat
                         /\ MaxChunks \in Nat

VARIABLES
  link,      \* link[c]: "new" (never opened), "up" or "down"
  shut,      \* shut[c]: the Server's end is closed (code 4408 or 4409, or a send
             \* on c raised): every later send or receive on it raises
  toRunner,  \* toRunner[c]: frames sent by the Server, not yet read by the Runner
  toServer   \* toServer[c]: frames sent by the Runner, not yet read by the Server

linkVars == <<link, shut, toRunner, toServer>>

(* The terminal states a Runner may report (models.RESULT_STATUSES).       *)
ResultStatus == {"completed", "failed", "timeout", "cancelled"}

(* models.ACTIVE_TASK_STATUSES, and the state only the Server sets.        *)
ActiveStatus == {"queued", "dispatched", "running"}
TerminalStatus == ResultStatus \cup {"lost"}

(* The frames of protocol.md 3 and of the handshake.  A heartbeat changes  *)
(* nothing but a time stamp; its absence is the sweep of RunnerSocket.     *)
HelloAck      == [type |-> "hello_ack", task |-> None]
TaskFrame(t)  == [type |-> "task", task |-> t]
Cancel(t)     == [type |-> "task_cancel", task |-> t]
Accepted(t)   == [type |-> "task_accepted", task |-> t]
Output(t, n)  == [type |-> "task_output", task |-> t, seq |-> n]
Result(t, s)  == [type |-> "task_result", task |-> t, status |-> s]

Chunk == 0 .. MaxChunks

ToRunnerFrame == {HelloAck} \cup {TaskFrame(t) : t \in Task} \cup {Cancel(t) : t \in Task}
ToServerFrame ==
  {Accepted(t) : t \in Task}
    \cup {Output(t, n) : t \in Task, n \in Chunk}
    \cup {Result(t, s) : t \in Task, s \in ResultStatus}

(* None is told apart from the frames and the buffers it may stand in for. *)
ASSUME NoneAssumption == None \notin ToServerFrame /\ \A b \in SUBSET Chunk : None # b

LinkInit ==
  /\ link = [c \in Conn |-> "new"]
  /\ shut = [c \in Conn |-> FALSE]
  /\ toRunner = [c \in Conn |-> <<>>]
  /\ toServer = [c \in Conn |-> <<>>]

(* A frame written to a broken connection vanishes.                        *)
PushToRunner(c, f) ==
  toRunner' = IF link[c] = "up" THEN [toRunner EXCEPT ![c] = Append(@, f)] ELSE toRunner

PushToServer(c, f) ==
  toServer' = IF link[c] = "up" THEN [toServer EXCEPT ![c] = Append(@, f)] ELSE toServer

(* The connection breaks, or one side has closed it.                       *)
Drop(c) ==
  /\ link[c] = "up"
  /\ link' = [link EXCEPT ![c] = "down"]
  /\ toRunner' = [toRunner EXCEPT ![c] = <<>>]
  /\ \E n \in 0 .. Len(toServer[c]) :
        toServer' = [toServer EXCEPT ![c] = SubSeq(@, 1, n)]
  /\ UNCHANGED shut

(* The peer process is gone: every connection is down, nothing is read.    *)
DropAll ==
  /\ link' = [c \in Conn |-> IF link[c] = "up" THEN "down" ELSE link[c]]
  /\ toRunner' = [c \in Conn |-> <<>>]
  /\ toServer' = [c \in Conn |-> <<>>]
  /\ UNCHANGED shut

LinkTypeOK ==
  /\ link \in [Conn -> {"new", "up", "down"}]
  /\ shut \in [Conn -> BOOLEAN]
  /\ toRunner \in [Conn -> Seq(ToRunnerFrame)]
  /\ toServer \in [Conn -> Seq(ToServerFrame)]
=============================================================================
