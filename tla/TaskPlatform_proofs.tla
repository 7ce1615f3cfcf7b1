------------------------- MODULE TaskPlatform_proofs -------------------------
(***************************************************************************)
(* Theorems about TaskPlatform for every number of tasks, connections and  *)
(* restarts and every bound on the channels: its types, the safety of the  *)
(* calls, the refinement of TaskLifecycle, at most one execution per task, *)
(* and that the row of a finished task is the report of that execution.    *)
(***************************************************************************)
EXTENDS TaskPlatform, SequenceTheorems, TLAPS

USE DEF Goto, Step

----------------------------------------------------------------------------
(* Facts about frames and channels.                                        *)

(* Every frame a Runner sends names its task; a result names its outcome.  *)
LEMMA ServerFrames ==
  ASSUME NEW f \in ToServerFrame
  PROVE  /\ f.task \in Task
         /\ f.type = "task_output" => f.seq \in Chunk
         /\ f.type = "task_result" => f.status \in ResultStatus
BY DEF ToServerFrame, Accepted, Output, Result

LEMMA ServerFrameIn ==
  ASSUME NEW t \in Task
  PROVE  /\ Accepted(t) \in ToServerFrame
         /\ \A n \in Chunk : Output(t, n) \in ToServerFrame
         /\ \A s \in ResultStatus : Result(t, s) \in ToServerFrame
         /\ HelloAck \in ToRunnerFrame
         /\ TaskFrame(t) \in ToRunnerFrame
         /\ Cancel(t) \in ToRunnerFrame
BY DEF ToServerFrame, ToRunnerFrame

LEMMA HelloAckIn == HelloAck \in ToRunnerFrame
BY DEF ToRunnerFrame

(* Writing to a channel keeps its type.                                    *)
LEMMA PushTypes ==
  ASSUME LinkTypeOK, NEW c \in Conn
  PROVE  /\ \A f \in ToRunnerFrame :
              PushToRunner(c, f) => toRunner' \in [Conn -> Seq(ToRunnerFrame)]
         /\ \A f \in ToServerFrame :
              PushToServer(c, f) => toServer' \in [Conn -> Seq(ToServerFrame)]
<1>1. ASSUME NEW f \in ToRunnerFrame, PushToRunner(c, f)
      PROVE  toRunner' \in [Conn -> Seq(ToRunnerFrame)]
  <2>1. Append(toRunner[c], f) \in Seq(ToRunnerFrame)
    BY AppendProperties DEF LinkTypeOK
  <2> QED BY <1>1, <2>1 DEF LinkTypeOK, PushToRunner
<1>2. ASSUME NEW f \in ToServerFrame, PushToServer(c, f)
      PROVE  toServer' \in [Conn -> Seq(ToServerFrame)]
  <2>1. Append(toServer[c], f) \in Seq(ToServerFrame)
    BY AppendProperties DEF LinkTypeOK
  <2> QED BY <1>2, <2>1 DEF LinkTypeOK, PushToServer
<1> QED BY <1>1, <1>2

(* A break keeps a prefix of what was sent to the Server.                  *)
LEMMA DropTypes ==
  ASSUME LinkTypeOK, NEW c \in Conn, Drop(c)
  PROVE  LinkTypeOK' /\ link[c] = "up" /\ link' = [link EXCEPT ![c] = "down"]
<1>1. PICK n \in 0 .. Len(toServer[c]) :
        toServer' = [toServer EXCEPT ![c] = SubSeq(@, 1, n)]
  BY DEF Drop
<1>2. SubSeq(toServer[c], 1, n) \in Seq(ToServerFrame)
  <2>1. toServer[c] \in Seq(ToServerFrame)
    BY DEF LinkTypeOK
  <2>2. \A i \in 1 .. n : toServer[c][i] \in ToServerFrame
    BY <2>1, ElementOfSeq
  <2> QED BY <2>2, SubSeqProperties
<1> QED BY <1>1, <1>2 DEF LinkTypeOK, Drop

----------------------------------------------------------------------------
(* Type correctness.  TypeOK is not inductive: a handler that stores a     *)
(* result must hold a task_result frame, so that its status is one, and    *)
(* a connection that was never opened has a handler that did nothing.      *)
HandledFrame ==
  \A c \in Conn :
    /\ link[c] = "new" => hpc[c] = "hello"
    /\ hpc[c] \in {"accepting", "storing", "stored"} => frame[c] # None
    /\ hpc[c] \in {"storing", "stored"} => frame[c].type = "task_result"

TypeInv == TypeOK /\ HandledFrame

LEMMA InitTypes == Init => TypeInv
<1> SUFFICES ASSUME Init PROVE TypeInv
  OBVIOUS
<1>1. LinkTypeOK
  BY DEF Init, LinkInit, LinkTypeOK
<1>2. HubTypeOK
  BY DEF Init, HubInit, HubTypeOK, Buffer
<1>3. DispatchTypeOK
  BY DEF Init, DispatchInit, DispatchTypeOK, RowStatus, DispatchPC
<1>4. SocketTypeOK /\ HandledFrame
  BY DEF Init, LinkInit, SocketInit, SocketTypeOK, SocketPC, HandledFrame
<1>5. AgentTypeOK
  BY LinkAssumption DEF Init, AgentInit, AgentTypeOK, JobState, Chunk
<1> QED BY <1>1, <1>2, <1>3, <1>4, <1>5 DEF TypeInv, TypeOK, Init

(* The dispatching coroutines and cancel requests.                         *)
LEMMA DispatchTypes ==
  ASSUME TypeInv, Dispatcher
  PROVE  TypeInv'
<1> USE DEF TypeInv, TypeOK, HandledFrame, LinkTypeOK, HubTypeOK, DispatchTypeOK,
            SocketTypeOK, AgentTypeOK, Dispatcher, hubVars, dispatchVars, rowVars,
            callVars, socketVars, agentVars
<1>1. ASSUME NEW t \in Task, NEW wait \in BOOLEAN, Create(t, wait) PROVE TypeInv'
  BY <1>1 DEF Create, RowStatus, ActiveStatus, DispatchPC
<1>2. ASSUME NEW t \in Task, Begin(t) PROVE TypeInv'
  <2>1. CASE t \in blocking /\ ~IsOnline
    BY <1>2, <2>1 DEF Begin, DispatchPC
  <2>2. CASE ~(t \in blocking /\ ~IsOnline)
    <3>1. dpc' = [dpc EXCEPT ![t] = "sending"] /\ via' = [via EXCEPT ![t] = hubConn]
      BY <1>2, <2>2 DEF Begin
    <3>2. buffers' = [buffers EXCEPT ![t] = {}] /\ {} \in Buffer
      BY <1>2, <2>2 DEF Begin, OpenBuffer, Buffer
    <3>3. waiters' \subseteq Task /\ sessions' \subseteq Task
      BY <1>2, <2>2 DEF Begin, Expect
    <3>4. /\ UNCHANGED <<blocking, hubConn, shut, toRunner, rowVars, answer>>
          /\ "sending" \in DispatchPC
      BY <1>2 DEF Begin, DispatchPC
    <3> QED BY <3>1, <3>2, <3>3, <3>4
  <2> QED BY <2>1, <2>2
<1>3. ASSUME NEW t \in Task, SendDone(t) PROVE TypeInv'
  <2>1. via[t] \in Conn /\ TaskFrame(t) \in ToRunnerFrame
    BY <1>3, ServerFrameIn DEF SendDone
  <2>2. toRunner' \in [Conn -> Seq(ToRunnerFrame)]
    BY <1>3, <2>1, PushTypes DEF SendDone
  <2> QED BY <1>3, <2>2 DEF SendDone, DispatchPC
<1>4. ASSUME NEW t \in Task, SendFailed(t) PROVE TypeInv'
  BY <1>4 DEF SendFailed, CloseBuffer, Resolve, RowStatus, ActiveStatus, TerminalStatus, DispatchPC, Buffer
<1>5. ASSUME NEW t \in Task, GiveUp(t) PROVE TypeInv'
  BY <1>5 DEF GiveUp, RowStatus, ActiveStatus, TerminalStatus, DispatchPC, Buffer
<1>6. ASSUME NEW t \in Task, CommitDispatched(t) PROVE TypeInv'
  BY <1>6 DEF CommitDispatched, RowStatus, ActiveStatus, TerminalStatus, DispatchPC, Buffer
<1>7. ASSUME NEW t \in Task, WaitReturns(t) PROVE TypeInv'
  BY <1>7 DEF WaitReturns, RowStatus, ActiveStatus, TerminalStatus, DispatchPC, Buffer
<1>8. ASSUME NEW t \in Task, WaitTimesOut(t) PROVE TypeInv'
  BY <1>8 DEF WaitTimesOut, Resolve, RowStatus, ActiveStatus, TerminalStatus, DispatchPC, Buffer
<1>9. ASSUME NEW t \in Task, ReadBack(t) PROVE TypeInv'
  BY <1>9 DEF ReadBack, RowStatus, ActiveStatus, TerminalStatus, DispatchPC, Buffer
<1>10. ASSUME NEW t \in Task, CancelTask(t) PROVE TypeInv'
  <2>1. hubConn \in Conn /\ Cancel(t) \in ToRunnerFrame
    BY <1>10, ServerFrameIn DEF CancelTask
  <2>2. toRunner' \in [Conn -> Seq(ToRunnerFrame)]
    BY <1>10, <2>1, PushTypes DEF CancelTask
  <2> QED BY <1>10, <2>2 DEF CancelTask
<1> QED
  BY <1>1, <1>2, <1>3, <1>4, <1>5, <1>6, <1>7, <1>8, <1>9, <1>10 DEF DispatchNext, DispatchStep

(* What receive_json hands over is a frame, and the channel stays one.     *)
LEMMA ReceiveTypes ==
  ASSUME LinkTypeOK, NEW c \in Conn, NEW type, Receive(c, type)
  PROVE  /\ Head(toServer[c]) \in ToServerFrame
         /\ toServer' \in [Conn -> Seq(ToServerFrame)]
<1>1. toServer[c] \in Seq(ToServerFrame) /\ toServer[c] # <<>>
  BY DEF LinkTypeOK, Receive
<1>2. Head(toServer[c]) \in ToServerFrame /\ Tail(toServer[c]) \in Seq(ToServerFrame)
  BY <1>1, HeadTailProperties
<1> QED BY <1>2 DEF LinkTypeOK, Receive

(* The connection handlers and the sweep.                                  *)
LEMMA HandlerTypes ==
  ASSUME TypeInv, Handler
  PROVE  TypeInv'
<1> USE DEF TypeInv, TypeOK, HandledFrame, LinkTypeOK, HubTypeOK, DispatchTypeOK,
            SocketTypeOK, AgentTypeOK, linkVars, hubVars, dispatchVars, rowVars,
            callVars, socketVars, agentVars, Handler, SocketPC
<1>1. ASSUME NEW c \in Conn, HelloMissed(c) PROVE TypeInv'
  BY <1>1 DEF HelloMissed
<1>2. ASSUME NEW c \in Conn, Hello(c) PROVE TypeInv'
  BY <1>2 DEF Hello, AttachBegin
<1>3. ASSUME NEW c \in Conn, OldClosed(c) PROVE TypeInv'
  BY <1>3 DEF OldClosed, AttachEnd
<1>4. ASSUME NEW c \in Conn, MarkOnline(c) PROVE TypeInv'
  BY <1>4 DEF MarkOnline
<1>5. ASSUME NEW c \in Conn, Ack(c) PROVE TypeInv'
  <2>1. toRunner' \in [Conn -> Seq(ToRunnerFrame)]
    BY <1>5, HelloAckIn, PushTypes DEF Ack
  <2> QED BY <1>5, <2>1 DEF Ack
<1>6. ASSUME NEW c \in Conn, AckFailed(c) PROVE TypeInv'
  BY <1>6 DEF AckFailed
<1>7. ASSUME NEW c \in Conn, ReceiveOutput(c) PROVE TypeInv'
  <2>1. /\ Head(toServer[c]) \in ToServerFrame
        /\ toServer' \in [Conn -> Seq(ToServerFrame)]
    BY <1>7, ReceiveTypes DEF ReceiveOutput
  <2>2. /\ Head(toServer[c]).task \in Task
        /\ Head(toServer[c]).seq \in Chunk
    BY <1>7, <2>1, ServerFrames DEF ReceiveOutput, Receive
  <2>3. buffers' \in [Task -> Buffer]
    BY <1>7, <2>2 DEF ReceiveOutput, BufferAdd, Buffer
  <2> QED BY <1>7, <2>1, <2>3 DEF ReceiveOutput, Receive, Resume
<1>8. ASSUME NEW c \in Conn, ReceiveAccepted(c) PROVE TypeInv'
  <2>1. /\ Head(toServer[c]) \in ToServerFrame
        /\ toServer' \in [Conn -> Seq(ToServerFrame)]
    BY <1>8, ReceiveTypes DEF ReceiveAccepted
  <2> QED BY <1>8, <2>1, NoneAssumption DEF ReceiveAccepted, Receive
<1>9. ASSUME NEW c \in Conn, CommitRunning(c) PROVE TypeInv'
  BY <1>9 DEF CommitRunning, Resume, RowStatus, ActiveStatus
<1>10. ASSUME NEW c \in Conn, ReceiveResult(c) PROVE TypeInv'
  <2>1. /\ Head(toServer[c]) \in ToServerFrame
        /\ toServer' \in [Conn -> Seq(ToServerFrame)]
    BY <1>10, ReceiveTypes DEF ReceiveResult
  <2>2. Head(toServer[c]).task \in Task
    BY <2>1, ServerFrames
  <2>3. buffers' \in [Task -> Buffer] /\ text' \in [Conn -> SUBSET Chunk]
    BY <1>10, <2>2 DEF ReceiveResult, CloseBuffer, Held, Buffer
  <2>4. /\ frame' = [frame EXCEPT ![c] = Head(toServer[c])]
        /\ Head(toServer[c]).type = "task_result"
    BY <1>10 DEF ReceiveResult, Receive
  <2> QED BY <1>10, <2>1, <2>3, <2>4, NoneAssumption DEF ReceiveResult, Receive
<1>11. ASSUME NEW c \in Conn, CommitResult(c) PROVE TypeInv'
  <2>1. frame[c].status \in RowStatus
    BY <1>11, ServerFrames DEF CommitResult, RowStatus, TerminalStatus
  <2>2. status' \in [Task -> RowStatus] /\ stored' \in [Task -> SUBSET Chunk]
    <3>1. CASE status[frame[c].task] \in ActiveStatus
      <4>1. /\ status' = [status EXCEPT ![frame[c].task] = frame[c].status]
            /\ stored' = [stored EXCEPT ![frame[c].task] = text[c]]
        BY <1>11, <3>1 DEF CommitResult
      <4> QED BY <2>1, <4>1
    <3>2. CASE status[frame[c].task] \notin ActiveStatus
      BY <1>11, <3>2 DEF CommitResult
    <3> QED BY <3>1, <3>2
  <2> QED BY <1>11, <2>2 DEF CommitResult
<1>12. ASSUME NEW c \in Conn, WakeWaiter(c) PROVE TypeInv'
  BY <1>12 DEF WakeWaiter, Resume, Resolve
<1>13. ASSUME NEW c \in Conn, Leave(c) PROVE TypeInv'
  BY <1>13 DEF Leave, Detach
<1>14. ASSUME NEW c \in Conn, SelectLost(c) PROVE TypeInv'
  BY <1>14 DEF SelectLost
<1>15. ASSUME NEW c \in Conn, CommitLost(c) PROVE TypeInv'
  BY <1>15 DEF CommitLost, RowStatus, TerminalStatus
<1>16. ASSUME NEW c \in Conn, WakeLost(c) PROVE TypeInv'
  BY <1>16 DEF WakeLost, Resolve
<1>17. ASSUME NEW c \in Conn, Sweep(c) PROVE TypeInv'
  BY <1>17 DEF Sweep
<1> QED
  BY <1>1, <1>2, <1>3, <1>4, <1>5, <1>6, <1>7, <1>8, <1>9,
     <1>10, <1>11, <1>12, <1>13, <1>14, <1>15, <1>16, <1>17
  DEF SocketNext, SocketStep

(* The Runner.                                                             *)
LEMMA ReadTypes ==
  ASSUME LinkTypeOK, rconn \in Conn \cup {None}, NEW f, Read(f)
  PROVE  /\ rconn \in Conn
         /\ toRunner' \in [Conn -> Seq(ToRunnerFrame)]
<1>1. rconn \in Conn /\ toRunner[rconn] \in Seq(ToRunnerFrame) /\ toRunner[rconn] # <<>>
  BY DEF LinkTypeOK, Read
<1>2. Tail(toRunner[rconn]) \in Seq(ToRunnerFrame)
  BY <1>1, HeadTailProperties
<1> QED BY <1>1, <1>2 DEF LinkTypeOK, Read

(* Jobs exist only while the Runner serves a connection.                   *)
JobConnected ==
  /\ rpc # "off" => rconn # None
  /\ \A t \in Task : job[t] # "none" => rpc = "serving"

LEMMA RunnerTypes ==
  ASSUME TypeInv, JobConnected, Runner
  PROVE  TypeInv' /\ JobConnected'
<1> USE DEF TypeInv, TypeOK, HandledFrame, JobConnected, LinkTypeOK, HubTypeOK,
            DispatchTypeOK, SocketTypeOK, AgentTypeOK, Runner, linkVars, hubVars,
            dispatchVars, rowVars, callVars, socketVars, agentVars
<1> DEFINE Goal == TypeInv' /\ JobConnected'
<1>1. ASSUME NEW c \in Conn, Connect(c) PROVE Goal
  BY <1>1, LinkAssumption DEF Connect
<1>2. ASSUME HandshakeDone PROVE Goal
  <2>1. toRunner' \in [Conn -> Seq(ToRunnerFrame)]
    BY <1>2, ReadTypes DEF HandshakeDone
  <2> QED BY <1>2, <2>1 DEF HandshakeDone
<1>3. ASSUME HandshakeRefused PROVE Goal
  <2>1. rconn \in Conn
    BY <1>3, LinkAssumption DEF HandshakeRefused
  <2>2. LinkTypeOK' /\ link[rconn] = "up" /\ link' = [link EXCEPT ![rconn] = "down"]
    BY <1>3, <2>1, DropTypes DEF HandshakeRefused
  <2> QED BY <1>3, <2>2 DEF HandshakeRefused
<1>4. ASSUME NEW t \in Task, TakeTask(t) PROVE Goal
  <2>1. rconn \in Conn /\ toRunner' \in [Conn -> Seq(ToRunnerFrame)]
    BY <1>4, ReadTypes DEF TakeTask
  <2>2. toServer' \in [Conn -> Seq(ToServerFrame)]
    BY <1>4, <2>1, PushTypes, ServerFrameIn DEF TakeTask
  <2>3. job' \in [Task -> JobState]
    BY <1>4 DEF TakeTask, JobState
  <2> QED BY <1>4, <2>1, <2>2, <2>3, LinkAssumption DEF TakeTask
<1>5. ASSUME NEW t \in Task, StartJob(t) PROVE Goal
  BY <1>5, LinkAssumption DEF StartJob, JobState, Chunk
<1>6. ASSUME NEW t \in Task, EmitOutput(t) PROVE Goal
  <2>1. rconn \in Conn
    BY <1>6 DEF EmitOutput, Registered
  <2>2. chunks[t] \in Chunk /\ chunks[t] + 1 \in Chunk
    BY <1>6, LinkAssumption DEF EmitOutput, Chunk
  <2>3. toServer' \in [Conn -> Seq(ToServerFrame)]
    BY <1>6, <2>1, <2>2, PushTypes, ServerFrameIn DEF EmitOutput
  <2> QED BY <1>6, <2>2, <2>3 DEF EmitOutput
<1>7. ASSUME NEW t \in Task, TakeCancel(t) PROVE Goal
  <2>1. rconn \in Conn /\ toRunner' \in [Conn -> Seq(ToRunnerFrame)]
    BY <1>7, ReadTypes DEF TakeCancel
  <2> QED BY <1>7, <2>1, LinkAssumption DEF TakeCancel, Registered, JobState
<1>8. ASSUME NEW t \in Task, NEW s \in ResultStatus, FinishJob(t, s) PROVE Goal
  <2>1. rconn \in Conn
    BY <1>8 DEF FinishJob, Registered
  <2>2. toServer' \in [Conn -> Seq(ToServerFrame)]
    BY <1>8, <2>1, PushTypes, ServerFrameIn DEF FinishJob
  <2> QED BY <1>8, <2>2 DEF FinishJob, JobState
<1>9. ASSUME LinkLost PROVE Goal
  BY <1>9 DEF LinkLost, JobState
<1> QED
  BY <1>1, <1>2, <1>3, <1>4, <1>5, <1>6, <1>7, <1>8, <1>9 DEF AgentNext

(* A break, and a restart of the server.                                   *)
LEMMA OutageTypes ==
  ASSUME TypeInv, Break \/ ServerRestart
  PROVE  TypeInv'
<1>1. CASE Break
  <2>1. PICK c \in Conn : Drop(c)
    BY <1>1 DEF Break
  <2>2. LinkTypeOK' /\ link[c] = "up" /\ link' = [link EXCEPT ![c] = "down"]
    BY <2>1, DropTypes DEF TypeInv, TypeOK
  <2>3. HandledFrame'
    BY <1>1, <2>2 DEF Break, TypeInv, TypeOK, LinkTypeOK, HandledFrame, socketVars
  <2> QED
    BY <1>1, <2>2, <2>3
    DEF Break, TypeInv, TypeOK, HubTypeOK, DispatchTypeOK, SocketTypeOK,
        AgentTypeOK, hubVars, dispatchVars, rowVars, callVars, socketVars, agentVars
<1>2. CASE ServerRestart
  <2>1. LinkTypeOK'
    <3>1. /\ <<>> \in Seq(ToRunnerFrame)
          /\ <<>> \in Seq(ToServerFrame)
      BY EmptySeq
    <3> QED
      BY <1>2, <3>1 DEF ServerRestart, Restart, DropAll, TypeInv, TypeOK, LinkTypeOK
  <2>2. HubTypeOK'
    BY <1>2 DEF ServerRestart, Restart, HubTypeOK, Buffer
  <2>3. DispatchTypeOK'
    BY <1>2 DEF ServerRestart, Restart, TypeInv, TypeOK, DispatchTypeOK, RowStatus,
                TerminalStatus, DispatchPC
  <2>4. SocketTypeOK' /\ HandledFrame'
    <3>1. /\ hpc' = [c \in Conn |-> IF link[c] = "new" THEN hpc[c] ELSE "dead"]
          /\ frame' = [c \in Conn |-> None]
          /\ text' = [c \in Conn |-> {}]
          /\ lostIds' = [c \in Conn |-> {}]
          /\ link' = [c \in Conn |-> IF link[c] = "up" THEN "down" ELSE link[c]]
      BY <1>2 DEF ServerRestart, Restart, DropAll
    <3>2. SocketTypeOK'
      BY <3>1 DEF TypeInv, TypeOK, SocketTypeOK, SocketPC
    <3>3. HandledFrame'
      BY <3>1 DEF TypeInv, HandledFrame
    <3> QED BY <3>2, <3>3
  <2>5. AgentTypeOK'
    BY <1>2 DEF ServerRestart, TypeInv, TypeOK, AgentTypeOK, agentVars
  <2> QED BY <1>2, <2>1, <2>2, <2>3, <2>4, <2>5 DEF ServerRestart, TypeInv, TypeOK
<1> QED BY <1>1, <1>2

(* A stuttering step changes no variable.                                  *)
LEMMA StutterTypes ==
  ASSUME TypeInv, JobConnected, UNCHANGED vars
  PROVE  TypeInv' /\ JobConnected'
BY DEF TypeInv, TypeOK, JobConnected, HandledFrame, LinkTypeOK, HubTypeOK, DispatchTypeOK,
       SocketTypeOK, AgentTypeOK, vars, linkVars, hubVars, dispatchVars, rowVars,
       callVars, socketVars, agentVars

LEMMA NextTypes ==
  ASSUME TypeInv, JobConnected, [Next]_vars
  PROVE  TypeInv' /\ JobConnected'
<1>1. CASE Dispatcher
  BY <1>1, DispatchTypes DEF Dispatcher, JobConnected, agentVars
<1>2. CASE Handler
  BY <1>2, HandlerTypes DEF Handler, JobConnected, agentVars
<1>3. CASE Runner
  BY <1>3, RunnerTypes
<1>4. CASE Break
  BY <1>4, OutageTypes DEF Break, JobConnected, agentVars
<1>5. CASE ServerRestart
  BY <1>5, OutageTypes DEF ServerRestart, JobConnected, agentVars
<1>6. CASE UNCHANGED vars
  BY <1>6, StutterTypes
<1> QED BY <1>1, <1>2, <1>3, <1>4, <1>5, <1>6 DEF Next

LEMMA TypesHold == Spec => [](TypeInv /\ JobConnected)
<1>1. Init => TypeInv /\ JobConnected
  BY InitTypes DEF Init, AgentInit, JobConnected
<1>2. TypeInv /\ JobConnected /\ [Next]_vars => (TypeInv /\ JobConnected)'
  BY NextTypes
<1> QED BY <1>1, <1>2, PTL DEF Spec

(* Type correctness: in every reachable state every variable has the shape *)
(* its declaration says; in particular a row only ever holds a status of   *)
(* protocol.md 3.1 and an output buffer only chunks a task sent.           *)
THEOREM TypeCorrect == Spec => []TypeOK
<1>1. TypeInv => TypeOK
  BY DEF TypeInv
<1> QED BY <1>1, TypesHold, PTL

----------------------------------------------------------------------------
(* The safety of the calls.                                                *)

(* The inductive invariant of the tool calls.  A row exists from the first *)
(* step of its coroutine on, is dispatched or running only after the last  *)
(* write of that coroutine, and is answered only when it has returned;     *)
(* only blocking calls have a future or a session route.                   *)
CallState ==
  \A t \in Task :
    /\ dpc[t] = "idle" <=> status[t] = "none"
    /\ answer[t] # "none" => dpc[t] = "done"
    /\ status[t] \in {"dispatched", "running"} =>
         dpc[t] \in {"waiting", "reading", "done", "killed"}
    /\ t \in waiters \cup sessions => t \in blocking

CallInv == CallState /\ NothingLeftBehind /\ AnswerStands /\ ResultWakes

LEMMA InitCalls == Init => CallInv
BY DEF Init, HubInit, DispatchInit, CallInv, CallState, NothingLeftBehind, AnswerStands,
       ResultWakes, TerminalStatus, ResultStatus

(* The dispatching coroutines and cancel requests.                         *)
LEMMA DispatchCalls ==
  ASSUME TypeInv, CallInv, Dispatcher
  PROVE  CallInv'
<1> USE DEF CallInv, CallState, NothingLeftBehind, AnswerStands, ResultWakes, Dispatcher,
            hubVars, rowVars, socketVars, ResultStatus, TerminalStatus
<1>0. /\ status \in [Task -> RowStatus] /\ dpc \in [Task -> DispatchPC]
      /\ answer \in [Task -> RowStatus] /\ hpc' = hpc /\ frame' = frame
      /\ waiters \subseteq Task /\ sessions \subseteq Task
  BY DEF TypeInv, TypeOK, HubTypeOK, DispatchTypeOK
<1>1. ASSUME NEW t \in Task, NEW wait \in BOOLEAN, Create(t, wait) PROVE CallInv'
  BY <1>0, <1>1 DEF Create
<1>2. ASSUME NEW t \in Task, Begin(t) PROVE CallInv'
  <2>1. CASE t \in blocking /\ ~IsOnline
    <3>1. /\ dpc' = [dpc EXCEPT ![t] = "giveup"] /\ dpc[t] = "created"
          /\ UNCHANGED <<blocking, waiters, sessions, status, answer>>
      BY <1>2, <2>1 DEF Begin
    <3> QED BY <1>0, <3>1
  <2>2. CASE ~(t \in blocking /\ ~IsOnline)
    <3>1. /\ waiters' \subseteq waiters \cup (blocking \cap {t})
          /\ sessions' \subseteq sessions \cup (blocking \cap {t})
          /\ dpc' = [dpc EXCEPT ![t] = "sending"]
          /\ dpc[t] = "created"
          /\ UNCHANGED <<blocking, status, answer>>
      BY <1>2, <2>2 DEF Begin, Expect
    <3> QED BY <1>0, <3>1
  <2> QED BY <2>1, <2>2
<1>3. ASSUME NEW t \in Task, SendDone(t) PROVE CallInv'
  BY <1>0, <1>3 DEF SendDone
<1>4. ASSUME NEW t \in Task, SendFailed(t) PROVE CallInv'
  BY <1>0, <1>4 DEF SendFailed, Resolve
<1>5. ASSUME NEW t \in Task, GiveUp(t) PROVE CallInv'
  BY <1>0, <1>5 DEF GiveUp
<1>6. ASSUME NEW t \in Task, CommitDispatched(t) PROVE CallInv'
  <2>1. /\ dpc[t] = "sent" /\ status' = [status EXCEPT ![t] = "dispatched"]
        /\ UNCHANGED <<blocking, waiters, sessions>>
    BY <1>6 DEF CommitDispatched
  <2>2. \/ dpc' = [dpc EXCEPT ![t] = "waiting"] /\ answer' = answer
        \/ /\ t \notin blocking
           /\ dpc' = [dpc EXCEPT ![t] = "done"]
           /\ answer' = [answer EXCEPT ![t] = "dispatched"]
    BY <1>6 DEF CommitDispatched
  <2>3. /\ status'[t] = "dispatched"
        /\ \A u \in Task \ {t} : status'[u] = status[u] /\ dpc'[u] = dpc[u] /\ answer'[u] = answer[u]
    BY <1>0, <2>1, <2>2
  <2>4. /\ dpc'[t] \in {"waiting", "done"}
        /\ dpc'[t] = "done" => t \notin blocking
        /\ answer'[t] # "none" => dpc'[t] = "done" /\ answer'[t] = "dispatched"
    BY <1>0, <2>1, <2>2
  <2>5. ResultWakes'
    BY <1>0, <2>1, <2>3
  <2>6. NothingLeftBehind'
    BY <1>0, <2>1, <2>3, <2>4
  <2>7. CallState'
    BY <1>0, <2>1, <2>3, <2>4
  <2>8. AnswerStands'
    BY <2>3, <2>4
  <2> QED BY <2>5, <2>6, <2>7, <2>8
<1>7. ASSUME NEW t \in Task, WaitReturns(t) PROVE CallInv'
  BY <1>0, <1>7 DEF WaitReturns
<1>8. ASSUME NEW t \in Task, WaitTimesOut(t) PROVE CallInv'
  BY <1>0, <1>8 DEF WaitTimesOut, Resolve
<1>9. ASSUME NEW t \in Task, ReadBack(t) PROVE CallInv'
  BY <1>0, <1>9 DEF ReadBack
<1>10. ASSUME NEW t \in Task, CancelTask(t) PROVE CallInv'
  BY <1>0, <1>10 DEF CancelTask, dispatchVars, callVars
<1> QED
  BY <1>1, <1>2, <1>3, <1>4, <1>5, <1>6, <1>7, <1>8, <1>9, <1>10 DEF DispatchNext, DispatchStep

(* The connection handlers and the sweep.                                  *)
LEMMA HandlerCalls ==
  ASSUME TypeInv, CallInv, Handler
  PROVE  CallInv'
<1> USE DEF CallInv, CallState, NothingLeftBehind, AnswerStands, ResultWakes, Handler,
            hubVars, dispatchVars, rowVars, callVars
<1>0. /\ status \in [Task -> RowStatus] /\ hpc \in [Conn -> SocketPC] /\ waiters \subseteq Task
      /\ frame \in [Conn -> ToServerFrame \cup {None}]
  BY DEF TypeInv, TypeOK, HubTypeOK, DispatchTypeOK, SocketTypeOK
<1>1. ASSUME NEW c \in Conn, HelloMissed(c) PROVE CallInv'
  BY <1>0, <1>1 DEF HelloMissed
<1>2. ASSUME NEW c \in Conn, Hello(c) PROVE CallInv'
  BY <1>0, <1>2 DEF Hello
<1>3. ASSUME NEW c \in Conn, OldClosed(c) PROVE CallInv'
  BY <1>0, <1>3 DEF OldClosed
<1>4. ASSUME NEW c \in Conn, MarkOnline(c) PROVE CallInv'
  BY <1>0, <1>4 DEF MarkOnline
<1>5. ASSUME NEW c \in Conn, Ack(c) PROVE CallInv'
  BY <1>0, <1>5 DEF Ack
<1>6. ASSUME NEW c \in Conn, AckFailed(c) PROVE CallInv'
  BY <1>0, <1>6 DEF AckFailed
<1>7. ASSUME NEW c \in Conn, ReceiveOutput(c) PROVE CallInv'
  BY <1>0, <1>7 DEF ReceiveOutput, Receive, Resume
<1>8. ASSUME NEW c \in Conn, ReceiveAccepted(c) PROVE CallInv'
  BY <1>0, <1>8 DEF ReceiveAccepted, Receive
<1>9. ASSUME NEW c \in Conn, CommitRunning(c) PROVE CallInv'
  BY <1>0, <1>9 DEF CommitRunning, Resume, TerminalStatus, ResultStatus
<1>10. ASSUME NEW c \in Conn, ReceiveResult(c) PROVE CallInv'
  BY <1>0, <1>10 DEF ReceiveResult, Receive
<1>11. ASSUME NEW c \in Conn, CommitResult(c) PROVE CallInv'
  <2>1. frame[c].task \in Task /\ frame[c].status \in ResultStatus
    BY <1>0, <1>11, ServerFrames DEF CommitResult, TypeInv, HandledFrame
  <2>2. CASE status[frame[c].task] \in ActiveStatus
    <3>1. status' = [status EXCEPT ![frame[c].task] = frame[c].status]
      BY <1>11, <2>2 DEF CommitResult
    <3> QED
      BY <1>0, <1>11, <2>1, <2>2, <3>1
      DEF CommitResult, ActiveStatus, TerminalStatus, ResultStatus
  <2>3. CASE status[frame[c].task] \notin ActiveStatus
    BY <1>0, <1>11, <2>3 DEF CommitResult
  <2> QED BY <2>2, <2>3
<1>12. ASSUME NEW c \in Conn, WakeWaiter(c) PROVE CallInv'
  BY <1>0, <1>12 DEF WakeWaiter, Resume, Resolve
<1>13. ASSUME NEW c \in Conn, Leave(c) PROVE CallInv'
  BY <1>0, <1>13 DEF Leave
<1>14. ASSUME NEW c \in Conn, SelectLost(c) PROVE CallInv'
  BY <1>0, <1>14 DEF SelectLost
<1>15. ASSUME NEW c \in Conn, CommitLost(c) PROVE CallInv'
  <2>1. /\ status' = [t \in Task |-> IF status[t] \in ActiveStatus THEN "lost" ELSE status[t]]
        /\ hpc' = [hpc EXCEPT ![c] = "waking"] /\ hpc[c] = "marking"
        /\ UNCHANGED <<dpc, answer, waiters, sessions, blocking, frame>>
    BY <1>15 DEF CommitLost
  <2>2. ResultWakes'
    <3> SUFFICES ASSUME NEW t \in waiters, dpc[t] = "waiting", status'[t] \in ResultStatus
                 PROVE  \E d \in Conn : hpc'[d] = "stored" /\ frame[d].task = t
      BY <2>1
    <3>1. t \in Task /\ status[t] \in ResultStatus
      BY <1>0, <2>1 DEF ResultStatus, ActiveStatus
    <3>2. PICK d \in Conn : hpc[d] = "stored" /\ frame[d].task = t
      BY <3>1
    <3> QED BY <1>0, <2>1, <3>2
  <2>3. CallState'
    BY <1>0, <2>1 DEF ActiveStatus
  <2>4. NothingLeftBehind'
    BY <2>1
  <2>5. AnswerStands'
    BY <1>0, <2>1 DEF ActiveStatus, TerminalStatus, ResultStatus
  <2> QED BY <2>2, <2>3, <2>4, <2>5
<1>16. ASSUME NEW c \in Conn, WakeLost(c) PROVE CallInv'
  BY <1>0, <1>16 DEF WakeLost, Resolve
<1>17. ASSUME NEW c \in Conn, Sweep(c) PROVE CallInv'
  BY <1>0, <1>17 DEF Sweep, socketVars
<1> QED
  BY <1>1, <1>2, <1>3, <1>4, <1>5, <1>6, <1>7, <1>8, <1>9,
     <1>10, <1>11, <1>12, <1>13, <1>14, <1>15, <1>16, <1>17
  DEF SocketNext, SocketStep

LEMMA NextCalls ==
  ASSUME TypeInv, CallInv, [Next]_vars
  PROVE  CallInv'
<1> USE DEF CallInv, CallState, NothingLeftBehind, AnswerStands, ResultWakes
<1>1. CASE Dispatcher
  BY <1>1, DispatchCalls
<1>2. CASE Handler
  BY <1>2, HandlerCalls
<1>3. CASE Runner
  BY <1>3 DEF Runner, hubVars, dispatchVars, rowVars, callVars, socketVars
<1>4. CASE Break
  BY <1>4 DEF Break, hubVars, dispatchVars, rowVars, callVars, socketVars
<1>5. CASE ServerRestart
  <2>1. /\ status \in [Task -> RowStatus] /\ dpc \in [Task -> DispatchPC]
    BY DEF TypeInv, TypeOK, DispatchTypeOK
  <2>2. /\ status' = [t \in Task |-> IF status[t] \in ActiveStatus THEN "lost" ELSE status[t]]
        /\ dpc' = [t \in Task |-> IF dpc[t] \in {"idle", "done"} THEN dpc[t] ELSE "killed"]
        /\ waiters' = {} /\ sessions' = {} /\ answer' = answer
    BY <1>5 DEF ServerRestart, Restart
  <2> QED BY <2>1, <2>2 DEF ActiveStatus, TerminalStatus, ResultStatus
<1>6. CASE UNCHANGED vars
  BY <1>6 DEF vars, hubVars, dispatchVars, rowVars, callVars, socketVars
<1> QED BY <1>1, <1>2, <1>3, <1>4, <1>5, <1>6 DEF Next

LEMMA CallsHold == Spec => []CallInv
<1>1. TypeInv /\ CallInv /\ [Next]_vars => CallInv'
  BY NextCalls
<1> QED BY <1>1, InitCalls, TypesHold, PTL DEF Spec

(* A tool call that has returned, by whichever way, leaves no future and   *)
(* no session route behind (dispatch_and_wait, hub.wait).                  *)
THEOREM CallsCleanUp == Spec => []NothingLeftBehind
<1>1. CallInv => NothingLeftBehind
  BY DEF CallInv
<1> QED BY <1>1, CallsHold, PTL

(* No lost wake-up: a result in the row of a waiting call is followed by   *)
(* hub.resolve in the handler that stored it (ws.py 146-164).              *)
THEOREM ResultsWakeTheirCalls == Spec => []ResultWakes
<1>1. CallInv => ResultWakes
  BY DEF CallInv
<1> QED BY <1>1, CallsHold, PTL

(* A terminal status returned to the Agent Loop is never withdrawn.        *)
THEOREM AnswersStand == Spec => []AnswerStands
<1>1. CallInv => AnswerStands
  BY DEF CallInv
<1> QED BY <1>1, CallsHold, PTL

----------------------------------------------------------------------------
(* The refinement of TaskLifecycle: every step of the platform is one of   *)
(* its steps, or changes neither a row nor which tasks are settled.        *)
AbstractStep == [Lifecycle!Next]_<<status, Settled>>

LEMMA Stutters ==
  ASSUME UNCHANGED <<status, dpc>>
  PROVE  AbstractStep
BY DEF AbstractStep, Settled

LEMMA SameStatuses ==
  /\ Lifecycle!Active = ActiveStatus
  /\ Lifecycle!Reported = ResultStatus
BY DEF Lifecycle!Active, Lifecycle!Reported, ActiveStatus, ResultStatus

LEMMA DispatchRefines ==
  ASSUME TypeInv, CallInv, Dispatcher
  PROVE  AbstractStep
<1>0. /\ status \in [Task -> RowStatus] /\ dpc \in [Task -> DispatchPC]
      /\ \A t \in Task : dpc[t] = "idle" <=> status[t] = "none"
  BY DEF TypeInv, TypeOK, DispatchTypeOK, CallInv, CallState
<1>1. ASSUME NEW t \in Task, NEW wait \in BOOLEAN, Create(t, wait) PROVE AbstractStep
  <2>1. /\ dpc[t] = "idle" /\ dpc' = [dpc EXCEPT ![t] = "created"]
        /\ status[t] = "none" /\ status' = [status EXCEPT ![t] = "queued"]
    BY <1>0, <1>1 DEF Create
  <2>2. Settled' = Settled /\ t \notin Settled
    BY <1>0, <2>1 DEF Settled
  <2>3. Lifecycle!Queue(t)
    BY <2>1, <2>2 DEF Lifecycle!Queue
  <2> QED BY <2>3 DEF AbstractStep, Lifecycle!Next
<1>2. ASSUME NEW t \in Task, GiveUp(t) \/ CommitDispatched(t) PROVE AbstractStep
  <2>1. /\ dpc[t] \in {"giveup", "sent"}
        /\ \E s \in {"dispatched", "lost"} : status' = [status EXCEPT ![t] = s]
        /\ \E l \in {"waiting", "done"} : dpc' = [dpc EXCEPT ![t] = l]
    BY <1>2 DEF GiveUp, CommitDispatched
  <2>2. Settled' = Settled \cup {t}
    BY <1>0, <2>1 DEF Settled
  <2>3. Lifecycle!Settle(t)
    BY <1>0, <2>1, <2>2 DEF Lifecycle!Settle, Settled
  <2> QED BY <2>3 DEF AbstractStep, Lifecycle!Next
<1>3. ASSUME NEW t \in Task, \/ Begin(t) \/ SendDone(t) \/ SendFailed(t)
                              \/ WaitReturns(t) \/ WaitTimesOut(t) \/ ReadBack(t)
      PROVE  AbstractStep
  <2>1. /\ status' = status
        /\ \/ /\ dpc[t] \in {"created", "sending"}
              /\ \E l \in {"sending", "sent", "giveup"} : dpc' = [dpc EXCEPT ![t] = l]
           \/ /\ dpc[t] \in {"waiting", "reading"}
              /\ \E l \in {"reading", "done"} : dpc' = [dpc EXCEPT ![t] = l]
    BY <1>3 DEF Begin, SendDone, SendFailed, WaitReturns, WaitTimesOut, ReadBack, rowVars
  <2>2. Settled' = Settled
    BY <1>0, <2>1 DEF Settled
  <2> QED BY <2>1, <2>2 DEF AbstractStep
<1>4. ASSUME NEW t \in Task, CancelTask(t) PROVE AbstractStep
  BY <1>4, Stutters DEF CancelTask, dispatchVars, rowVars, callVars
<1> QED BY <1>1, <1>2, <1>3, <1>4 DEF Dispatcher, DispatchNext, DispatchStep

LEMMA HandlerRefines ==
  ASSUME TypeInv, CallInv, Handler
  PROVE  AbstractStep
<1>0. /\ status \in [Task -> RowStatus] /\ frame \in [Conn -> ToServerFrame \cup {None}]
      /\ \A t \in Task : status[t] = "dispatched" => t \in Settled
  BY DEF TypeInv, TypeOK, DispatchTypeOK, SocketTypeOK, CallInv, CallState, Settled
<1>1. ASSUME NEW c \in Conn, CommitRunning(c) PROVE AbstractStep
  <2>1. frame[c].task \in Task
    BY <1>0, <1>1, ServerFrames DEF CommitRunning, TypeInv, HandledFrame
  <2>2. UNCHANGED Settled
    BY <1>1 DEF CommitRunning, callVars, Settled
  <2>3. CASE status[frame[c].task] = "dispatched"
    <3>1. Lifecycle!Start(frame[c].task)
      BY <1>0, <1>1, <2>1, <2>2, <2>3 DEF CommitRunning, Lifecycle!Start
    <3> QED BY <2>1, <3>1 DEF AbstractStep, Lifecycle!Next
  <2>4. CASE status[frame[c].task] # "dispatched"
    BY <1>1, <2>2, <2>4 DEF CommitRunning, AbstractStep
  <2> QED BY <2>3, <2>4
<1>2. ASSUME NEW c \in Conn, CommitResult(c) PROVE AbstractStep
  <2>1. frame[c].task \in Task /\ frame[c].status \in ResultStatus
    BY <1>0, <1>2, ServerFrames DEF CommitResult, TypeInv, HandledFrame
  <2>2. UNCHANGED Settled
    BY <1>2 DEF CommitResult, callVars, Settled
  <2>3. CASE status[frame[c].task] \in ActiveStatus
    <3>1. status' = [status EXCEPT ![frame[c].task] = frame[c].status]
      BY <1>2, <2>3 DEF CommitResult
    <3>2. Lifecycle!Report(frame[c].task)
      BY <2>1, <2>2, <2>3, <3>1, SameStatuses DEF Lifecycle!Report
    <3> QED BY <2>1, <3>2 DEF AbstractStep, Lifecycle!Next
  <2>4. CASE status[frame[c].task] \notin ActiveStatus
    BY <1>2, <2>2, <2>4 DEF CommitResult, AbstractStep
  <2> QED BY <2>3, <2>4
<1>3. ASSUME NEW c \in Conn, CommitLost(c) PROVE AbstractStep
  <2>1. Lifecycle!Outage
    BY <1>3, SameStatuses
    DEF CommitLost, callVars, Lifecycle!Outage, Lifecycle!LoseActive, Settled
  <2> QED BY <2>1 DEF AbstractStep, Lifecycle!Next
<1>4. ASSUME NEW c \in Conn,
             \/ HelloMissed(c) \/ Hello(c) \/ OldClosed(c) \/ MarkOnline(c) \/ Ack(c)
             \/ AckFailed(c) \/ ReceiveOutput(c) \/ ReceiveAccepted(c) \/ ReceiveResult(c)
             \/ WakeWaiter(c) \/ Leave(c) \/ SelectLost(c) \/ WakeLost(c) \/ Sweep(c)
      PROVE  AbstractStep
  <2>1. UNCHANGED <<status, dpc>>
    BY <1>4
    DEF HelloMissed, Hello, OldClosed, MarkOnline, Ack, AckFailed, ReceiveOutput,
        ReceiveAccepted, ReceiveResult, Receive, WakeWaiter, Leave, SelectLost, WakeLost,
        Sweep, dispatchVars, rowVars, callVars
  <2> QED BY <2>1, Stutters
<1> QED BY <1>1, <1>2, <1>3, <1>4 DEF Handler, SocketNext, SocketStep

LEMMA RestartRefines ==
  ASSUME TypeInv, CallInv, ServerRestart
  PROVE  AbstractStep
<1>1. /\ dpc \in [Task -> DispatchPC]
      /\ \A t \in Task : dpc[t] = "idle" <=> status[t] = "none"
  BY DEF TypeInv, TypeOK, DispatchTypeOK, CallInv, CallState
<1>2. /\ status' = [t \in Task |-> IF status[t] \in ActiveStatus THEN "lost" ELSE status[t]]
      /\ dpc' = [t \in Task |-> IF dpc[t] \in {"idle", "done"} THEN dpc[t] ELSE "killed"]
  BY DEF ServerRestart, Restart
<1>3. Settled' = Settled \cup {t \in Task : status[t] # "none"}
  BY <1>1, <1>2 DEF Settled
<1>4. Lifecycle!Reset
  BY <1>2, <1>3, SameStatuses DEF Lifecycle!Reset, Lifecycle!LoseActive
<1> QED BY <1>4 DEF AbstractStep, Lifecycle!Next

LEMMA StepRefines ==
  ASSUME TypeInv, CallInv, [Next]_vars
  PROVE  AbstractStep
<1>1. CASE Dispatcher
  BY <1>1, DispatchRefines
<1>2. CASE Handler
  BY <1>2, HandlerRefines
<1>3. CASE Runner \/ Break \/ UNCHANGED vars
  BY <1>3, Stutters DEF Runner, Break, vars, dispatchVars, rowVars, callVars
<1>4. CASE ServerRestart
  BY <1>4, RestartRefines
<1> QED BY <1>1, <1>2, <1>3, <1>4 DEF Next

(* The rows keep the promise of TaskLifecycle: from queued to dispatched   *)
(* or lost by their creator, to running once, to a terminal status by a    *)
(* report or an outage, and nowhere else (protocol.md 3.1, services.py,    *)
(* the guarded UPDATEs of ws.py).                                          *)
THEOREM RowsRefineLifecycle == Spec => LifecycleSpec
<1>1. Init => Lifecycle!Init
  <2> SUFFICES ASSUME Init PROVE Lifecycle!Init
    OBVIOUS
  <2>1. status = [t \in Task |-> "none"] /\ dpc = [t \in Task |-> "idle"]
    BY DEF Init, DispatchInit
  <2>2. Settled = {}
    BY <2>1 DEF Settled
  <2> QED BY <2>1, <2>2 DEF Lifecycle!Init
<1>2. TypeInv /\ CallInv /\ [Next]_vars => [Lifecycle!Next]_<<status, Settled>>
  BY StepRefines DEF AbstractStep
<1> QED BY <1>1, <1>2, TypesHold, CallsHold, PTL DEF Spec, LifecycleSpec, Lifecycle!Spec

LEMMA AbstractFinal ==
  ASSUME status \in [Task -> RowStatus], AbstractStep,
         NEW t \in Settled, status[t] \in TerminalStatus
  PROVE  status'[t] = status[t]
<1>1. t \in Task /\ status[t] \notin {"none", "dispatched"} /\ status[t] \notin ActiveStatus
  BY DEF Settled, TerminalStatus, ResultStatus, ActiveStatus
<1>2. CASE UNCHANGED <<status, Settled>>
  BY <1>2
<1>3. ASSUME NEW u \in Task,
             Lifecycle!Queue(u) \/ Lifecycle!Settle(u) \/ Lifecycle!Start(u)
               \/ Lifecycle!Report(u)
      PROVE  status'[t] = status[t]
  BY <1>1, <1>3, SameStatuses
  DEF Lifecycle!Queue, Lifecycle!Settle, Lifecycle!Start, Lifecycle!Report
<1>4. CASE Lifecycle!Outage \/ Lifecycle!Reset
  BY <1>1, <1>4, SameStatuses DEF Lifecycle!Outage, Lifecycle!Reset, Lifecycle!LoseActive
<1> QED BY <1>2, <1>3, <1>4 DEF AbstractStep, Lifecycle!Next

(* Once the creator of a task writes its row no more, the first terminal   *)
(* status in the row is final: late results, late acceptances and outages  *)
(* are refused by the conditions of their UPDATEs (ws.py 28-36, 121-158).  *)
THEOREM FinalAfterSettling == Spec => FinalOnceSettled
<1>1. TypeInv /\ CallInv /\ [Next]_vars
        => [\A t \in Settled : status[t] \in TerminalStatus => status'[t] = status[t]]_vars
  <2> SUFFICES ASSUME TypeInv, CallInv, [Next]_vars, NEW t \in Settled,
                      status[t] \in TerminalStatus
               PROVE  status'[t] = status[t]
    OBVIOUS
  <2>1. AbstractStep
    BY StepRefines
  <2> QED BY <2>1, AbstractFinal DEF TypeInv, TypeOK, DispatchTypeOK
<1> QED BY <1>1, TypesHold, CallsHold, PTL DEF Spec, FinalOnceSettled

----------------------------------------------------------------------------
(* At most one execution per task: its single task frame is in one place,  *)
(* and once the Runner has taken it no other is on its way.                *)

(* The i-th frame on its way to the Runner on connection c starts t.       *)
FrameAt(t, c, i) == i \in 1 .. Len(toRunner[c]) /\ toRunner[c][i] = TaskFrame(t)

InFlight(t) == \E c \in Conn, i \in Nat : FrameAt(t, c, i)

OneFrame ==
  \A t \in Task, c, d \in Conn, i, j \in Nat :
    FrameAt(t, c, i) /\ FrameAt(t, d, j) => c = d /\ i = j

Early == {"idle", "created", "sending"}

(* A task is untouched by the Runner before its frame is sent and while    *)
(* the frame is in flight; a job that has not started its tool is the      *)
(* first of the task.                                                      *)
ExecState ==
  \A t \in Task :
    /\ dpc[t] \in Early => ~InFlight(t)
    /\ dpc[t] \in Early \/ InFlight(t) => job[t] = "none" /\ started[t] = 0
    /\ job[t] = "accepting" => started[t] = 0
    /\ started[t] <= 1

ExecInv == OneFrame /\ ExecState

LEMMA FramesDiffer ==
  ASSUME NEW t \in Task
  PROVE  /\ TaskFrame(t) # HelloAck
         /\ \A u \in Task : TaskFrame(t) # Cancel(u)
         /\ \A u \in Task : TaskFrame(t) = TaskFrame(u) => t = u
BY DEF TaskFrame, HelloAck, Cancel

(* A step that puts no task frame into a channel, moves none, takes no     *)
(* coroutine back before its send and leaves the jobs alone.               *)
LEMMA NoNewFrame ==
  ASSUME ExecInv, UNCHANGED <<job, started>>,
         \A t \in Task, c \in Conn, i \in Nat : FrameAt(t, c, i)' => FrameAt(t, c, i),
         \A t \in Task : dpc'[t] \in Early => dpc[t] \in Early
  PROVE  ExecInv'
<1>1. OneFrame'
  BY DEF ExecInv, OneFrame
<1>2. \A t \in Task : InFlight(t)' => InFlight(t)
  BY DEF InFlight
<1> QED BY <1>1, <1>2 DEF ExecInv, ExecState

LEMMA PushPlaces ==
  ASSUME LinkTypeOK, NEW c \in Conn, NEW f \in ToRunnerFrame, PushToRunner(c, f),
         NEW d \in Conn, NEW i \in 1 .. Len(toRunner'[d])
  PROVE  \/ i \in 1 .. Len(toRunner[d]) /\ toRunner'[d][i] = toRunner[d][i]
         \/ d = c /\ i = Len(toRunner[c]) + 1 /\ toRunner'[d][i] = f
<1>1. toRunner[c] \in Seq(ToRunnerFrame)
  BY DEF LinkTypeOK
<1>2. CASE toRunner' = toRunner
  BY <1>2
<1>3. CASE toRunner' = [toRunner EXCEPT ![c] = Append(@, f)]
  <2>1. CASE d = c
    <3>1. toRunner'[d] = Append(toRunner[c], f)
      BY <1>3, <2>1 DEF LinkTypeOK
    <3> QED BY <1>1, <2>1, <3>1, AppendProperties
  <2>2. CASE d # c
    BY <1>3, <2>2 DEF LinkTypeOK
  <2> QED BY <2>1, <2>2
<1> QED BY <1>2, <1>3 DEF PushToRunner

LEMMA ReadPlaces ==
  ASSUME LinkTypeOK, rconn \in Conn, NEW f, Read(f),
         NEW d \in Conn, NEW i \in 1 .. Len(toRunner'[d])
  PROVE  /\ d = rconn => /\ i + 1 \in 1 .. Len(toRunner[d])
                         /\ toRunner'[d][i] = toRunner[d][i + 1]
         /\ d # rconn => toRunner'[d] = toRunner[d]
<1>1. toRunner[rconn] \in Seq(ToRunnerFrame) /\ toRunner[rconn] # <<>>
  BY DEF LinkTypeOK, Read
<1>2. toRunner' = [toRunner EXCEPT ![rconn] = Tail(@)]
  BY DEF Read
<1>3. CASE d = rconn
  <2>1. toRunner'[d] = Tail(toRunner[rconn])
    BY <1>2, <1>3 DEF LinkTypeOK
  <2> QED BY <1>1, <1>3, <2>1, HeadTailProperties
<1>4. CASE d # rconn
  BY <1>2, <1>4 DEF LinkTypeOK
<1> QED BY <1>3, <1>4

(* Reading the head of a channel moves the other frames up by one.         *)
LEMMA ReadFrames ==
  ASSUME LinkTypeOK, rconn \in Conn, OneFrame, NEW f, Read(f)
  PROVE  /\ OneFrame'
         /\ \A t \in Task : InFlight(t)' => InFlight(t)
         /\ \A t \in Task : f = TaskFrame(t) => InFlight(t) /\ ~InFlight(t)'
<1>1. ASSUME NEW t \in Task, NEW d \in Conn, NEW i \in Nat, FrameAt(t, d, i)'
      PROVE  /\ d = rconn => i + 1 \in Nat \ {1} /\ FrameAt(t, d, i + 1)
             /\ d # rconn => FrameAt(t, d, i)
  <2>1. i \in 1 .. Len(toRunner'[d]) /\ toRunner'[d][i] = TaskFrame(t)
    BY <1>1 DEF FrameAt
  <2>2. /\ d = rconn => /\ i + 1 \in 1 .. Len(toRunner[d])
                        /\ toRunner'[d][i] = toRunner[d][i + 1]
        /\ d # rconn => toRunner'[d] = toRunner[d]
    BY <2>1, ReadPlaces
  <2> QED BY <2>1, <2>2 DEF FrameAt
<1>2. OneFrame'
  <2> SUFFICES ASSUME NEW t \in Task, NEW c \in Conn, NEW d \in Conn, NEW i \in Nat, NEW j \in Nat,
                      FrameAt(t, c, i)', FrameAt(t, d, j)'
               PROVE  c = d /\ i = j
    BY DEF OneFrame
  <2>1. CASE c = rconn /\ d = rconn
    <3>1. FrameAt(t, c, i + 1) /\ FrameAt(t, d, j + 1)
      BY <1>1, <2>1
    <3>2. i + 1 = j + 1
      BY <3>1 DEF OneFrame
    <3> QED BY <2>1, <3>2
  <2>2. CASE c = rconn /\ d # rconn
    BY <1>1, <2>2 DEF OneFrame
  <2>3. CASE c # rconn /\ d = rconn
    BY <1>1, <2>3 DEF OneFrame
  <2>4. CASE c # rconn /\ d # rconn
    BY <1>1, <2>4 DEF OneFrame
  <2> QED BY <2>1, <2>2, <2>3, <2>4
<1>3. \A t \in Task : InFlight(t)' => InFlight(t)
  <2> SUFFICES ASSUME NEW t \in Task, NEW d \in Conn, NEW i \in Nat, FrameAt(t, d, i)'
               PROVE  InFlight(t)
    BY DEF InFlight
  <2>1. i + 1 \in Nat
    OBVIOUS
  <2> QED BY <1>1, <2>1 DEF InFlight
<1>4. ASSUME NEW t \in Task, f = TaskFrame(t) PROVE InFlight(t) /\ ~InFlight(t)'
  <2>1. FrameAt(t, rconn, 1)
    <3>1. toRunner[rconn] \in Seq(ToRunnerFrame) /\ toRunner[rconn] # <<>>
      BY DEF LinkTypeOK, Read
    <3> QED BY <1>4, <3>1 DEF FrameAt, Read
  <2>2. ASSUME NEW d \in Conn, NEW i \in Nat, FrameAt(t, d, i)' PROVE FALSE
    <3>1. CASE d = rconn
      <4>1. FrameAt(t, d, i + 1) /\ i + 1 \in Nat \ {1}
        BY <1>1, <2>2, <3>1
      <4> QED BY <2>1, <3>1, <4>1 DEF OneFrame
    <3>2. CASE d # rconn
      BY <1>1, <2>1, <2>2, <3>2 DEF OneFrame
    <3> QED BY <3>1, <3>2
  <2> QED BY <2>1, <2>2 DEF InFlight
<1> QED BY <1>2, <1>3, <1>4

(* Writing any other frame adds no place for a task frame.                 *)
LEMMA OtherFramePushed ==
  ASSUME LinkTypeOK, NEW c \in Conn, NEW f \in ToRunnerFrame, PushToRunner(c, f),
         \A t \in Task : f # TaskFrame(t)
  PROVE  \A t \in Task, d \in Conn, i \in Nat : FrameAt(t, d, i)' => FrameAt(t, d, i)
<1> SUFFICES ASSUME NEW t \in Task, NEW d \in Conn, NEW i \in Nat, FrameAt(t, d, i)'
             PROVE  FrameAt(t, d, i)
  OBVIOUS
<1>1. i \in 1 .. Len(toRunner'[d]) /\ toRunner'[d][i] = TaskFrame(t)
  BY DEF FrameAt
<1> QED BY <1>1, PushPlaces DEF FrameAt

LEMMA InitExec == Init => ExecInv
BY DEF Init, LinkInit, DispatchInit, AgentInit, ExecInv, OneFrame, ExecState, InFlight,
       FrameAt, Early

(* The one step that sends a task frame.                                   *)
LEMMA SendDoneExec ==
  ASSUME TypeInv, ExecInv, UNCHANGED agentVars, NEW t \in Task, SendDone(t)
  PROVE  ExecInv'
<1>1. LinkTypeOK /\ via[t] \in Conn /\ TaskFrame(t) \in ToRunnerFrame
  BY ServerFrameIn DEF TypeInv, TypeOK, DispatchTypeOK, SendDone
<1>2. PushToRunner(via[t], TaskFrame(t)) /\ dpc[t] = "sending"
      /\ dpc' = [dpc EXCEPT ![t] = "sent"] /\ dpc \in [Task -> DispatchPC]
  BY DEF SendDone, TypeInv, TypeOK, DispatchTypeOK
<1>3. ~InFlight(t) /\ job[t] = "none" /\ started[t] = 0
  BY <1>2 DEF ExecInv, ExecState, Early
<1>4. ASSUME NEW u \in Task, NEW d \in Conn, NEW i \in Nat, FrameAt(u, d, i)'
      PROVE  \/ FrameAt(u, d, i)
             \/ u = t /\ d = via[t] /\ i = Len(toRunner[via[t]]) + 1
  <2>1. i \in 1 .. Len(toRunner'[d]) /\ toRunner'[d][i] = TaskFrame(u)
    BY <1>4 DEF FrameAt
  <2> QED BY <1>1, <1>2, <2>1, PushPlaces, FramesDiffer DEF FrameAt
<1>5. OneFrame'
  <2> SUFFICES ASSUME NEW u \in Task, NEW c \in Conn, NEW d \in Conn, NEW i \in Nat, NEW j \in Nat,
                      FrameAt(u, c, i)', FrameAt(u, d, j)'
               PROVE  c = d /\ i = j
    BY DEF OneFrame
  <2>1. CASE u = t
    BY <1>3, <1>4, <2>1 DEF InFlight
  <2>2. CASE u # t
    BY <1>4, <2>2 DEF ExecInv, OneFrame
  <2> QED BY <2>1, <2>2
<1>6. \A u \in Task : u # t /\ InFlight(u)' => InFlight(u)
  BY <1>4 DEF InFlight
<1>7. ExecState'
  BY <1>2, <1>3, <1>6 DEF ExecInv, ExecState, Early, agentVars
<1> QED BY <1>5, <1>7 DEF ExecInv

LEMMA DispatchExec ==
  ASSUME TypeInv, ExecInv, Dispatcher
  PROVE  ExecInv'
<1>0. /\ dpc \in [Task -> DispatchPC] /\ LinkTypeOK
      /\ UNCHANGED <<agentVars, job, started>>
  BY DEF TypeInv, TypeOK, DispatchTypeOK, Dispatcher, agentVars
<1>1. ASSUME NEW t \in Task, NEW wait \in BOOLEAN,
             \/ Create(t, wait) \/ Begin(t) \/ SendFailed(t) \/ GiveUp(t)
             \/ CommitDispatched(t) \/ WaitReturns(t) \/ WaitTimesOut(t) \/ ReadBack(t)
      PROVE  ExecInv'
  <2>1. /\ toRunner' = toRunner
        /\ \/ dpc[t] = "idle" /\ dpc' = [dpc EXCEPT ![t] = "created"]
           \/ dpc[t] = "created" /\ dpc' = [dpc EXCEPT ![t] = "sending"]
           \/ \E l \in {"giveup", "waiting", "reading", "done"} : dpc' = [dpc EXCEPT ![t] = l]
    BY <1>1
    DEF Create, Begin, SendFailed, GiveUp, CommitDispatched, WaitReturns, WaitTimesOut,
        ReadBack
  <2>2. \A u \in Task : dpc'[u] \in Early => dpc[u] \in Early
    BY <1>0, <2>1 DEF Early
  <2> QED BY <1>0, <2>1, <2>2, NoNewFrame DEF FrameAt
<1>2. ASSUME NEW t \in Task, SendDone(t) PROVE ExecInv'
  BY <1>0, <1>2, SendDoneExec
<1>3. ASSUME NEW t \in Task, CancelTask(t) PROVE ExecInv'
  <2>1. /\ hubConn \in Conn /\ Cancel(t) \in ToRunnerFrame
        /\ PushToRunner(hubConn, Cancel(t)) /\ dpc' = dpc
    BY <1>3, ServerFrameIn
    DEF CancelTask, TypeInv, TypeOK, HubTypeOK, dispatchVars, callVars
  <2> QED BY <1>0, <2>1, OtherFramePushed, FramesDiffer, NoNewFrame
<1> QED BY <1>1, <1>2, <1>3 DEF Dispatcher, DispatchNext, DispatchStep

LEMMA HandlerExec ==
  ASSUME TypeInv, ExecInv, Handler
  PROVE  ExecInv'
<1>0. LinkTypeOK /\ UNCHANGED <<job, started>>
  BY DEF TypeInv, TypeOK, Handler, agentVars
<1>1. ASSUME NEW c \in Conn, Ack(c) PROVE ExecInv'
  <2>1. PushToRunner(c, HelloAck) /\ dpc' = dpc
    BY <1>1 DEF Ack, dispatchVars, callVars
  <2> QED BY <1>0, <2>1, HelloAckIn, OtherFramePushed, FramesDiffer, NoNewFrame
<1>2. ASSUME NEW c \in Conn,
             \/ HelloMissed(c) \/ Hello(c) \/ OldClosed(c) \/ MarkOnline(c)
             \/ AckFailed(c) \/ ReceiveOutput(c) \/ ReceiveAccepted(c) \/ CommitRunning(c)
             \/ ReceiveResult(c) \/ CommitResult(c) \/ WakeWaiter(c) \/ Leave(c)
             \/ SelectLost(c) \/ CommitLost(c) \/ WakeLost(c) \/ Sweep(c)
      PROVE  ExecInv'
  <2>1. toRunner' = toRunner /\ dpc' = dpc
    BY <1>2
    DEF HelloMissed, Hello, OldClosed, MarkOnline, AckFailed, ReceiveOutput,
        ReceiveAccepted, CommitRunning, ReceiveResult, Receive, CommitResult, WakeWaiter,
        Leave, SelectLost, CommitLost, WakeLost, Sweep, linkVars, dispatchVars, callVars
  <2> QED BY <1>0, <2>1, NoNewFrame DEF FrameAt
<1> QED BY <1>1, <1>2 DEF Handler, SocketNext, SocketStep

LEMMA RunnerExec ==
  ASSUME TypeInv, JobConnected, ExecInv, Runner
  PROVE  ExecInv'
<1> USE DEF ExecInv
<1>0. /\ LinkTypeOK /\ rconn \in Conn \cup {None} /\ dpc' = dpc
      /\ job \in [Task -> JobState] /\ started \in [Task -> Nat]
  BY DEF TypeInv, TypeOK, AgentTypeOK, Runner, dispatchVars, callVars
<1>1. ASSUME NEW c \in Conn, Connect(c) PROVE ExecInv'
  BY <1>0, <1>1, NoNewFrame DEF Connect, FrameAt
<1>2. ASSUME HandshakeDone PROVE ExecInv'
  <2>1. rconn \in Conn /\ Read(HelloAck) /\ UNCHANGED <<job, started>>
    BY <1>0, <1>2, ReadTypes DEF HandshakeDone
  <2>2. OneFrame' /\ \A t \in Task : InFlight(t)' => InFlight(t)
    BY <1>0, <2>1, ReadFrames
  <2> QED BY <1>0, <2>1, <2>2 DEF ExecState
<1>3. ASSUME HandshakeRefused PROVE ExecInv'
  <2>1. /\ toRunner' = [toRunner EXCEPT ![rconn] = <<>>]
        /\ UNCHANGED <<job, started>>
    BY <1>3 DEF HandshakeRefused, Drop
  <2> QED BY <1>0, <2>1, NoNewFrame DEF FrameAt, LinkTypeOK
<1>4. ASSUME NEW t \in Task, TakeTask(t) PROVE ExecInv'
  <2>1. rconn \in Conn /\ Read(TaskFrame(t)) /\ UNCHANGED started
    BY <1>0, <1>4, ReadTypes DEF TakeTask
  <2>2. /\ OneFrame'
        /\ \A u \in Task : InFlight(u)' => InFlight(u)
        /\ InFlight(t) /\ ~InFlight(t)'
    BY <1>0, <2>1, ReadFrames
  <2>3. started[t] = 0 /\ dpc[t] \notin Early
    BY <2>2 DEF ExecState
  <2>4. job' = job \/ job' = [job EXCEPT ![t] = "accepting"]
    BY <1>4 DEF TakeTask
  <2> QED BY <1>0, <2>1, <2>2, <2>3, <2>4 DEF ExecState
<1>5. ASSUME NEW t \in Task, StartJob(t) PROVE ExecInv'
  <2>1. /\ toRunner' = toRunner /\ job[t] = "accepting"
        /\ job' = [job EXCEPT ![t] = "running"]
        /\ started' = [started EXCEPT ![t] = @ + 1]
    BY <1>5 DEF StartJob, linkVars
  <2>2. OneFrame' /\ \A u \in Task : InFlight(u)' <=> InFlight(u)
    BY <2>1 DEF OneFrame, InFlight, FrameAt
  <2>3. started[t] = 0 /\ ~InFlight(t) /\ dpc[t] \notin Early
    BY <2>1 DEF ExecState
  <2> QED BY <1>0, <2>1, <2>2, <2>3 DEF ExecState
<1>6. ASSUME NEW t \in Task, EmitOutput(t) PROVE ExecInv'
  BY <1>0, <1>6, NoNewFrame DEF EmitOutput, FrameAt
<1>7. ASSUME NEW t \in Task, TakeCancel(t) PROVE ExecInv'
  <2>1. rconn \in Conn /\ Read(Cancel(t)) /\ UNCHANGED started
    BY <1>0, <1>7, ReadTypes DEF TakeCancel
  <2>2. OneFrame' /\ \A u \in Task : InFlight(u)' => InFlight(u)
    BY <1>0, <2>1, ReadFrames
  <2>3. job' = job \/ (job[t] # "none" /\ job' = [job EXCEPT ![t] = "stopping"])
    BY <1>7 DEF TakeCancel, Registered
  <2> QED BY <1>0, <2>1, <2>2, <2>3 DEF ExecState
<1>8. ASSUME NEW t \in Task, NEW s \in ResultStatus, FinishJob(t, s) PROVE ExecInv'
  <2>1. /\ toRunner' = toRunner /\ started' = started
        /\ job' = [job EXCEPT ![t] = "none"]
    BY <1>8 DEF FinishJob
  <2>2. OneFrame' /\ \A u \in Task : InFlight(u)' <=> InFlight(u)
    BY <2>1 DEF OneFrame, InFlight, FrameAt
  <2> QED BY <1>0, <2>1, <2>2 DEF ExecState
<1>9. ASSUME LinkLost PROVE ExecInv'
  <2>1. /\ toRunner' = toRunner /\ started' = started
        /\ job' = [t \in Task |-> "none"]
    BY <1>9 DEF LinkLost, linkVars
  <2>2. OneFrame' /\ \A u \in Task : InFlight(u)' <=> InFlight(u)
    BY <2>1 DEF OneFrame, InFlight, FrameAt
  <2> QED BY <1>0, <2>1, <2>2 DEF ExecState
<1> QED
  BY <1>1, <1>2, <1>3, <1>4, <1>5, <1>6, <1>7, <1>8, <1>9 DEF Runner, AgentNext

LEMMA NextExec ==
  ASSUME TypeInv, JobConnected, ExecInv, [Next]_vars
  PROVE  ExecInv'
<1>1. CASE Dispatcher
  BY <1>1, DispatchExec
<1>2. CASE Handler
  BY <1>2, HandlerExec
<1>3. CASE Runner
  BY <1>3, RunnerExec
<1>4. CASE Break
  <2>1. PICK c \in Conn : toRunner' = [toRunner EXCEPT ![c] = <<>>]
    BY <1>4 DEF Break, Drop
  <2>2. UNCHANGED <<dpc, job, started>>
    BY <1>4 DEF Break, dispatchVars, callVars, agentVars
  <2>3. toRunner \in [Conn -> Seq(ToRunnerFrame)]
    BY DEF TypeInv, TypeOK, LinkTypeOK
  <2> QED BY <2>1, <2>2, <2>3, NoNewFrame DEF FrameAt
<1>5. CASE ServerRestart
  <2>1. /\ toRunner' = [c \in Conn |-> <<>>]
        /\ dpc' = [t \in Task |-> IF dpc[t] \in {"idle", "done"} THEN dpc[t] ELSE "killed"]
        /\ UNCHANGED <<job, started>>
    BY <1>5 DEF ServerRestart, Restart, DropAll, agentVars
  <2>2. \A t \in Task : dpc'[t] \in Early => dpc[t] \in Early
    BY <2>1 DEF Early
  <2> QED BY <2>1, <2>2, NoNewFrame DEF FrameAt
<1>6. CASE UNCHANGED vars
  BY <1>6, NoNewFrame DEF vars, linkVars, dispatchVars, callVars, agentVars, FrameAt
<1> QED BY <1>1, <1>2, <1>3, <1>4, <1>5, <1>6 DEF Next

(* No task is executed twice, however often connections break, Runners     *)
(* reconnect and the server restarts: a lost task is never sent again.     *)
THEOREM ExecutedAtMostOnce == Spec => []AtMostOneExecution
<1>1. TypeInv /\ JobConnected /\ ExecInv /\ [Next]_vars => ExecInv'
  BY NextExec
<1>2. ExecInv => AtMostOneExecution
  BY DEF ExecInv, ExecState, AtMostOneExecution
<1> QED BY <1>1, <1>2, InitExec, TypesHold, PTL DEF Spec

----------------------------------------------------------------------------
(* A row with a reported status is the one execution of its task.          *)

(* The i-th frame that the Server has yet to read from connection c is f.  *)
At(c, i, f) == i \in 1 .. Len(toServer[c]) /\ toServer[c][i] = f

(* It is output or the result of t.                                        *)
Says(t, c, i) ==
  \/ \E n \in Chunk : At(c, i, Output(t, n))
  \/ \E s \in ResultStatus : At(c, i, Result(t, s))

(* Before the tool of t starts nothing is said, kept or collected.         *)
Mute(t) ==
  started[t] = 0 =>
    /\ cache[t] = "none" /\ buffers[t] \in {None, {}}
    /\ \A c \in Conn, i \in Nat : ~Says(t, c, i)

OneJob(t) ==
  /\ cache[t] # "none" => job[t] = "none"
  /\ Registered(t) => started[t] = 1

(* What is said of t comes on one connection, that of its job.             *)
OneHome(t) ==
  \A c \in Conn, i \in Nat : Says(t, c, i) =>
    /\ \A d \in Conn, j \in Nat : Says(t, d, j) => c = d
    /\ Registered(t) => c = rconn

(* A buffer takes only a chunk that is newer than what it holds.           *)
Newer(t, n) == buffers[t] # None => \A k \in buffers[t] : k < n

InOrder(t) ==
  /\ Newer(t, chunks[t])
  /\ \A c \in Conn, i \in Nat, n \in Chunk : At(c, i, Output(t, n)) =>
       /\ n < chunks[t] /\ Newer(t, n)
       /\ \A j \in Nat, m \in Chunk : At(c, j, Output(t, m)) /\ i < j => n < m

(* Each chunk sent is in the open buffer, or on its way before place i.    *)
Complete(t, c, i) ==
  /\ buffers[t] # None
  /\ \A n \in Chunk : n < chunks[t] =>
       n \in buffers[t] \/ \E j \in Nat : j < i /\ At(c, j, Output(t, n))

NoneMissing(t) ==
  /\ \A c \in Conn : Registered(t) /\ rconn = c /\ link[c] = "up" => \E i \in Nat : Complete(t, c, i)
  /\ \A c \in Conn, i \in Nat, s \in ResultStatus : At(c, i, Result(t, s)) =>
       /\ cache[t] = s /\ Complete(t, c, i)
       /\ \A j \in Nat : Says(t, c, j) => j <= i

(* The buffer is open before the frame goes out.                           *)
Opened(t) ==
  ( \/ dpc[t] = "sending" \/ InFlight(t)
    \/ \E c \in Conn : job[t] = "accepting" /\ rconn = c /\ link[c] = "up" )
  => buffers[t] = {}

Sent(t) == {n \in Chunk : n < chunks[t]}

Written(t) ==
  /\ \A c \in Conn, s \in ResultStatus :
       hpc[c] = "storing" /\ frame[c] = Result(t, s) => cache[t] = s /\ text[c] = Sent(t)
  /\ status[t] \in ResultStatus => cache[t] = status[t] /\ stored[t] = Sent(t)

Stream(t) == Mute(t) /\ OneJob(t) /\ OneHome(t) /\ InOrder(t) /\ NoneMissing(t)

RowInv == \A t \in Task : Stream(t) /\ Opened(t) /\ Written(t)

LEMMA InitRows == Init => RowInv
<1> SUFFICES ASSUME Init, NEW t \in Task PROVE Stream(t) /\ Opened(t) /\ Written(t)
  BY DEF RowInv
<1>1. \A c \in Conn, i \in Nat : \A f : ~At(c, i, f) BY DEF Init, LinkInit, At
<1>2. \A c \in Conn, i \in Nat : ~Says(t, c, i) BY <1>1 DEF Says
<1>3. /\ cache[t] = "none" /\ job[t] = "none" /\ buffers[t] = None /\ started[t] = 0
      /\ status[t] = "none" /\ dpc[t] = "idle"
  BY DEF Init, HubInit, DispatchInit, AgentInit
<1>4. ~InFlight(t) BY DEF Init, LinkInit, InFlight, FrameAt
<1>5. \A c \in Conn : hpc[c] = "hello" BY DEF Init, SocketInit
<1>6. Stream(t)
  BY <1>1, <1>2, <1>3 DEF Stream, Mute, OneJob, OneHome, InOrder, Newer, NoneMissing, Registered
<1> QED BY <1>3, <1>4, <1>5, <1>6 DEF Opened, Written, ResultStatus

----------------------------------------------------------------------------
(* Frames, and their places.                                               *)

LEMMA FrameKinds ==
  ASSUME NEW t, NEW u, NEW n, NEW m, NEW r, NEW s
  PROVE  /\ Output(t, n) = Output(u, m) => t = u /\ n = m
         /\ Result(t, r) = Result(u, s) => t = u /\ r = s
         /\ Output(t, n) # Result(u, s) /\ Output(t, n) # Accepted(u) /\ Result(t, r) # Accepted(u)
  BY DEF Output, Result, Accepted

LEMMA FrameParts ==
  ASSUME NEW f \in ToServerFrame
  PROVE  /\ f.type = "task_output" => f = Output(f.task, f.seq) /\ f.task \in Task /\ f.seq \in Chunk
         /\ f.type = "task_result" =>
              f = Result(f.task, f.status) /\ f.task \in Task /\ f.status \in ResultStatus
         /\ f.type = "task_accepted" => f = Accepted(f.task) /\ f.task \in Task
<1>1. CASE \E t \in Task : f = Accepted(t) BY <1>1 DEF Accepted
<1>2. CASE \E t \in Task, n \in Chunk : f = Output(t, n) BY <1>2 DEF Output
<1>3. CASE \E t \in Task, s \in ResultStatus : f = Result(t, s) BY <1>3 DEF Result
<1> QED BY <1>1, <1>2, <1>3 DEF ToServerFrame

(* The head of a channel is handed over.                                   *)
LEMMA Taken ==
  ASSUME LinkTypeOK, NEW c \in Conn, NEW type, Receive(c, type)
  PROVE  /\ At(c, 1, Head(toServer[c]))
         /\ \A i \in Nat : \A f : At(c, i, f)' <=> i \in Nat \ {0} /\ At(c, i + 1, f)
         /\ \A d \in Conn, i \in Nat : \A f : d # c => (At(d, i, f)' <=> At(d, i, f))
<1>1. toServer[c] \in Seq(ToServerFrame) /\ toServer[c] # <<>> BY DEF LinkTypeOK, Receive
<1>2. toServer'[c] = Tail(toServer[c]) /\ \A d \in Conn : d # c => toServer'[d] = toServer[d]
  BY DEF LinkTypeOK, Receive
<1>3. /\ Len(toServer'[c]) = Len(toServer[c]) - 1 /\ Len(toServer[c]) \in Nat \ {0}
      /\ Head(toServer[c]) = toServer[c][1]
      /\ \A i \in 1 .. Len(toServer'[c]) : toServer'[c][i] = toServer[c][i + 1]
  BY <1>1, <1>2, HeadTailProperties
<1> QED BY <1>2, <1>3 DEF At

(* A frame is put into a channel, or vanishes.                             *)
LEMMA Put ==
  ASSUME LinkTypeOK, NEW c \in Conn, NEW g, PushToServer(c, g)
  PROVE  \E e \in Nat :
           /\ \A i \in Nat : \A f : At(c, i, f) => i < e
           /\ \A d \in Conn, i \in Nat : \A f :
                At(d, i, f)' <=> \/ At(d, i, f)
                                 \/ link[c] = "up" /\ d = c /\ i = e /\ f = g
<1>1. toServer[c] \in Seq(ToServerFrame) /\ Len(toServer[c]) \in Nat BY DEF LinkTypeOK
<1> DEFINE e == Len(toServer[c]) + 1
<1>2. \A i \in Nat : \A f : At(c, i, f) => i < e BY <1>1 DEF At
<1>3. CASE link[c] # "up"
  <2>1. toServer' = toServer BY <1>3 DEF PushToServer
  <2>2. \A d \in Conn, i \in Nat : \A f : At(d, i, f)' <=> At(d, i, f) BY <2>1 DEF At
  <2>3. e \in Nat BY <1>1
  <2> HIDE DEF e
  <2> QED BY <1>2, <1>3, <2>2, <2>3
<1>4. CASE link[c] = "up"
  <2>1. toServer'[c] = Append(toServer[c], g) /\ \A d \in Conn : d # c => toServer'[d] = toServer[d]
    BY <1>4 DEF PushToServer, LinkTypeOK
  <2>2. /\ Len(toServer'[c]) = e /\ toServer'[c][e] = g
        /\ \A i \in 1 .. Len(toServer[c]) : toServer'[c][i] = toServer[c][i]
    BY <1>1, <2>1
  <2>3. \A i \in Nat : \A f : At(c, i, f)' <=> At(c, i, f) \/ (i = e /\ f = g)
    BY <1>1, <2>2 DEF At
  <2>4. \A d \in Conn, i \in Nat : \A f : d # c => (At(d, i, f)' <=> At(d, i, f)) BY <2>1 DEF At
  <2> HIDE DEF e
  <2>5. e \in Nat BY <1>1 DEF e
  <2>6. \A d \in Conn, i \in Nat : \A f :
           At(d, i, f)' <=> At(d, i, f) \/ (link[c] = "up" /\ d = c /\ i = e /\ f = g)
    BY <1>4, <2>3, <2>4
  <2> QED BY <1>2, <2>5, <2>6
<1> QED BY <1>3, <1>4

(* A break keeps a prefix.                                                 *)
LEMMA Cut ==
  ASSUME LinkTypeOK, NEW c \in Conn, Drop(c)
  PROVE  \A d \in Conn, i, j \in Nat : \A f, g :
           /\ At(d, i, f)' => At(d, i, f)
           /\ At(d, i, f)' /\ j <= i /\ At(d, j, g) => At(d, j, g)'
<1>1. PICK n \in 0 .. Len(toServer[c]) : toServer' = [toServer EXCEPT ![c] = SubSeq(@, 1, n)]
  BY DEF Drop
<1>2. toServer[c] \in Seq(ToServerFrame) BY DEF LinkTypeOK
<1>3. toServer'[c] = SubSeq(toServer[c], 1, n) /\ \A d \in Conn : d # c => toServer'[d] = toServer[d]
  BY <1>1 DEF LinkTypeOK
<1>4. /\ Len(toServer'[c]) = n /\ n <= Len(toServer[c]) /\ Len(toServer[c]) \in Nat
      /\ \A i \in 1 .. n : toServer'[c][i] = toServer[c][i]
  BY <1>2, <1>3
<1>5. \A i \in Nat : \A f : At(c, i, f)' <=> i <= n /\ At(c, i, f) BY <1>4 DEF At
<1>6. \A d \in Conn, i \in Nat : \A f : d # c => (At(d, i, f)' <=> At(d, i, f)) BY <1>3 DEF At
<1>7. ASSUME NEW d \in Conn, NEW i \in Nat, NEW j \in Nat, NEW f, NEW g, At(d, i, f)', j <= i, At(d, j, g)
      PROVE  At(d, j, g)'
  BY <1>5, <1>6, <1>7
<1> QED BY <1>5, <1>6, <1>7

----------------------------------------------------------------------------
(* The steps of the stream of one task.                                    *)

(* Nothing of it moves, and a job, if there is one, is where it was.       *)
LEMMA SameStream ==
  ASSUME NEW t \in Task, Stream(t),
         \A d \in Conn, i \in Nat, n \in Chunk : At(d, i, Output(t, n))' <=> At(d, i, Output(t, n)),
         \A d \in Conn, i \in Nat, s \in ResultStatus :
           At(d, i, Result(t, s))' <=> At(d, i, Result(t, s)),
         buffers'[t] = buffers[t], chunks'[t] = chunks[t], cache'[t] = cache[t],
         started'[t] = started[t],
         Registered(t)' => Registered(t) /\ rconn' = rconn /\ link'[rconn] = link[rconn],
         cache[t] # "none" /\ job[t] = "none" => job'[t] = "none"
  PROVE  Stream(t)'
<1>1. \A d \in Conn, i \in Nat : Says(t, d, i)' <=> Says(t, d, i) BY DEF Says
<1>2. Mute(t)' BY <1>1 DEF Stream, Mute
<1>3. OneJob(t)' BY DEF Stream, OneJob
<1>4. OneHome(t)' BY <1>1 DEF Stream, OneHome
<1>5. InOrder(t)' BY DEF Stream, InOrder, Newer
<1>6. \A d \in Conn, i \in Nat : Complete(t, d, i) => Complete(t, d, i)' BY DEF Complete
<1>7. \A c \in Conn : Registered(t)' /\ rconn' = c /\ link'[c] = "up" => \E i \in Nat : Complete(t, c, i)'
  BY <1>6 DEF Stream, NoneMissing
<1>8. NoneMissing(t)' BY <1>1, <1>6, <1>7 DEF Stream, NoneMissing
<1> QED BY <1>2, <1>3, <1>4, <1>5, <1>8 DEF Stream

(* Before the tool starts a buffer may be opened and closed.               *)
LEMMA EmptyStream ==
  ASSUME NEW t \in Task, Stream(t), started[t] = 0, buffers'[t] \in {None, {}},
         UNCHANGED <<toServer, chunks, cache, started, job, rconn, link>>
  PROVE  Stream(t)'
<1>1. cache[t] = "none" /\ ~Registered(t) /\ \A c \in Conn, i \in Nat : ~Says(t, c, i)
  BY DEF Stream, Mute, OneJob
<1>2. \A c \in Conn, i \in Nat : \A f : At(c, i, f)' <=> At(c, i, f) BY DEF At
<1>3. \A c \in Conn, i \in Nat : ~Says(t, c, i)' BY <1>1, <1>2 DEF Says
<1>4. \A c \in Conn, i \in Nat, n \in Chunk : ~At(c, i, Output(t, n))' BY <1>3 DEF Says
<1>5. \A c \in Conn, i \in Nat, s \in ResultStatus : ~At(c, i, Result(t, s))' BY <1>3 DEF Says
<1>6. Mute(t)' /\ OneHome(t)' BY <1>1, <1>3 DEF Mute, OneHome
<1>7. OneJob(t)' /\ ~Registered(t)' BY <1>1 DEF Stream, OneJob, Registered
<1>8. InOrder(t)' BY <1>4 DEF InOrder, Newer
<1>9. NoneMissing(t)' BY <1>5, <1>7 DEF NoneMissing
<1> QED BY <1>6, <1>7, <1>8, <1>9 DEF Stream

(* The Server reads a frame that is not of t's stream.                     *)
LEMMA ShiftStream ==
  ASSUME NEW t \in Task, Stream(t), LinkTypeOK, NEW c \in Conn, NEW type, Receive(c, type),
         \A n \in Chunk : Head(toServer[c]) # Output(t, n),
         \A s \in ResultStatus : Head(toServer[c]) # Result(t, s),
         buffers'[t] = buffers[t],
         UNCHANGED <<chunks, cache, started, job, rconn, link>>
  PROVE  Stream(t)'
<1>1. /\ \A i \in Nat : \A f : At(c, i, f)' <=> i \in Nat \ {0} /\ At(c, i + 1, f)
      /\ \A d \in Conn, i \in Nat : \A f : d # c => (At(d, i, f)' <=> At(d, i, f))
  BY Taken
<1>2. \A f : At(c, 1, f) => f = Head(toServer[c]) BY Taken DEF At
<1>3. \A d \in Conn, i \in Nat : \A f : At(d, i, f) => i \in Nat \ {0} BY DEF At
<1>4. ASSUME NEW d \in Conn, NEW i \in Nat, Says(t, d, i)' PROVE \E j \in Nat : Says(t, d, j)
  <2>1. CASE d = c
    <3>1. Says(t, d, i + 1) /\ i + 1 \in Nat BY <1>1, <1>4, <2>1 DEF Says
    <3> QED BY <3>1
  <2>2. CASE d # c
    <3>1. Says(t, d, i) BY <1>1, <1>4, <2>2 DEF Says
    <3> QED BY <3>1
  <2> QED BY <2>1, <2>2
<1>5. Mute(t)' BY <1>4 DEF Stream, Mute
<1>6. OneJob(t)' BY DEF Stream, OneJob, Registered
<1>7. OneHome(t)' BY <1>4 DEF Stream, OneHome, Registered
<1>8. InOrder(t)'
  <2>1. Newer(t, chunks[t])' /\ \A n : Newer(t, n) => Newer(t, n)' BY DEF Stream, InOrder, Newer
  <2> SUFFICES ASSUME NEW d \in Conn, NEW i \in Nat, NEW n \in Chunk, At(d, i, Output(t, n))'
               PROVE  /\ n < chunks'[t] /\ Newer(t, n)'
                      /\ \A j \in Nat, m \in Chunk : At(d, j, Output(t, m))' /\ i < j => n < m
    BY <2>1 DEF InOrder
  <2>2. CASE d = c
    <3>1. i + 1 \in Nat /\ At(c, i + 1, Output(t, n)) BY <1>1, <2>2
    <3>2. \A j \in Nat, m \in Chunk : At(c, j, Output(t, m)) /\ i + 1 < j => n < m
      BY <3>1 DEF Stream, InOrder
    <3>3. n < chunks[t] /\ Newer(t, n) BY <3>1 DEF Stream, InOrder
    <3>4. ASSUME NEW j \in Nat, NEW m \in Chunk, At(d, j, Output(t, m))', i < j PROVE n < m
      <4>1. j + 1 \in Nat /\ i + 1 < j + 1 /\ At(c, j + 1, Output(t, m)) BY <1>1, <2>2, <3>4
      <4> QED BY <3>2, <4>1
    <3> QED BY <2>1, <3>3, <3>4
  <2>3. CASE d # c BY <1>1, <2>1, <2>3 DEF Stream, InOrder
  <2> QED BY <2>2, <2>3
<1>9. ASSUME NEW d \in Conn, NEW i \in Nat, NEW k \in Nat, Complete(t, d, k), k <= i + 1, d # c => k <= i
      PROVE  Complete(t, d, i)'
  <2>1. buffers'[t] # None /\ buffers'[t] = buffers[t] /\ chunks' = chunks BY <1>9 DEF Complete
  <2>2. ASSUME NEW n \in Chunk, n < chunks[t], n \notin buffers[t]
        PROVE  \E j \in Nat : j < i /\ At(d, j, Output(t, n))'
    <3>1. PICK j \in Nat : j < k /\ At(d, j, Output(t, n)) BY <1>9, <2>2 DEF Complete
    <3>2. CASE d # c BY <1>1, <1>9, <3>1, <3>2
    <3>3. CASE d = c
      <4>1. j # 1 /\ j # 0 BY <1>2, <1>3, <3>1, <3>3
      <4>2. j - 1 \in Nat \ {0} /\ (j - 1) + 1 = j /\ j - 1 < i BY <1>9, <3>1, <4>1
      <4> QED BY <1>1, <3>1, <3>3, <4>2
    <3> QED BY <3>2, <3>3
  <2> QED BY <2>1, <2>2 DEF Complete
<1>10. NoneMissing(t)'
  <2>1. ASSUME NEW d \in Conn, Registered(t)', rconn' = d, link'[d] = "up"
        PROVE  \E i \in Nat : Complete(t, d, i)'
    <3>1. PICK i \in Nat : Complete(t, d, i) BY <2>1 DEF Stream, NoneMissing, Registered
    <3>2. i <= i + 1 /\ i <= i OBVIOUS
    <3> QED BY <1>9, <3>1, <3>2
  <2>2. ASSUME NEW d \in Conn, NEW i \in Nat, NEW s \in ResultStatus, At(d, i, Result(t, s))'
        PROVE  /\ cache'[t] = s /\ Complete(t, d, i)'
               /\ \A j \in Nat : Says(t, d, j)' => j <= i
    <3>1. CASE d # c
      <4>1. At(d, i, Result(t, s)) BY <1>1, <2>2, <3>1
      <4>2. cache[t] = s /\ Complete(t, d, i) /\ \A j \in Nat : Says(t, d, j) => j <= i
        BY <4>1 DEF Stream, NoneMissing
      <4>3. \A j \in Nat : Says(t, d, j)' => Says(t, d, j) BY <1>1, <3>1 DEF Says
      <4>4. i <= i + 1 /\ i <= i OBVIOUS
      <4> QED BY <1>9, <4>2, <4>3, <4>4
    <3>2. CASE d = c
      <4>1. i + 1 \in Nat /\ At(d, i + 1, Result(t, s)) BY <1>1, <2>2, <3>2
      <4>2. /\ cache[t] = s /\ Complete(t, d, i + 1)
            /\ \A j \in Nat : Says(t, d, j) => j <= i + 1
        BY <4>1 DEF Stream, NoneMissing
      <4>3. \A j \in Nat : Says(t, d, j)' => Says(t, d, j + 1) BY <1>1, <3>2 DEF Says
      <4>4. ASSUME NEW j \in Nat, Says(t, d, j)' PROVE j <= i
        <5>1. j + 1 \in Nat /\ j + 1 <= i + 1 BY <4>2, <4>3, <4>4
        <5> QED BY <5>1
      <4>5. i + 1 <= i + 1 OBVIOUS
      <4> QED BY <1>9, <3>2, <4>1, <4>2, <4>4, <4>5
    <3> QED BY <3>1, <3>2
  <2> QED BY <2>1, <2>2 DEF NoneMissing
<1> QED BY <1>5, <1>6, <1>7, <1>8, <1>10 DEF Stream

(* Output of t is read into its buffer.                                    *)
LEMMA OutputStream ==
  ASSUME NEW t \in Task, Stream(t), LinkTypeOK, buffers[t] \in Buffer, chunks[t] \in Nat,
         NEW c \in Conn, NEW type, Receive(c, type),
         NEW n \in Chunk, Head(toServer[c]) = Output(t, n),
         buffers'[t] = IF buffers[t] # None /\ \A k \in buffers[t] : k < n
                       THEN buffers[t] \cup {n} ELSE buffers[t],
         UNCHANGED <<chunks, cache, started, job, rconn, link>>
  PROVE  Stream(t)'
<1>1. /\ \A i \in Nat : \A f : At(c, i, f)' <=> i \in Nat \ {0} /\ At(c, i + 1, f)
      /\ \A d \in Conn, i \in Nat : \A f : d # c => (At(d, i, f)' <=> At(d, i, f))
      /\ At(c, 1, Output(t, n))
  BY Taken
<1>2. \A f : At(c, 1, f) => f = Output(t, n) BY Taken DEF At
<1>3. \A d \in Conn, i \in Nat : \A f : At(d, i, f) => i \in Nat \ {0} BY DEF At
<1>4. Says(t, c, 1) /\ started[t] # 0 BY <1>1 DEF Says, Stream, Mute
<1>5. \A d \in Conn, i \in Nat : Says(t, d, i) => d = c BY <1>4 DEF Stream, OneHome
<1>6. ASSUME NEW d \in Conn, NEW i \in Nat, Says(t, d, i)' PROVE d = c /\ Says(t, c, i + 1)
  <2>1. d = c
    <3>1. d # c => Says(t, d, i) BY <1>1, <1>6 DEF Says
    <3> QED BY <1>5, <3>1
  <2> QED BY <1>1, <1>6, <2>1 DEF Says
<1>7. n < chunks[t] /\ Newer(t, n)
      /\ \A j \in Nat, m \in Chunk : At(c, j, Output(t, m)) /\ 1 < j => n < m
  BY <1>1 DEF Stream, InOrder
<1>8. buffers[t] # None => buffers'[t] = buffers[t] \cup {n} BY <1>7 DEF Newer
<1>9. buffers[t] = None => buffers'[t] = None OBVIOUS
<1>10. Mute(t)' BY <1>4 DEF Mute
<1>11. OneJob(t)' BY DEF Stream, OneJob, Registered
<1>12. OneHome(t)'
  <2>1. Registered(t) => c = rconn BY <1>4 DEF Stream, OneHome
  <2> QED BY <1>6, <2>1 DEF OneHome, Registered
<1>13. InOrder(t)'
  <2>1. Newer(t, chunks[t]) BY DEF Stream, InOrder
  <2>2. \A m : n < m /\ Newer(t, m) => Newer(t, m)' BY <1>8, <1>9 DEF Newer
  <2>3. Newer(t, chunks[t])' BY <1>7, <1>8, <1>9, <2>1 DEF Newer
  <2> SUFFICES ASSUME NEW d \in Conn, NEW i \in Nat, NEW m \in Chunk, At(d, i, Output(t, m))'
               PROVE  /\ m < chunks'[t] /\ Newer(t, m)'
                      /\ \A j \in Nat, r \in Chunk : At(d, j, Output(t, r))' /\ i < j => m < r
    BY <2>3 DEF InOrder
  <2>4. d = c BY <1>6 DEF Says
  <2>5. i + 1 \in Nat /\ At(c, i + 1, Output(t, m)) /\ 1 < i + 1 BY <1>1, <1>3, <2>4
  <2>6. /\ m < chunks[t] /\ Newer(t, m) /\ n < m
        /\ \A j \in Nat, r \in Chunk : At(c, j, Output(t, r)) /\ i + 1 < j => m < r
    BY <1>7, <2>5 DEF Stream, InOrder
  <2>7. ASSUME NEW j \in Nat, NEW r \in Chunk, At(d, j, Output(t, r))', i < j PROVE m < r
    <3>1. j + 1 \in Nat /\ i + 1 < j + 1 /\ At(c, j + 1, Output(t, r)) BY <1>1, <2>4, <2>7
    <3> QED BY <2>6, <3>1
  <2> QED BY <2>2, <2>6, <2>7
<1>14. ASSUME NEW i \in Nat, NEW k \in Nat, Complete(t, c, k), k <= i + 1 PROVE Complete(t, c, i)'
  <2>1. buffers'[t] # None /\ buffers'[t] = buffers[t] \cup {n} /\ chunks' = chunks
    <3>1. buffers[t] # None /\ buffers[t] \in SUBSET Chunk BY <1>14 DEF Complete, Buffer
    <3>2. buffers[t] \cup {n} # None BY <3>1, NoneAssumption
    <3> QED BY <1>8, <3>1, <3>2
  <2>2. ASSUME NEW m \in Chunk, m < chunks[t], m \notin buffers'[t]
        PROVE  \E j \in Nat : j < i /\ At(c, j, Output(t, m))'
    <3>1. PICK j \in Nat : j < k /\ At(c, j, Output(t, m)) BY <1>14, <2>1, <2>2 DEF Complete
    <3>2. j # 1 /\ j # 0
      <4>1. m # n BY <2>1, <2>2
      <4> QED BY <1>2, <1>3, <3>1, <4>1, FrameKinds
    <3>3. j - 1 \in Nat \ {0} /\ (j - 1) + 1 = j /\ j - 1 < i BY <1>14, <3>1, <3>2
    <3> QED BY <1>1, <3>1, <3>3
  <2> QED BY <2>1, <2>2 DEF Complete
<1>15. NoneMissing(t)'
  <2>1. ASSUME NEW d \in Conn, Registered(t)', rconn' = d, link'[d] = "up"
        PROVE  \E i \in Nat : Complete(t, d, i)'
    <3>1. d = c BY <1>4, <2>1 DEF Stream, OneHome, Registered
    <3>2. PICK i \in Nat : Complete(t, c, i) BY <2>1, <3>1 DEF Stream, NoneMissing, Registered
    <3>3. i <= i + 1 OBVIOUS
    <3> QED BY <1>14, <3>1, <3>2, <3>3
  <2>2. ASSUME NEW d \in Conn, NEW i \in Nat, NEW s \in ResultStatus, At(d, i, Result(t, s))'
        PROVE  /\ cache'[t] = s /\ Complete(t, d, i)'
               /\ \A j \in Nat : Says(t, d, j)' => j <= i
    <3>1. d = c BY <1>6, <2>2 DEF Says
    <3>2. i + 1 \in Nat /\ At(c, i + 1, Result(t, s)) BY <1>1, <2>2, <3>1
    <3>3. cache[t] = s /\ Complete(t, c, i + 1) /\ \A j \in Nat : Says(t, c, j) => j <= i + 1
      BY <3>2 DEF Stream, NoneMissing
    <3>4. ASSUME NEW j \in Nat, Says(t, d, j)' PROVE j <= i
      <4>1. j + 1 \in Nat /\ j + 1 <= i + 1 BY <1>6, <3>3, <3>4
      <4> QED BY <4>1
    <3>5. i + 1 <= i + 1 OBVIOUS
    <3> QED BY <1>14, <3>1, <3>2, <3>3, <3>4, <3>5
  <2> QED BY <2>1, <2>2 DEF NoneMissing
<1> QED BY <1>10, <1>11, <1>12, <1>13, <1>15 DEF Stream

(* The result of t is read; nothing of its stream is left.                 *)
LEMMA ResultStream ==
  ASSUME NEW t \in Task, Stream(t), LinkTypeOK, NEW c \in Conn, NEW type, Receive(c, type),
         buffers[t] \in Buffer,
         NEW s \in ResultStatus, Head(toServer[c]) = Result(t, s), buffers'[t] = None,
         UNCHANGED <<chunks, cache, started, job, rconn, link>>
  PROVE  Stream(t)' /\ cache[t] = s /\ Held(t) = Sent(t)
<1>1. /\ \A i \in Nat : \A f : At(c, i, f)' <=> i \in Nat \ {0} /\ At(c, i + 1, f)
      /\ \A d \in Conn, i \in Nat : \A f : d # c => (At(d, i, f)' <=> At(d, i, f))
      /\ At(c, 1, Result(t, s))
  BY Taken
<1>2. Says(t, c, 1) /\ started[t] # 0 BY <1>1 DEF Says, Stream, Mute
<1>3. \A d \in Conn, i \in Nat : Says(t, d, i) => d = c BY <1>2 DEF Stream, OneHome
<1>4. cache[t] = s /\ Complete(t, c, 1) /\ \A j \in Nat : Says(t, c, j) => j <= 1
  BY <1>1 DEF Stream, NoneMissing
<1>5. ASSUME NEW d \in Conn, NEW i \in Nat PROVE ~Says(t, d, i)'
  <2>1. CASE d = c
    <3>1. Says(t, d, i)' => i \in Nat \ {0} /\ Says(t, c, i + 1) BY <1>1, <2>1 DEF Says
    <3>2. i \in Nat \ {0} => ~(i + 1 <= 1) /\ i + 1 \in Nat OBVIOUS
    <3> QED BY <1>4, <3>1, <3>2
  <2>2. CASE d # c
    <3>1. Says(t, d, i)' => Says(t, d, i) BY <1>1, <2>2 DEF Says
    <3> QED BY <1>3, <2>2, <3>1
  <2> QED BY <2>1, <2>2
<1>6. cache[t] # "none" BY <1>4 DEF ResultStatus
<1>7. ~Registered(t) BY <1>6 DEF Stream, OneJob, Registered
<1>8. Mute(t)' BY <1>2 DEF Mute
<1>9. OneJob(t)' /\ ~Registered(t)' BY <1>7 DEF Stream, OneJob, Registered
<1>10. OneHome(t)' BY <1>5 DEF OneHome
<1>11. InOrder(t)' BY <1>5 DEF InOrder, Newer, Says
<1>12. NoneMissing(t)' BY <1>5, <1>9 DEF NoneMissing, Says
<1>13. Held(t) = Sent(t)
  <2>1. \A j \in Nat : j < 1 => j = 0 OBVIOUS
  <2>2. \A f : ~At(c, 0, f) BY DEF At
  <2>3. \A n \in Chunk : n < chunks[t] => n \in buffers[t] BY <1>4, <2>1, <2>2 DEF Complete
  <2>4. buffers[t] # None /\ \A n \in buffers[t] : n < chunks[t]
    BY <1>4 DEF Complete, Stream, InOrder, Newer
  <2>5. buffers[t] \subseteq Chunk BY <2>4 DEF Buffer
  <2> QED BY <2>3, <2>4, <2>5 DEF Held, Sent
<1> QED BY <1>4, <1>8, <1>9, <1>10, <1>11, <1>12, <1>13 DEF Stream

(* A connection breaks: what is left of a stream is what came first.       *)
LEMMA CutStream ==
  ASSUME NEW t \in Task, Stream(t), LinkTypeOK, NEW c \in Conn, Drop(c),
         buffers'[t] = buffers[t], UNCHANGED <<chunks, cache, started, job>>,
         Registered(t) => rconn' = rconn
  PROVE  Stream(t)'
<1>1. \A d \in Conn, i, j \in Nat : \A f, g :
           /\ At(d, i, f)' => At(d, i, f)
           /\ At(d, i, f)' /\ j <= i /\ At(d, j, g) => At(d, j, g)'
  BY Cut
<1>2. \A d \in Conn, i \in Nat : Says(t, d, i)' => Says(t, d, i) BY <1>1 DEF Says
<1>3. Registered(t)' <=> Registered(t) BY DEF Registered
<1>4. Mute(t)' /\ OneJob(t)' BY <1>2, <1>3 DEF Stream, Mute, OneJob
<1>5. OneHome(t)' BY <1>2, <1>3 DEF Stream, OneHome
<1>6. InOrder(t)' BY <1>1 DEF Stream, InOrder, Newer
<1>7. NoneMissing(t)'
  <2>1. ASSUME NEW d \in Conn, Registered(t)', rconn' = d, link'[d] = "up"
        PROVE  \E i \in Nat : Complete(t, d, i)'
    <3>1. link[d] = "up" /\ d # c BY <2>1 DEF Drop, LinkTypeOK
    <3>2. PICK i \in Nat : Complete(t, d, i) BY <1>3, <2>1, <3>1 DEF Stream, NoneMissing
    <3>3. \A j \in Nat : \A f : At(d, j, f)' <=> At(d, j, f)
      <4>1. toServer'[d] = toServer[d] BY <3>1 DEF Drop, LinkTypeOK
      <4> QED BY <4>1 DEF At
    <3>4. Complete(t, d, i)' BY <3>2, <3>3 DEF Complete
    <3> QED BY <3>4
  <2>2. ASSUME NEW d \in Conn, NEW i \in Nat, NEW s \in ResultStatus, At(d, i, Result(t, s))'
        PROVE  /\ cache'[t] = s /\ Complete(t, d, i)'
               /\ \A j \in Nat : Says(t, d, j)' => j <= i
    <3>1. At(d, i, Result(t, s)) BY <1>1, <2>2
    <3>2. cache[t] = s /\ Complete(t, d, i) /\ \A j \in Nat : Says(t, d, j) => j <= i
      BY <3>1 DEF Stream, NoneMissing
    <3>3. \A j \in Nat : \A f : j < i /\ At(d, j, f) => At(d, j, f)' BY <1>1, <2>2
    <3>4. Complete(t, d, i)' BY <3>2, <3>3 DEF Complete
    <3> QED BY <1>2, <3>2, <3>4
  <2> QED BY <2>1, <2>2 DEF NoneMissing
<1> QED BY <1>4, <1>5, <1>6, <1>7 DEF Stream

(* The server starts again: nothing is left of it.                         *)
LEMMA RestartStream ==
  ASSUME NEW t \in Task, Stream(t), DropAll, buffers'[t] = None, UNCHANGED agentVars
  PROVE  Stream(t)'
<1>1. \A d \in Conn : link'[d] # "up" /\ toServer'[d] = <<>> BY DEF DropAll
<1>2. \A d \in Conn, i \in Nat : \A f : ~At(d, i, f)' BY <1>1 DEF At
<1>3. \A d \in Conn, i \in Nat : ~Says(t, d, i)' BY <1>2 DEF Says
<1>4. UNCHANGED <<chunks, cache, started, job>> BY DEF agentVars
<1>5. Mute(t)' /\ OneJob(t)' BY <1>3, <1>4 DEF Stream, Mute, OneJob, Registered
<1>6. OneHome(t)' BY <1>3 DEF OneHome
<1>7. InOrder(t)' BY <1>2 DEF InOrder, Newer
<1>8. NoneMissing(t)' BY <1>1, <1>2 DEF NoneMissing
<1> QED BY <1>5, <1>6, <1>7, <1>8 DEF Stream

(* The tool starts.                                                        *)
LEMMA StartStream ==
  ASSUME NEW t \in Task, Stream(t), Opened(t), StartJob(t), started[t] = 0,
         AgentTypeOK, UNCHANGED buffers
  PROVE  Stream(t)'
<1>1. /\ job[t] = "accepting" /\ job'[t] = "running" /\ chunks'[t] = 0 /\ started'[t] = 1
      /\ cache' = cache /\ rconn' = rconn /\ link' = link /\ toServer' = toServer
  BY DEF StartJob, AgentTypeOK, linkVars
<1>2. /\ cache[t] = "none" /\ buffers[t] \in {None, {}}
      /\ \A c \in Conn, i \in Nat : ~Says(t, c, i)
  BY DEF Stream, Mute
<1>3. \A c \in Conn, i \in Nat : \A f : At(c, i, f)' <=> At(c, i, f) BY <1>1 DEF At
<1>4. \A c \in Conn, i \in Nat : ~Says(t, c, i)' BY <1>2, <1>3 DEF Says
<1>5. Mute(t)' BY <1>1 DEF Mute
<1>6. OneJob(t)' BY <1>1, <1>2 DEF OneJob
<1>7. OneHome(t)' BY <1>4 DEF OneHome
<1>8. InOrder(t)' BY <1>1, <1>2, <1>4 DEF InOrder, Newer, Says
<1>9. ASSUME NEW c \in Conn, rconn' = c, link'[c] = "up" PROVE \E i \in Nat : Complete(t, c, i)'
  <2>1. buffers'[t] = {} BY <1>1, <1>9 DEF Opened
  <2>2. {} # None BY NoneAssumption
  <2>3. Complete(t, c, 0)' BY <1>1, <2>1, <2>2 DEF Complete, Chunk
  <2> QED BY <2>3
<1>10. NoneMissing(t)' BY <1>4, <1>9 DEF NoneMissing, Says
<1> QED BY <1>5, <1>6, <1>7, <1>8, <1>10 DEF Stream

(* It says something.                                                      *)
LEMMA EmitStream ==
  ASSUME NEW t \in Task, Stream(t), LinkTypeOK, AgentTypeOK, rconn \in Conn, EmitOutput(t),
         HubTypeOK, UNCHANGED buffers
  PROVE  Stream(t)'
<1> DEFINE c == rconn
           g == Output(t, chunks[t])
<1>1. /\ Registered(t) /\ chunks[t] \in Chunk /\ chunks'[t] = chunks[t] + 1 /\ chunks[t] \in Nat
      /\ UNCHANGED <<cache, started, job, rconn, link>> /\ PushToServer(c, g)
  BY DEF EmitOutput, AgentTypeOK, Chunk
<1> HIDE DEF g
<1>2. PICK e \in Nat :
           /\ \A i \in Nat : \A f : At(c, i, f) => i < e
           /\ \A d \in Conn, i \in Nat : \A f :
                At(d, i, f)' <=> \/ At(d, i, f)
                                 \/ link[c] = "up" /\ d = c /\ i = e /\ f = g
  BY <1>1, Put
<1>3. \A n : g = Output(t, n) <=> n = chunks[t] BY FrameKinds DEF g
<1>4. \A s : g # Result(t, s) BY FrameKinds DEF g
<1>5. started[t] = 1 /\ cache[t] = "none" BY <1>1 DEF Stream, OneJob, Registered
<1>6. \A d \in Conn, i \in Nat : Says(t, d, i)' => Says(t, d, i) \/ d = c BY <1>2 DEF Says
<1>7. \A d \in Conn, i \in Nat : Says(t, d, i) => d = c BY <1>1 DEF Stream, OneHome
<1>8. Mute(t)' /\ OneJob(t)' BY <1>1, <1>5 DEF Mute, Stream, OneJob, Registered
<1>9. OneHome(t)' BY <1>1, <1>6, <1>7 DEF OneHome
<1>10. \A d \in Conn, i \in Nat, s \in ResultStatus : ~At(d, i, Result(t, s))
  BY <1>5 DEF Stream, NoneMissing, ResultStatus
<1>11. \A d \in Conn, i \in Nat, s \in ResultStatus : ~At(d, i, Result(t, s))' BY <1>2, <1>4, <1>10
<1>12. InOrder(t)'
  <2>1. Newer(t, chunks[t]) /\ \A n : Newer(t, n) => Newer(t, n)' BY DEF Stream, InOrder, Newer
  <2>2. \A n : n = chunks[t] \/ n = chunks'[t] => Newer(t, n)'
    <3>1. buffers'[t] # None => \A k \in buffers'[t] : k < chunks[t] BY <2>1 DEF Newer
    <3>2. buffers'[t] # None => \A k \in buffers'[t] : k \in Nat BY DEF HubTypeOK, Buffer, Chunk
    <3>3. buffers'[t] # None => \A k \in buffers'[t] : k < chunks'[t] BY <1>1, <3>1, <3>2
    <3> QED BY <3>1, <3>3 DEF Newer
  <2> SUFFICES ASSUME NEW d \in Conn, NEW i \in Nat, NEW n \in Chunk, At(d, i, Output(t, n))'
               PROVE  /\ n < chunks'[t] /\ Newer(t, n)'
                      /\ \A j \in Nat, m \in Chunk : At(d, j, Output(t, m))' /\ i < j => n < m
    <3>1. Newer(t, chunks[t])' BY <2>2
    <3> QED BY <3>1 DEF InOrder
  <2>3. CASE At(d, i, Output(t, n))
    <3>1. /\ n < chunks[t] /\ Newer(t, n)
          /\ \A j \in Nat, m \in Chunk : At(d, j, Output(t, m)) /\ i < j => n < m
      BY <2>3 DEF Stream, InOrder
    <3>2. n < chunks'[t] BY <1>1, <3>1 DEF Chunk
    <3>3. ASSUME NEW j \in Nat, NEW m \in Chunk, At(d, j, Output(t, m))', i < j PROVE n < m
      <4>1. CASE At(d, j, Output(t, m)) BY <3>1, <3>3, <4>1
      <4>2. CASE ~At(d, j, Output(t, m))
        <5>1. g = Output(t, m) BY <1>2, <3>3, <4>2
        <5> QED BY <1>3, <3>1, <5>1
      <4> QED BY <4>1, <4>2
    <3> QED BY <2>1, <3>1, <3>2, <3>3
  <2>4. CASE ~At(d, i, Output(t, n))
    <3>1. d = c /\ i = e /\ g = Output(t, n) BY <1>2, <2>4
    <3>2. n = chunks[t] BY <1>3, <3>1
    <3>3. n < chunks'[t] BY <1>1, <3>2
    <3>4. \A j \in Nat, m \in Chunk : ~(At(d, j, Output(t, m))' /\ i < j) BY <1>2, <3>1
    <3> QED BY <2>2, <3>2, <3>3, <3>4
  <2> QED BY <2>3, <2>4
<1>13. NoneMissing(t)'
  <2>1. ASSUME NEW d \in Conn, Registered(t)', rconn' = d, link'[d] = "up"
        PROVE  \E i \in Nat : Complete(t, d, i)'
    <3>1. d = c /\ link[c] = "up" BY <1>1, <2>1
    <3>2. PICK i \in Nat : Complete(t, d, i) BY <1>1, <2>1, <3>1 DEF Stream, NoneMissing
    <3>3. ASSUME NEW n \in Chunk, n < chunks'[t], n \notin buffers'[t]
          PROVE  \E j \in Nat : j < e + 1 /\ At(d, j, Output(t, n))'
      <4>1. CASE n < chunks[t]
        <5>1. PICK j \in Nat : At(d, j, Output(t, n)) BY <3>2, <3>3, <4>1 DEF Complete
        <5>2. At(d, j, Output(t, n))' /\ j < e BY <1>2, <3>1, <5>1
        <5>3. j < e + 1 BY <5>2
        <5> QED BY <5>2, <5>3
      <4>2. CASE ~(n < chunks[t])
        <5>1. n = chunks[t] BY <1>1, <3>3, <4>2 DEF Chunk
        <5>2. At(d, e, Output(t, n))' BY <1>2, <1>3, <3>1, <5>1
        <5>3. e < e + 1 OBVIOUS
        <5> QED BY <5>2, <5>3
      <4> QED BY <4>1, <4>2
    <3>4. e + 1 \in Nat /\ buffers'[t] # None BY <3>2 DEF Complete
    <3>5. Complete(t, d, e + 1)' BY <3>3, <3>4 DEF Complete
    <3> QED BY <3>4, <3>5
  <2> QED BY <1>11, <2>1 DEF NoneMissing
<1> QED BY <1>8, <1>9, <1>12, <1>13 DEF Stream

(* It ends: the result comes after all it said.                            *)
LEMMA FinishStream ==
  ASSUME NEW t \in Task, Stream(t), LinkTypeOK, AgentTypeOK, rconn \in Conn,
         NEW s \in ResultStatus, FinishJob(t, s), UNCHANGED buffers
  PROVE  Stream(t)'
<1> DEFINE c == rconn
           g == Result(t, s)
<1>1. /\ Registered(t) /\ job'[t] = "none" /\ cache'[t] = s
      /\ UNCHANGED <<chunks, started, rconn, link>> /\ PushToServer(c, g)
  BY DEF FinishJob, AgentTypeOK
<1> HIDE DEF g
<1>2. PICK e \in Nat :
           /\ \A i \in Nat : \A f : At(c, i, f) => i < e
           /\ \A d \in Conn, i \in Nat : \A f :
                At(d, i, f)' <=> \/ At(d, i, f)
                                 \/ link[c] = "up" /\ d = c /\ i = e /\ f = g
  BY <1>1, Put
<1>3. \A r : g = Result(t, r) <=> r = s BY FrameKinds DEF g
<1>4. \A n : g # Output(t, n) BY FrameKinds DEF g
<1>5. started[t] = 1 /\ cache[t] = "none" BY <1>1 DEF Stream, OneJob, Registered
<1>6. \A d \in Conn, i \in Nat : Says(t, d, i)' => Says(t, d, i) \/ (d = c /\ i = e) BY <1>2 DEF Says
<1>7. \A d \in Conn, i \in Nat : Says(t, d, i) => d = c /\ i < e
  <2>1. \A d \in Conn, i \in Nat : Says(t, d, i) => d = c BY <1>1 DEF Stream, OneHome
  <2>2. \A i \in Nat : Says(t, c, i) => i < e BY <1>2 DEF Says
  <2> QED BY <2>1, <2>2
<1>8. \A d \in Conn, i \in Nat : Says(t, d, i)' => d = c /\ i <= e BY <1>6, <1>7
<1>9. Mute(t)' /\ OneJob(t)' /\ ~Registered(t)' BY <1>1, <1>5 DEF Mute, OneJob, Registered
<1>10. OneHome(t)' BY <1>8, <1>9 DEF OneHome
<1>11. \A d \in Conn, i \in Nat, n \in Chunk : At(d, i, Output(t, n))' <=> At(d, i, Output(t, n))
  BY <1>2, <1>4
<1>12. InOrder(t)' BY <1>1, <1>11 DEF Stream, InOrder, Newer
<1>13. \A d \in Conn, i \in Nat, r \in ResultStatus : ~At(d, i, Result(t, r))
  BY <1>5 DEF Stream, NoneMissing, ResultStatus
<1>14. ASSUME NEW d \in Conn, NEW i \in Nat, NEW r \in ResultStatus, At(d, i, Result(t, r))'
       PROVE  /\ cache'[t] = r /\ Complete(t, d, i)'
              /\ \A j \in Nat : Says(t, d, j)' => j <= i
  <2>1. link[c] = "up" /\ d = c /\ i = e /\ r = s BY <1>2, <1>3, <1>13, <1>14
  <2>2. PICK k \in Nat : Complete(t, d, k) BY <1>1, <2>1 DEF Stream, NoneMissing
  <2>3. ASSUME NEW n \in Chunk, n < chunks[t], n \notin buffers[t]
        PROVE  \E j \in Nat : j < i /\ At(d, j, Output(t, n))'
    <3>1. PICK j \in Nat : At(d, j, Output(t, n)) BY <2>2, <2>3 DEF Complete
    <3> QED BY <1>2, <1>11, <2>1, <3>1
  <2>4. Complete(t, d, i)' BY <1>1, <2>2, <2>3 DEF Complete
  <2> QED BY <1>1, <1>8, <2>1, <2>4
<1>15. NoneMissing(t)' BY <1>9, <1>14 DEF NoneMissing
<1> QED BY <1>9, <1>10, <1>12, <1>15 DEF Stream

----------------------------------------------------------------------------
(* Buffers and rows.                                                       *)

LEMMA StillOpened ==
  ASSUME NEW t \in Task, Opened(t), buffers'[t] = buffers[t],
         dpc'[t] = "sending" => dpc[t] = "sending",
         InFlight(t)' => InFlight(t),
         \A c \in Conn : job'[t] = "accepting" /\ rconn' = c /\ link'[c] = "up"
                           => job[t] = "accepting" /\ rconn = c /\ link[c] = "up"
  PROVE  Opened(t)'
BY DEF Opened

(* Once the tool has started nobody expects an empty buffer.               *)
LEMMA StartedOpened ==
  ASSUME NEW t \in Task, ExecInv, started[t] # 0,
         dpc'[t] = "sending" => dpc[t] = "sending",
         InFlight(t)' => InFlight(t),
         job'[t] = job[t]
  PROVE  Opened(t)'
BY DEF Opened, ExecInv, ExecState, Early

LEMMA StillWritten ==
  ASSUME NEW t \in Task, Written(t),
         \A c \in Conn, s \in ResultStatus :
           hpc'[c] = "storing" /\ frame'[c] = Result(t, s)
             => hpc[c] = "storing" /\ frame[c] = Result(t, s) /\ text'[c] = text[c],
         status'[t] \in ResultStatus => status'[t] = status[t] /\ stored'[t] = stored[t],
         cache[t] # "none" => cache'[t] = cache[t] /\ chunks'[t] = chunks[t]
  PROVE  Written(t)'
<1>1. ASSUME cache[t] # "none" PROVE Sent(t)' = Sent(t) /\ cache'[t] = cache[t] BY <1>1 DEF Sent
<1>2. "none" \notin ResultStatus BY DEF ResultStatus
<1>3. ASSUME NEW c \in Conn, NEW s \in ResultStatus, hpc'[c] = "storing", frame'[c] = Result(t, s)
      PROVE  cache'[t] = s /\ text'[c] = Sent(t)'
  BY <1>1, <1>2, <1>3 DEF Written
<1>4. ASSUME status'[t] \in ResultStatus PROVE cache'[t] = status'[t] /\ stored'[t] = Sent(t)'
  BY <1>1, <1>2, <1>4 DEF Written
<1> QED BY <1>3, <1>4 DEF Written

(* No task is in flight but those that were, and the one just sent.        *)
LEMMA FramePushed ==
  ASSUME LinkTypeOK, NEW c \in Conn, NEW t \in Task, PushToRunner(c, TaskFrame(t)),
         NEW u \in Task, u # t, InFlight(u)'
  PROVE  InFlight(u)
<1>1. PICK d \in Conn, i \in Nat : FrameAt(u, d, i)' BY DEF InFlight
<1>2. i \in 1 .. Len(toRunner'[d]) /\ toRunner'[d][i] = TaskFrame(u) BY <1>1 DEF FrameAt
<1>3. FrameAt(u, d, i) BY <1>2, PushPlaces, ServerFrameIn, FramesDiffer DEF FrameAt
<1> QED BY <1>3 DEF InFlight

LEMMA SameAt ==
  ASSUME toServer' = toServer
  PROVE  \A c \in Conn, i \in Nat : \A f : At(c, i, f)' <=> At(c, i, f)
BY DEF At

LEMMA SameFlight ==
  ASSUME toRunner' = toRunner, NEW t
  PROVE  InFlight(t)' <=> InFlight(t)
BY DEF InFlight, FrameAt

(* The coroutines.                                                         *)
LEMMA DispatcherRows ==
  ASSUME TypeInv, ExecInv, RowInv, Dispatcher
  PROVE  RowInv'
<1> DEFINE Row(u) == Stream(u)' /\ Opened(u)' /\ Written(u)'
<1>0. /\ UNCHANGED <<link, toServer, hpc, frame, text, rconn, job, chunks, cache, started>>
      /\ LinkTypeOK /\ HubTypeOK /\ DispatchTypeOK
      /\ \A u \in Task : Stream(u) /\ Opened(u) /\ Written(u)
  BY DEF Dispatcher, socketVars, agentVars, TypeInv, TypeOK, RowInv
<1>1. ASSUME NEW u \in Task, buffers'[u] = buffers[u] PROVE Stream(u)'
  BY <1>0, <1>1, SameAt, SameStream DEF Registered
<1>2. ASSUME NEW u \in Task, dpc[u] \in Early, buffers'[u] \in {None, {}} PROVE Stream(u)'
  BY <1>0, <1>2, EmptyStream DEF ExecInv, ExecState
<1>3. ASSUME NEW u \in Task,
             status'[u] \in ResultStatus => status'[u] = status[u] /\ stored'[u] = stored[u]
      PROVE  Written(u)'
  BY <1>0, <1>3, StillWritten
<1>4. ASSUME NEW u \in Task, buffers'[u] = buffers[u], dpc'[u] = "sending" => dpc[u] = "sending",
             InFlight(u)' => InFlight(u)
      PROVE  Opened(u)'
  BY <1>0, <1>4, StillOpened
<1> HIDE DEF Row
<1>5. ASSUME NEW t \in Task, NEW wait \in BOOLEAN,
             \/ Create(t, wait) \/ GiveUp(t) \/ CommitDispatched(t)
             \/ WaitReturns(t) \/ WaitTimesOut(t) \/ ReadBack(t)
      PROVE  \A u \in Task : Row(u)
  <2>1. /\ toRunner' = toRunner /\ buffers' = buffers /\ stored' = stored
        /\ \E l \in {"created", "done", "waiting", "reading"} : dpc' = [dpc EXCEPT ![t] = l]
        /\ \/ status' = status
           \/ \E s \in {"queued", "lost", "dispatched"} : status' = [status EXCEPT ![t] = s]
    <3>1. CASE Create(t, wait) BY <3>1 DEF Create, hubVars
    <3>2. CASE GiveUp(t) BY <3>2 DEF GiveUp, hubVars
    <3>3. CASE CommitDispatched(t) BY <3>3 DEF CommitDispatched, hubVars
    <3>4. CASE WaitReturns(t) BY <3>4 DEF WaitReturns, hubVars, rowVars
    <3>5. CASE WaitTimesOut(t) BY <3>5 DEF WaitTimesOut, rowVars
    <3>6. CASE ReadBack(t) BY <3>6 DEF ReadBack, hubVars, rowVars
    <3> QED BY <1>5, <3>1, <3>2, <3>3, <3>4, <3>5, <3>6
  <2> TAKE u \in Task
  <2>2. dpc'[u] = "sending" => dpc[u] = "sending" BY <1>0, <2>1 DEF DispatchTypeOK
  <2>3. status'[u] \in ResultStatus => status'[u] = status[u] /\ stored'[u] = stored[u]
    BY <1>0, <2>1 DEF DispatchTypeOK, ResultStatus
  <2>4. Opened(u)' BY <1>4, <2>1, <2>2, SameFlight
  <2> QED BY <1>1, <1>3, <2>1, <2>3, <2>4 DEF Row
<1>6. ASSUME NEW t \in Task, Begin(t) \/ SendFailed(t) PROVE \A u \in Task : Row(u)
  <2>1. /\ toRunner' = toRunner /\ stored' = stored /\ status' = status
        /\ dpc[t] \in Early
        /\ \/ dpc' = [dpc EXCEPT ![t] = "giveup"] /\ buffers' = buffers
           \/ dpc' = [dpc EXCEPT ![t] = "sending"] /\ buffers' = [buffers EXCEPT ![t] = {}]
           \/ dpc' = [dpc EXCEPT ![t] = "giveup"] /\ buffers' = [buffers EXCEPT ![t] = None]
    <3>1. CASE Begin(t)
      <4>1. CASE t \in blocking /\ ~IsOnline BY <3>1, <4>1 DEF Begin, Early, rowVars
      <4>2. CASE ~(t \in blocking /\ ~IsOnline) BY <3>1, <4>2 DEF Begin, OpenBuffer, Early, rowVars
      <4> QED BY <4>1, <4>2
    <3>2. CASE SendFailed(t) BY <3>2 DEF SendFailed, CloseBuffer, Early, rowVars
    <3> QED BY <1>6, <3>1, <3>2
  <2> TAKE u \in Task
  <2>2. Written(u)' BY <1>3, <2>1
  <2>3. CASE buffers'[u] = buffers[u] /\ dpc'[u] # "sending"
    BY <1>1, <1>4, <2>1, <2>2, <2>3, SameFlight DEF Row
  <2>4. CASE u # t
    <3>1. buffers'[u] = buffers[u] /\ dpc'[u] = dpc[u] BY <1>0, <2>1, <2>4 DEF HubTypeOK, DispatchTypeOK
    <3> QED BY <1>1, <1>4, <2>1, <2>2, <3>1, SameFlight DEF Row
  <2>5. CASE u = t
    <3>1. job[u] = "none" /\ ~InFlight(u) BY <2>1, <2>5 DEF ExecInv, ExecState
    <3>2. ~InFlight(u)' BY <2>1, <3>1, SameFlight
    <3>3. CASE buffers'[u] = {}
      <4>1. Opened(u)' BY <3>3 DEF Opened
      <4> QED BY <1>2, <2>1, <2>2, <2>5, <3>3, <4>1 DEF Row
    <3>4. CASE buffers'[u] = None /\ dpc'[u] # "sending"
      <4>1. Opened(u)' BY <1>0, <3>1, <3>2, <3>4 DEF Opened
      <4> QED BY <1>2, <2>1, <2>2, <2>5, <3>4, <4>1 DEF Row
    <3>5. \/ buffers'[u] = {}
          \/ buffers'[u] \in {None, buffers[u]} /\ dpc'[u] # "sending"
      BY <1>0, <2>1, <2>5 DEF HubTypeOK, DispatchTypeOK
    <3> QED BY <2>3, <3>3, <3>4, <3>5
  <2> QED BY <2>4, <2>5
<1>7. ASSUME NEW t \in Task, SendDone(t) PROVE \A u \in Task : Row(u)
  <2>1. /\ PushToRunner(via[t], TaskFrame(t)) /\ via[t] \in Conn
        /\ UNCHANGED <<buffers, status, stored>>
        /\ dpc[t] = "sending" /\ dpc' = [dpc EXCEPT ![t] = "sent"]
    BY <1>0, <1>7 DEF SendDone, hubVars, rowVars, DispatchTypeOK
  <2> TAKE u \in Task
  <2>2. dpc'[u] = "sending" => dpc[u] = "sending" BY <1>0, <2>1 DEF DispatchTypeOK
  <2>3. CASE u = t
    <3>1. buffers'[u] = {} BY <1>0, <2>1, <2>3 DEF Opened
    <3>2. Opened(u)' BY <3>1 DEF Opened
    <3> QED BY <1>1, <1>3, <2>1, <3>2 DEF Row
  <2>4. CASE u # t
    <3>1. InFlight(u)' => InFlight(u) BY <1>0, <2>1, <2>4, FramePushed
    <3> QED BY <1>1, <1>3, <1>4, <2>1, <2>2, <3>1 DEF Row
  <2> QED BY <2>3, <2>4
<1>8. ASSUME NEW t \in Task, CancelTask(t) PROVE \A u \in Task : Row(u)
  <2>1. /\ hubConn \in Conn /\ PushToRunner(hubConn, Cancel(t)) /\ Cancel(t) \in ToRunnerFrame
        /\ UNCHANGED <<buffers, status, stored, dpc>>
    BY <1>0, <1>8, ServerFrameIn DEF CancelTask, hubVars, dispatchVars, rowVars, callVars, HubTypeOK
  <2>2. \A u \in Task : InFlight(u)' => InFlight(u)
    BY <1>0, <2>1, OtherFramePushed, FramesDiffer DEF InFlight
  <2> QED BY <1>1, <1>3, <1>4, <2>1, <2>2 DEF Row
<1>9. \A u \in Task : Row(u)
  BY <1>5, <1>6, <1>7, <1>8 DEF Dispatcher, DispatchNext, DispatchStep
<1> QED BY <1>9 DEF Row, RowInv

(* The handlers of the connections.                                        *)
LEMMA HandlerRows ==
  ASSUME TypeInv, ExecInv, RowInv, Handler
  PROVE  RowInv'
<1> DEFINE Row(u) == Stream(u)' /\ Opened(u)' /\ Written(u)'
           KeptRow(u) == status'[u] \in ResultStatus => status'[u] = status[u] /\ stored'[u] = stored[u]
           KeptFrames == \A d \in Conn : hpc'[d] = "storing" =>
                           hpc[d] = "storing" /\ frame'[d] = frame[d] /\ text'[d] = text[d]
<1>0. /\ UNCHANGED <<rconn, job, chunks, cache, started>>
      /\ LinkTypeOK /\ HubTypeOK /\ DispatchTypeOK /\ SocketTypeOK /\ AgentTypeOK /\ HandledFrame
      /\ \A u \in Task : Stream(u) /\ Opened(u) /\ Written(u)
  BY DEF Handler, agentVars, TypeInv, TypeOK, RowInv
<1>1. ASSUME NEW u \in Task, buffers'[u] = buffers[u], toServer' = toServer, link' = link PROVE Stream(u)'
  BY <1>0, <1>1, SameAt, SameStream DEF Registered
<1>2. ASSUME NEW u \in Task, buffers'[u] = buffers[u], dpc' = dpc, link' = link, InFlight(u)' => InFlight(u)
      PROVE  Opened(u)'
  BY <1>0, <1>2, StillOpened
<1>3. ASSUME NEW u \in Task, KeptRow(u), KeptFrames PROVE Written(u)'
  BY <1>0, <1>3, StillWritten
<1> HIDE DEF Row
<1>4. ASSUME NEW c \in Conn,
             \/ HelloMissed(c) \/ Hello(c) \/ OldClosed(c) \/ MarkOnline(c) \/ AckFailed(c)
             \/ Leave(c) \/ SelectLost(c) \/ WakeLost(c) \/ Sweep(c)
      PROVE  \A u \in Task : Row(u)
  <2>1. /\ UNCHANGED <<link, toRunner, toServer, buffers, status, stored, dpc, frame, text>>
        /\ \/ hpc' = hpc
           \/ \E l \in SocketPC \ {"storing"} : hpc' = [hpc EXCEPT ![c] = l]
    BY <1>4 DEF HelloMissed, Hello, OldClosed, MarkOnline, AckFailed, Leave, SelectLost, WakeLost,
                Sweep, linkVars, hubVars, dispatchVars, rowVars, callVars, socketVars, SocketPC
  <2>2. KeptFrames BY <1>0, <2>1 DEF SocketTypeOK
  <2> QED BY <1>1, <1>2, <1>3, <2>1, <2>2, SameFlight DEF Row
<1>5. ASSUME NEW c \in Conn, Ack(c) PROVE \A u \in Task : Row(u)
  <2>1. /\ UNCHANGED <<link, toServer, buffers, status, stored, dpc, frame, text>>
        /\ PushToRunner(c, HelloAck) /\ hpc' = [hpc EXCEPT ![c] = "recv"]
    BY <1>5 DEF Ack, hubVars, dispatchVars, rowVars, callVars
  <2>2. KeptFrames BY <1>0, <2>1 DEF SocketTypeOK
  <2>3. \A u \in Task : InFlight(u)' => InFlight(u)
    BY <1>0, <2>1, HelloAckIn, OtherFramePushed, FramesDiffer DEF InFlight
  <2> QED BY <1>1, <1>2, <1>3, <2>1, <2>2, <2>3 DEF Row
<1>6. ASSUME NEW c \in Conn, CommitRunning(c) \/ WakeWaiter(c) \/ CommitLost(c)
      PROVE  \A u \in Task : Row(u)
  <2>1. UNCHANGED <<link, toRunner, toServer, buffers, stored, dpc>>
    BY <1>6 DEF CommitRunning, WakeWaiter, CommitLost, linkVars, hubVars, dispatchVars, rowVars, callVars
  <2>2. hpc'[c] # "storing" /\ \A d \in Conn : d # c => hpc'[d] = hpc[d] /\ frame'[d] = frame[d] /\ text'[d] = text[d]
    BY <1>0, <1>6 DEF CommitRunning, WakeWaiter, CommitLost, Resume, SocketTypeOK
  <2>3. \A u \in Task : KeptRow(u)
    <3>1. CASE CommitRunning(c) BY <1>0, <2>1, <3>1 DEF CommitRunning, DispatchTypeOK, ResultStatus
    <3>2. CASE WakeWaiter(c) BY <2>1, <3>2 DEF WakeWaiter, dispatchVars, rowVars
    <3>3. CASE CommitLost(c) BY <1>0, <2>1, <3>3 DEF CommitLost, DispatchTypeOK, ResultStatus
    <3> QED BY <1>6, <3>1, <3>2, <3>3
  <2>4. KeptFrames BY <2>2
  <2> QED BY <1>1, <1>2, <1>3, <2>1, <2>3, <2>4, SameFlight DEF Row
<1>7. ASSUME NEW c \in Conn, CommitResult(c) PROVE \A u \in Task : Row(u)
  <2>1. /\ UNCHANGED <<link, toRunner, toServer, buffers, dpc, frame, text>>
        /\ hpc[c] = "storing" /\ hpc' = [hpc EXCEPT ![c] = "stored"]
    BY <1>7 DEF CommitResult, linkVars, hubVars, callVars
  <2>2. KeptFrames BY <1>0, <2>1 DEF SocketTypeOK
  <2>3. PICK t \in Task, s \in ResultStatus : frame[c] = Result(t, s)
    BY <1>0, <2>1, FrameParts DEF HandledFrame, SocketTypeOK
  <2>4. frame[c].task = t /\ frame[c].status = s BY <2>3 DEF Result
  <2>5. cache[t] = s /\ text[c] = Sent(t) BY <1>0, <2>1, <2>3 DEF Written
  <2> TAKE u \in Task
  <2>6. Stream(u)' /\ Opened(u)' BY <1>1, <1>2, <2>1, SameFlight
  <2>7. CASE u = t /\ status[t] \in ActiveStatus
    <3>1. status'[u] = s /\ stored'[u] = text[c] BY <1>0, <1>7, <2>4, <2>7 DEF CommitResult, DispatchTypeOK
    <3>2. Sent(u)' = Sent(u) BY <1>0 DEF Sent
    <3>3. \A d \in Conn, r \in ResultStatus :
             hpc'[d] = "storing" /\ frame'[d] = Result(u, r) => cache'[u] = r /\ text'[d] = Sent(u)'
      BY <1>0, <2>2, <3>2 DEF Written
    <3>4. Written(u)' BY <1>0, <2>5, <2>7, <3>1, <3>2, <3>3 DEF Written
    <3> QED BY <2>6, <3>4 DEF Row
  <2>8. CASE ~(u = t /\ status[t] \in ActiveStatus)
    <3>1. status'[u] = status[u] /\ stored'[u] = stored[u]
      BY <1>0, <1>7, <2>4, <2>8 DEF CommitResult, DispatchTypeOK
    <3> QED BY <1>3, <2>2, <2>6, <3>1 DEF Row
  <2> QED BY <2>7, <2>8
<1>8. ASSUME NEW c \in Conn, ReceiveAccepted(c) PROVE \A u \in Task : Row(u)
  <2>1. /\ Receive(c, "task_accepted") /\ Head(toServer[c]).type = "task_accepted"
        /\ UNCHANGED <<link, toRunner, buffers, status, stored, dpc, text>>
        /\ hpc' = [hpc EXCEPT ![c] = "accepting"] /\ frame' = [frame EXCEPT ![c] = Head(toServer[c])]
    BY <1>8 DEF ReceiveAccepted, Receive, rowVars, callVars
  <2>2. KeptFrames BY <1>0, <2>1 DEF SocketTypeOK
  <2>3. \A u : (\A n : Head(toServer[c]) # Output(u, n)) /\ \A s : Head(toServer[c]) # Result(u, s)
    BY <2>1 DEF Output, Result
  <2>4. \A u \in Task : Stream(u)' BY <1>0, <2>1, <2>3, ShiftStream
  <2> QED BY <1>2, <1>3, <2>1, <2>2, <2>4, SameFlight DEF Row
<1>9. ASSUME NEW c \in Conn, ReceiveOutput(c) PROVE \A u \in Task : Row(u)
  <2>1. /\ Receive(c, "task_output") /\ Head(toServer[c]).type = "task_output"
        /\ UNCHANGED <<link, toRunner, status, stored, dpc>>
        /\ BufferAdd(Head(toServer[c]).task, Head(toServer[c]).seq)
        /\ hpc'[c] # "storing"
        /\ \A d \in Conn : d # c => hpc'[d] = hpc[d] /\ frame'[d] = frame[d] /\ text'[d] = text[d]
    BY <1>0, <1>9 DEF ReceiveOutput, Receive, Resume, rowVars, callVars, SocketTypeOK
  <2>2. KeptFrames BY <2>1
  <2>3. Head(toServer[c]) \in ToServerFrame BY <1>0, <2>1, ReceiveTypes
  <2>4. PICK t \in Task, n \in Chunk : Head(toServer[c]) = Output(t, n) BY <2>1, <2>3, FrameParts
  <2>5. /\ buffers'[t] = IF buffers[t] # None /\ \A k \in buffers[t] : k < n
                         THEN buffers[t] \cup {n} ELSE buffers[t]
        /\ \A u \in Task : u # t => buffers'[u] = buffers[u]
    <3>1. Head(toServer[c]).task = t /\ Head(toServer[c]).seq = n BY <2>4 DEF Output
    <3>2. BufferAdd(t, n) BY <2>1, <3>1
    <3> QED BY <1>0, <3>2 DEF BufferAdd, HubTypeOK
  <2> TAKE u \in Task
  <2>6. Written(u)' BY <1>3, <2>1, <2>2
  <2>7. CASE u = t
    <3>1. At(c, 1, Output(t, n)) BY <1>0, <2>1, <2>4, Taken
    <3>2. started[t] # 0 BY <1>0, <3>1 DEF Says, Stream, Mute
    <3>3. Opened(u)' BY <1>0, <2>1, <2>7, <3>2, StartedOpened, SameFlight
    <3>4. buffers[t] \in Buffer /\ chunks[t] \in Nat BY <1>0 DEF HubTypeOK, AgentTypeOK, Chunk
    <3>5. Stream(t)' BY <1>0, <2>1, <2>4, <2>5, <3>4, OutputStream
    <3> QED BY <2>6, <2>7, <3>3, <3>5 DEF Row
  <2>8. CASE u # t
    <3>1. (\A m : Head(toServer[c]) # Output(u, m)) /\ \A s : Head(toServer[c]) # Result(u, s)
      BY <2>4, <2>8, FrameKinds
    <3>2. Stream(u)' BY <1>0, <2>1, <2>5, <2>8, <3>1, ShiftStream
    <3>3. Opened(u)' BY <1>2, <2>1, <2>5, <2>8, SameFlight
    <3> QED BY <2>6, <3>2, <3>3 DEF Row
  <2> QED BY <2>7, <2>8
<1>10. ASSUME NEW c \in Conn, ReceiveResult(c) PROVE \A u \in Task : Row(u)
  <2>1. /\ Receive(c, "task_result") /\ Head(toServer[c]).type = "task_result"
        /\ UNCHANGED <<link, toRunner, status, stored, dpc>>
        /\ CloseBuffer(Head(toServer[c]).task)
        /\ frame'[c] = Head(toServer[c]) /\ text'[c] = Held(Head(toServer[c]).task)
        /\ \A d \in Conn : d # c => hpc'[d] = hpc[d] /\ frame'[d] = frame[d] /\ text'[d] = text[d]
    BY <1>0, <1>10 DEF ReceiveResult, Receive, rowVars, callVars, SocketTypeOK
  <2>2. Head(toServer[c]) \in ToServerFrame BY <1>0, <2>1, ReceiveTypes
  <2>3. PICK t \in Task, s \in ResultStatus : Head(toServer[c]) = Result(t, s)
    BY <2>1, <2>2, FrameParts
  <2>4. Head(toServer[c]).task = t BY <2>3 DEF Result
  <2>5. buffers'[t] = None /\ \A u \in Task : u # t => buffers'[u] = buffers[u]
    BY <1>0, <2>1, <2>4 DEF CloseBuffer, HubTypeOK
  <2> TAKE u \in Task
  <2>6. CASE u = t
    <3>1. At(c, 1, Result(t, s)) BY <1>0, <2>1, <2>3, Taken
    <3>2. started[t] # 0 BY <1>0, <3>1 DEF Says, Stream, Mute
    <3>3. Opened(u)' BY <1>0, <2>1, <2>6, <3>2, StartedOpened, SameFlight
    <3>4. buffers[t] \in Buffer BY <1>0 DEF HubTypeOK
    <3>5. Stream(t)' /\ cache[t] = s /\ Held(t) = Sent(t)
      BY <1>0, <2>1, <2>3, <2>5, <3>4, ResultStream
    <3>6. Sent(t)' = Sent(t) BY <1>0 DEF Sent
    <3>7. ASSUME NEW d \in Conn, NEW r \in ResultStatus, hpc'[d] = "storing", frame'[d] = Result(t, r)
          PROVE  cache'[t] = r /\ text'[d] = Sent(t)'
      <4>1. CASE d = c
        <5>1. r = s BY <2>1, <2>3, <3>7, <4>1, FrameKinds
        <5> QED BY <1>0, <2>1, <2>4, <3>5, <3>6, <4>1, <5>1
      <4>2. CASE d # c BY <1>0, <2>1, <3>6, <3>7, <4>2 DEF Written
      <4> QED BY <4>1, <4>2
    <3>8. status'[t] \in ResultStatus => cache'[t] = status'[t] /\ stored'[t] = Sent(t)'
      BY <1>0, <2>1, <3>6 DEF Written
    <3>9. Written(t)' BY <3>7, <3>8 DEF Written
    <3> QED BY <2>6, <3>3, <3>5, <3>9 DEF Row
  <2>7. CASE u # t
    <3>1. (\A m : Head(toServer[c]) # Output(u, m)) /\ \A r : Head(toServer[c]) # Result(u, r)
      BY <2>3, <2>7, FrameKinds
    <3>2. Stream(u)' BY <1>0, <2>1, <2>5, <2>7, <3>1, ShiftStream
    <3>3. Opened(u)' BY <1>2, <2>1, <2>5, <2>7, SameFlight
    <3>4. \A d \in Conn, r \in ResultStatus :
             hpc'[d] = "storing" /\ frame'[d] = Result(u, r)
               => hpc[d] = "storing" /\ frame[d] = Result(u, r) /\ text'[d] = text[d]
      BY <2>1, <3>1
    <3>5. Written(u)' BY <1>0, <2>1, <3>4, StillWritten
    <3> QED BY <3>2, <3>3, <3>5 DEF Row
  <2> QED BY <2>6, <2>7
<1>11. \A u \in Task : Row(u)
  BY <1>4, <1>5, <1>6, <1>7, <1>8, <1>9, <1>10 DEF Handler, SocketNext, SocketStep
<1> QED BY <1>11 DEF Row, RowInv

(* A frame of another stream is sent.                                      *)
LEMMA OtherPut ==
  ASSUME LinkTypeOK, NEW c \in Conn, NEW g, PushToServer(c, g), NEW u \in Task,
         \A n \in Chunk : g # Output(u, n), \A s \in ResultStatus : g # Result(u, s)
  PROVE  /\ \A d \in Conn, i \in Nat, n \in Chunk : At(d, i, Output(u, n))' <=> At(d, i, Output(u, n))
         /\ \A d \in Conn, i \in Nat, s \in ResultStatus :
              At(d, i, Result(u, s))' <=> At(d, i, Result(u, s))
BY Put

(* The Runner.                                                             *)
LEMMA RunnerRows ==
  ASSUME TypeInv, JobConnected, ExecInv, RowInv, Runner
  PROVE  RowInv'
<1> DEFINE Row(u) == Stream(u)' /\ Opened(u)' /\ Written(u)'
<1>0. /\ UNCHANGED <<buffers, dpc, status, stored, hpc, frame, text>>
      /\ LinkTypeOK /\ HubTypeOK /\ AgentTypeOK /\ rconn \in Conn \cup {None}
      /\ \A u \in Task : Stream(u) /\ Opened(u) /\ Written(u)
  BY DEF Runner, hubVars, dispatchVars, rowVars, callVars, socketVars, TypeInv, TypeOK, AgentTypeOK, RowInv
<1>1. ASSUME NEW u \in Task, cache[u] # "none" => cache'[u] = cache[u] /\ chunks'[u] = chunks[u]
      PROVE  Written(u)'
  BY <1>0, <1>1, StillWritten
<1>2. ASSUME NEW u \in Task, InFlight(u)' => InFlight(u), link' = link, rconn' = rconn,
             job'[u] = "accepting" => job[u] = "accepting"
      PROVE  Opened(u)'
  BY <1>0, <1>2, StillOpened
<1>3. ASSUME NEW u \in Task, InFlight(u)' => InFlight(u), job'[u] = "none" PROVE Opened(u)'
  BY <1>0, <1>3, StillOpened
<1>4. ASSUME NEW u \in Task, toServer' = toServer, link' = link, rconn' = rconn,
             chunks'[u] = chunks[u], cache'[u] = cache[u], started'[u] = started[u],
             Registered(u)' => Registered(u), cache[u] # "none" /\ job[u] = "none" => job'[u] = "none"
      PROVE  Stream(u)'
  BY <1>0, <1>4, SameAt, SameStream
<1>5. ASSUME NEW u \in Task, toServer' = toServer, job'[u] = "none", UNCHANGED <<chunks, cache, started>>
      PROVE  Stream(u)'
  BY <1>0, <1>5, SameAt, SameStream DEF Registered
<1> HIDE DEF Row
<1>6. ASSUME NEW c \in Conn, Connect(c) PROVE \A u \in Task : Row(u)
  <2>1. UNCHANGED <<toRunner, toServer, job, chunks, cache, started>> /\ \A u \in Task : job'[u] = "none"
    BY <1>6 DEF Connect, JobConnected
  <2> QED BY <1>1, <1>3, <1>5, <2>1, SameFlight DEF Row
<1>7. ASSUME HandshakeDone PROVE \A u \in Task : Row(u)
  <2>1. rconn \in Conn /\ Read(HelloAck) /\ UNCHANGED <<link, toServer, rconn, job, chunks, cache, started>>
    BY <1>0, <1>7, ReadTypes DEF HandshakeDone
  <2>2. \A u \in Task : InFlight(u)' => InFlight(u) BY <1>0, <2>1, ReadFrames DEF ExecInv
  <2> QED BY <1>1, <1>2, <1>4, <2>1, <2>2 DEF Row, Registered
<1>8. ASSUME HandshakeRefused PROVE \A u \in Task : Row(u)
  <2>1. /\ rconn \in Conn /\ Drop(rconn) /\ UNCHANGED <<job, chunks, cache, started>>
        /\ \A u \in Task : job[u] = "none"
    BY <1>0, <1>8, LinkAssumption DEF HandshakeRefused, JobConnected
  <2>2. \A u \in Task : InFlight(u)' => InFlight(u)
    BY <1>0, <2>1 DEF Drop, InFlight, FrameAt, LinkTypeOK
  <2>3. \A u \in Task : Stream(u)' BY <1>0, <2>1, CutStream DEF Registered
  <2> QED BY <1>1, <1>3, <2>1, <2>2, <2>3 DEF Row
<1>9. ASSUME NEW t \in Task, TakeTask(t) PROVE \A u \in Task : Row(u)
  <2>1. rconn \in Conn /\ Read(TaskFrame(t)) BY <1>0, <1>9, ReadTypes DEF TakeTask
  <2>2. InFlight(t) /\ \A u \in Task : InFlight(u)' => InFlight(u)
    BY <1>0, <2>1, ReadFrames DEF ExecInv
  <2>3. started[t] = 0 /\ job[t] = "none" BY <2>2 DEF ExecInv, ExecState
  <2>4. cache[t] = "none" /\ ~Registered(t) BY <1>0, <2>3 DEF Stream, Mute, Registered
  <2>5. /\ PushToServer(rconn, Accepted(t)) /\ job' = [job EXCEPT ![t] = "accepting"]
        /\ UNCHANGED <<link, rconn, chunks, cache, started>>
    BY <1>9, <2>4 DEF TakeTask
  <2> TAKE u \in Task
  <2>6. \A n, s : Accepted(t) # Output(u, n) /\ Accepted(t) # Result(u, s) BY FrameKinds
  <2>7. /\ \A d \in Conn, i \in Nat, n \in Chunk : At(d, i, Output(u, n))' <=> At(d, i, Output(u, n))
        /\ \A d \in Conn, i \in Nat, s \in ResultStatus :
             At(d, i, Result(u, s))' <=> At(d, i, Result(u, s))
    BY <1>0, <2>1, <2>5, <2>6, OtherPut
  <2>8. /\ Registered(u)' => Registered(u) /\ rconn' = rconn /\ link'[rconn] = link[rconn]
        /\ cache[u] # "none" /\ job[u] = "none" => job'[u] = "none"
    BY <1>0, <2>4, <2>5 DEF Registered, AgentTypeOK
  <2>9. Stream(u)' BY <1>0, <2>5, <2>7, <2>8, SameStream
  <2>10. CASE u = t
    <3>1. buffers'[u] = {} BY <1>0, <2>2, <2>10 DEF Opened
    <3>2. Opened(u)' BY <3>1 DEF Opened
    <3> QED BY <1>1, <2>5, <2>9, <3>2 DEF Row
  <2>11. CASE u # t
    <3>1. job'[u] = job[u] BY <1>0, <2>5, <2>11 DEF AgentTypeOK
    <3> QED BY <1>1, <1>2, <2>2, <2>5, <2>9, <3>1 DEF Row
  <2> QED BY <2>10, <2>11
<1>10. ASSUME NEW t \in Task, StartJob(t) PROVE \A u \in Task : Row(u)
  <2>1. /\ UNCHANGED <<link, toRunner, toServer, rconn, cache>>
        /\ job[t] = "accepting" /\ job'[t] = "running"
        /\ \A u \in Task : u # t => /\ job'[u] = job[u] /\ chunks'[u] = chunks[u]
                                    /\ started'[u] = started[u]
    BY <1>0, <1>10 DEF StartJob, linkVars, AgentTypeOK
  <2> TAKE u \in Task
  <2>2. Opened(u)' BY <1>2, <2>1, SameFlight
  <2>3. CASE u = t
    <3>1. started[t] = 0 /\ cache[t] = "none" BY <1>0, <2>1 DEF ExecInv, ExecState, Stream, OneJob
    <3>2. Stream(t)' BY <1>0, <1>10, <3>1, StartStream
    <3> QED BY <1>1, <2>2, <2>3, <3>1, <3>2 DEF Row
  <2>4. CASE u # t
    <3>1. Stream(u)' BY <1>4, <2>1, <2>4 DEF Registered
    <3> QED BY <1>1, <2>1, <2>2, <2>4, <3>1 DEF Row
  <2> QED BY <2>3, <2>4
<1>11. ASSUME NEW t \in Task, EmitOutput(t) PROVE \A u \in Task : Row(u)
  <2>1. /\ UNCHANGED <<link, toRunner, rconn, job, cache, started>>
        /\ Registered(t) /\ PushToServer(rconn, Output(t, chunks[t]))
        /\ \A u \in Task : u # t => chunks'[u] = chunks[u]
    BY <1>0, <1>11 DEF EmitOutput, AgentTypeOK
  <2>2. rconn \in Conn BY <1>0, <2>1 DEF JobConnected, Registered
  <2> TAKE u \in Task
  <2>3. Opened(u)' BY <1>2, <2>1, SameFlight
  <2>4. CASE u = t
    <3>1. cache[t] = "none" BY <1>0, <2>1 DEF Stream, OneJob, Registered
    <3>2. Stream(t)' BY <1>0, <1>11, <2>2, EmitStream
    <3> QED BY <1>1, <2>3, <2>4, <3>1, <3>2 DEF Row
  <2>5. CASE u # t
    <3>1. \A n, s : Output(t, chunks[t]) # Output(u, n) /\ Output(t, chunks[t]) # Result(u, s)
      BY <2>5, FrameKinds
    <3>2. /\ \A d \in Conn, i \in Nat, n \in Chunk : At(d, i, Output(u, n))' <=> At(d, i, Output(u, n))
          /\ \A d \in Conn, i \in Nat, s \in ResultStatus :
               At(d, i, Result(u, s))' <=> At(d, i, Result(u, s))
      BY <1>0, <2>1, <2>2, <3>1, OtherPut
    <3>3. Stream(u)' BY <1>0, <2>1, <2>5, <3>2, SameStream DEF Registered
    <3> QED BY <1>1, <2>1, <2>3, <2>5, <3>3 DEF Row
  <2> QED BY <2>4, <2>5
<1>12. ASSUME NEW t \in Task, TakeCancel(t) PROVE \A u \in Task : Row(u)
  <2>1. /\ rconn \in Conn /\ Read(Cancel(t))
        /\ UNCHANGED <<link, toServer, rconn, chunks, cache, started>>
    BY <1>0, <1>12, ReadTypes DEF TakeCancel
  <2>2. \A u \in Task : InFlight(u)' => InFlight(u) BY <1>0, <2>1, ReadFrames DEF ExecInv
  <2>3. \A u \in Task : \/ job'[u] = job[u]
                        \/ Registered(u) /\ job'[u] = "stopping"
    BY <1>0, <1>12 DEF TakeCancel, AgentTypeOK
  <2>4. \A u \in Task : Stream(u)' BY <1>4, <2>1, <2>3 DEF Registered
  <2> QED BY <1>1, <1>2, <2>1, <2>2, <2>3, <2>4 DEF Row
<1>13. ASSUME NEW t \in Task, NEW s \in ResultStatus, FinishJob(t, s) PROVE \A u \in Task : Row(u)
  <2>1. /\ UNCHANGED <<link, toRunner, rconn, chunks, started>>
        /\ Registered(t) /\ PushToServer(rconn, Result(t, s)) /\ job'[t] = "none"
        /\ \A u \in Task : u # t => cache'[u] = cache[u] /\ job'[u] = job[u]
    BY <1>0, <1>13 DEF FinishJob, AgentTypeOK
  <2>2. rconn \in Conn BY <1>0, <2>1 DEF JobConnected, Registered
  <2> TAKE u \in Task
  <2>3. Opened(u)' BY <1>2, <2>1, SameFlight
  <2>4. CASE u = t
    <3>1. cache[t] = "none" BY <1>0, <2>1 DEF Stream, OneJob, Registered
    <3>2. Stream(t)' BY <1>0, <1>13, <2>2, FinishStream
    <3> QED BY <1>1, <2>3, <2>4, <3>1, <3>2 DEF Row
  <2>5. CASE u # t
    <3>1. \A n, r : Result(t, s) # Output(u, n) /\ Result(t, s) # Result(u, r)
      BY <2>5, FrameKinds
    <3>2. /\ \A d \in Conn, i \in Nat, n \in Chunk : At(d, i, Output(u, n))' <=> At(d, i, Output(u, n))
          /\ \A d \in Conn, i \in Nat, r \in ResultStatus :
               At(d, i, Result(u, r))' <=> At(d, i, Result(u, r))
      BY <1>0, <2>1, <2>2, <3>1, OtherPut
    <3>3. Stream(u)' BY <1>0, <2>1, <2>5, <3>2, SameStream DEF Registered
    <3> QED BY <1>1, <2>1, <2>3, <2>5, <3>3 DEF Row
  <2> QED BY <2>4, <2>5
<1>14. ASSUME LinkLost PROVE \A u \in Task : Row(u)
  <2>1. UNCHANGED <<toRunner, toServer, chunks, cache, started>> /\ \A u \in Task : job'[u] = "none"
    BY <1>14 DEF LinkLost, linkVars
  <2> QED BY <1>1, <1>3, <1>5, <2>1, SameFlight DEF Row
<1>15. \A u \in Task : Row(u)
  BY <1>6, <1>7, <1>8, <1>9, <1>10, <1>11, <1>12, <1>13, <1>14 DEF Runner, AgentNext
<1> QED BY <1>15 DEF Row, RowInv

LEMMA NextRows ==
  ASSUME TypeInv, JobConnected, ExecInv, RowInv, [Next]_vars
  PROVE  RowInv'
<1>0. /\ LinkTypeOK /\ DispatchTypeOK /\ \A u \in Task : Stream(u) /\ Opened(u) /\ Written(u)
  BY DEF TypeInv, TypeOK, RowInv
<1>1. CASE Dispatcher BY <1>1, DispatcherRows
<1>2. CASE Handler BY <1>2, HandlerRows
<1>3. CASE Runner BY <1>3, RunnerRows
<1>4. CASE Break
  <2>1. PICK c \in Conn : Drop(c) BY <1>4 DEF Break
  <2>2. UNCHANGED <<buffers, dpc, status, stored, hpc, frame, text, rconn, job, chunks, cache, started>>
    BY <1>4 DEF Break, hubVars, dispatchVars, rowVars, callVars, socketVars, agentVars
  <2>3. \A u \in Task : Stream(u)' BY <1>0, <2>1, <2>2, CutStream
  <2>4. \A u \in Task : InFlight(u)' => InFlight(u)
    BY <1>0, <2>1 DEF Drop, InFlight, FrameAt, LinkTypeOK
  <2>5. \A d \in Conn : link'[d] = "up" => link[d] = "up" BY <1>0, <2>1 DEF Drop, LinkTypeOK
  <2>6. \A u \in Task : Opened(u)' BY <1>0, <2>2, <2>4, <2>5, StillOpened
  <2>7. \A u \in Task : Written(u)' BY <1>0, <2>2, StillWritten
  <2> QED BY <2>3, <2>6, <2>7 DEF RowInv
<1>5. CASE ServerRestart
  <2>1. /\ DropAll /\ UNCHANGED agentVars /\ stored' = stored
        /\ \A u \in Task : /\ buffers'[u] = None /\ dpc'[u] # "sending"
                           /\ status'[u] = IF status[u] \in ActiveStatus THEN "lost" ELSE status[u]
        /\ \A d \in Conn : hpc'[d] = IF link[d] = "new" THEN hpc[d] ELSE "dead"
        /\ \A d \in Conn : frame'[d] = None
    BY <1>5 DEF ServerRestart, Restart
  <2>2. \A u \in Task : Stream(u)' BY <1>0, <2>1, RestartStream
  <2>3. \A u \in Task : Opened(u)'
    <3>1. \A u \in Task : ~InFlight(u)' BY <2>1 DEF DropAll, InFlight, FrameAt
    <3>2. \A d \in Conn : link'[d] # "up" BY <2>1 DEF DropAll
    <3> QED BY <2>1, <3>1, <3>2 DEF Opened
  <2>4. \A d \in Conn : hpc'[d] # "storing" BY <2>1 DEF TypeInv, HandledFrame
  <2>5. \A u \in Task : Written(u)'
    <3>1. \A u \in Task : status'[u] \in ResultStatus => status'[u] = status[u] BY <2>1 DEF ResultStatus
    <3> QED BY <1>0, <2>1, <2>4, <3>1, StillWritten DEF agentVars
  <2> QED BY <2>2, <2>3, <2>5 DEF RowInv
<1>6. CASE UNCHANGED vars
  <2>1. UNCHANGED <<link, toRunner, toServer, buffers, dpc, status, stored, hpc, frame, text, rconn, job,
                    chunks, cache, started>>
    BY <1>6 DEF vars, linkVars, hubVars, dispatchVars, rowVars, callVars, socketVars, agentVars
  <2>2. \A u \in Task : Stream(u)' BY <1>0, <2>1, SameAt, SameStream DEF Registered
  <2>3. \A u \in Task : Opened(u)' BY <1>0, <2>1, SameFlight, StillOpened
  <2>4. \A u \in Task : Written(u)' BY <1>0, <2>1, StillWritten
  <2> QED BY <2>2, <2>3, <2>4 DEF RowInv
<1> QED BY <1>1, <1>2, <1>3, <1>4, <1>5, <1>6 DEF Next

(* A status a Runner reported is that of the one execution of the task,    *)
(* and the row then holds all the output of that execution: the handler    *)
(* reads a connection in order, the buffer is open before the task goes    *)
(* out and closes on the result, and a row takes a result only while it is *)
(* active (services.py, registry.py, ws.py).                               *)
THEOREM RowsAreExecutions == Spec => []RowIsTheExecution
<1>1. TypeInv /\ JobConnected /\ ExecInv /\ RowInv /\ [Next]_vars => RowInv'
  BY NextRows
<1>2. TypeInv /\ JobConnected /\ ExecInv /\ [Next]_vars => ExecInv'
  BY NextExec
<1>3. TypeInv /\ ExecInv /\ RowInv => RowIsTheExecution
  <2> SUFFICES ASSUME TypeInv, ExecInv, RowInv, NEW t \in Task, status[t] \in ResultStatus
               PROVE  started[t] = 1 /\ cache[t] = status[t] /\ stored[t] = {n \in Chunk : n < chunks[t]}
    BY DEF RowIsTheExecution
  <2>1. Stream(t) /\ Written(t) BY DEF RowInv
  <2>2. cache[t] = status[t] /\ cache[t] # "none" BY <2>1 DEF Written, ResultStatus
  <2>3. started[t] # 0 BY <2>1, <2>2 DEF Stream, Mute
  <2>4. started[t] \in Nat /\ started[t] <= 1 BY DEF TypeInv, TypeOK, AgentTypeOK, ExecInv, ExecState
  <2>5. started[t] = 1 BY <2>3, <2>4
  <2> QED BY <2>1, <2>2, <2>5 DEF Written, Sent
<1> QED BY <1>1, <1>2, <1>3, InitRows, InitExec, TypesHold, PTL DEF Spec
=============================================================================
