----------------------------- MODULE RunnerAgent -----------------------------
(***************************************************************************)
(* runner/agent_runner/client.py: the Runner process of the machine, which *)
(* connects, executes the tasks it is sent and reports them.  It holds one *)
(* connection at a time and cancels its jobs when that connection ends.    *)
(*                                                                         *)
(* One job per task is modelled.  A second frame for a task that is being  *)
(* accepted would start a second job in the code (the check and the        *)
(* registration are on the two sides of an await); no execution of         *)
(* TaskPlatform sends a task twice: one coroutine sends it, once.          *)
(***************************************************************************)
EXTENDS RunnerLink

VARIABLES
  rpc,      \* "off": between connections; "handshake": hello sent; "serving"
  rconn,    \* the connection of _connect_once, or None
  job,      \* job[t]: "none"; "accepting": in the send of task_accepted;
            \* "running": registered in cancel_events; "stopping": its event set
  chunks,   \* chunks[t]: seqs of the job, the task_output frames sent so far
  cache,    \* results_cache[t]: the status of the finished task, or "none"
  started   \* started[t]: how often the tool was started for t (history)

agentVars == <<rpc, rconn, job, chunks, cache, started>>

JobState == {"none", "accepting", "running", "stopping"}
Registered(t) == job[t] \in {"running", "stopping"}

AgentInit ==
  /\ rpc = "off"
  /\ rconn = None
  /\ job = [t \in Task |-> "none"]
  /\ chunks = [t \in Task |-> 0]
  /\ cache = [t \in Task |-> "none"]
  /\ started = [t \in Task |-> 0]

(* main: the next attempt after a backoff; the hello frame goes out with   *)
(* the connection.                                                         *)
Connect(c) ==
  /\ rpc = "off"
  /\ link[c] = "new"
  /\ link' = [link EXCEPT ![c] = "up"]
  /\ rpc' = "handshake"
  /\ rconn' = c
  /\ UNCHANGED <<shut, toRunner, toServer, job, chunks, cache, started>>

Read(f) ==
  /\ rconn # None
  /\ toRunner[rconn] # <<>>
  /\ f = Head(toRunner[rconn])
  /\ toRunner' = [toRunner EXCEPT ![rconn] = Tail(@)]

HandshakeDone ==
  /\ rpc = "handshake"
  /\ Read(HelloAck)
  /\ rpc' = "serving"
  /\ UNCHANGED <<link, shut, toServer, rconn, job, chunks, cache, started>>

(* Any other first frame raises RuntimeError: the connection is closed.    *)
HandshakeRefused ==
  /\ rpc = "handshake"
  /\ toRunner[rconn] # <<>>
  /\ Head(toRunner[rconn]) # HelloAck
  /\ Drop(rconn)
  /\ rpc' = "off"
  /\ rconn' = None
  /\ UNCHANGED <<job, chunks, cache, started>>

(* A task frame: the cached result again, nothing while it is registered,  *)
(* else task_accepted is sent and the job waits for that send.             *)
TakeTask(t) ==
  /\ rpc = "serving"
  /\ Read(TaskFrame(t))
  /\ \/ /\ cache[t] # "none"
        /\ PushToServer(rconn, Result(t, cache[t]))
        /\ UNCHANGED job
     \/ /\ cache[t] = "none"
        /\ Registered(t)
        /\ UNCHANGED <<toServer, job>>
     \/ /\ cache[t] = "none"
        /\ ~Registered(t)
        /\ PushToServer(rconn, Accepted(t))
        /\ job' = [job EXCEPT ![t] = "accepting"]
  /\ UNCHANGED <<link, shut, rpc, rconn, chunks, cache, started>>

(* The send returned: the cancel event is registered and the tool starts.  *)
StartJob(t) ==
  /\ job[t] = "accepting"
  /\ job' = [job EXCEPT ![t] = "running"]
  /\ chunks' = [chunks EXCEPT ![t] = 0]
  /\ started' = [started EXCEPT ![t] = @ + 1]
  /\ UNCHANGED <<linkVars, rpc, rconn, cache>>

EmitOutput(t) ==
  /\ Registered(t)
  /\ chunks[t] < MaxChunks
  /\ Len(toServer[rconn]) < MaxInFlight
  /\ PushToServer(rconn, Output(t, chunks[t]))
  /\ chunks' = [chunks EXCEPT ![t] = @ + 1]
  /\ UNCHANGED <<link, shut, toRunner, rpc, rconn, job, cache, started>>

(* task_cancel sets the event of a registered job and is lost on any other.*)
TakeCancel(t) ==
  /\ rpc = "serving"
  /\ Read(Cancel(t))
  /\ job' = IF Registered(t) THEN [job EXCEPT ![t] = "stopping"] ELSE job
  /\ UNCHANGED <<link, shut, toServer, rpc, rconn, chunks, cache, started>>

(* The tool ends, with "cancelled" only if its event was set; the result   *)
(* is cached and then sent.                                                *)
FinishJob(t, s) ==
  /\ Registered(t)
  /\ s = "cancelled" => job[t] = "stopping"
  /\ job' = [job EXCEPT ![t] = "none"]
  /\ cache' = [cache EXCEPT ![t] = s]
  /\ PushToServer(rconn, Result(t, s))
  /\ UNCHANGED <<link, shut, toRunner, rpc, rconn, chunks, started>>

(* The receive loop ends: every job is cancelled and reports nothing.      *)
LinkLost ==
  /\ rconn # None
  /\ link[rconn] = "down"
  /\ rpc' = "off"
  /\ rconn' = None
  /\ job' = [t \in Task |-> "none"]
  /\ UNCHANGED <<linkVars, chunks, cache, started>>

AgentNext ==
  \/ \E c \in Conn : Connect(c)
  \/ HandshakeDone
  \/ HandshakeRefused
  \/ \E t \in Task : TakeTask(t) \/ StartJob(t) \/ EmitOutput(t) \/ TakeCancel(t)
  \/ \E t \in Task, s \in ResultStatus : FinishJob(t, s)
  \/ LinkLost

AgentTypeOK ==
  /\ rpc \in {"off", "handshake", "serving"}
  /\ rconn \in Conn \cup {None}
  /\ job \in [Task -> JobState]
  /\ chunks \in [Task -> Chunk]
  /\ cache \in [Task -> ResultStatus \cup {"none"}]
  /\ started \in [Task -> Nat]
=============================================================================
