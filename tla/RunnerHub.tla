------------------------------ MODULE RunnerHub ------------------------------
(***************************************************************************)
(* server/app/registry.py: RunnerHub, the memory the coroutines of one     *)
(* server process share: which connection serves the machine, the output   *)
(* buffers of tasks in flight, and the futures Agent Loops wait on.  The   *)
(* server runs one event loop, so each operator below is one step; attach  *)
(* awaits in the middle and is a pair of operators.                        *)
(*                                                                         *)
(* All of this state is keyed by machine id, and so are the rows           *)
(* RunnerSocket touches: one machine is modelled.                          *)
(***************************************************************************)
EXTENDS RunnerLink

VARIABLES
  hubConn,   \* conns[machine_id]: the connection in the registry, or None
  buffers,   \* buffers[t]: the chunk numbers an open OutputBuffer holds, or None
  waiters    \* task_waiters: the tasks with an unresolved future

hubVars == <<hubConn, buffers, waiters>>

Buffer == {None} \cup SUBSET Chunk

HubInit ==
  /\ hubConn = None
  /\ buffers = [t \in Task |-> None]
  /\ waiters = {}

IsOnline == hubConn # None

(* attach: the old connection leaves the registry before its close is      *)
(* awaited.  With no old connection nothing is awaited.                    *)
AttachBegin(c) ==
  IF hubConn = None
  THEN hubConn' = c /\ UNCHANGED shut
  ELSE hubConn' = None /\ shut' = [shut EXCEPT ![hubConn] = TRUE]

(* ... and the new one enters it after the await, whatever is there then.  *)
AttachEnd(c) == hubConn' = c

(* detach: only if the registry still holds this very connection.          *)
Detach(c) == hubConn' = IF hubConn = c THEN None ELSE hubConn

OpenBuffer(t) == buffers' = [buffers EXCEPT ![t] = {}]

CloseBuffer(t) == buffers' = [buffers EXCEPT ![t] = None]

(* Mutant: a buffer that starts its sequence after the first chunk.        *)
BufferAddFromOne(t, n) ==
  buffers' = IF buffers[t] # None /\ n > 0 /\ \A k \in buffers[t] : k < n
             THEN [buffers EXCEPT ![t] = @ \cup {n}]
             ELSE buffers

(* OutputBuffer.add below its cap: only a chunk newer than every earlier   *)
(* one is kept; a closed buffer takes nothing.                             *)
BufferAdd(t, n) ==
  buffers' = IF buffers[t] # None /\ \A k \in buffers[t] : k < n
             THEN [buffers EXCEPT ![t] = @ \cup {n}]
             ELSE buffers

(* What close_buffer hands over: an empty OutputBuffer if none was open.   *)
Held(t) == IF buffers[t] = None THEN {} ELSE buffers[t]

Expect(t) == waiters' = waiters \cup {t}

(* resolve: wakes the waiter if there is one.                              *)
Resolve(ts) == waiters' = waiters \ ts

HubTypeOK ==
  /\ hubConn \in Conn \cup {None}
  /\ buffers \in [Task -> Buffer]
  /\ waiters \subseteq Task
=============================================================================
