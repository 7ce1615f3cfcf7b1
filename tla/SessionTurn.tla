----------------------------- MODULE SessionTurn -----------------------------
(***************************************************************************)
(* One session's turns: run_session_turn of server/app/services.py with    *)
(* the Agent Loop it drives (run_agent_turn of agent.py) and the executor  *)
(* of its tools (_make_executor).  A turn is cut where it awaits the       *)
(* database, the model or a tool.  Nothing keeps two POSTs to the same     *)
(* session apart, and the process may die between any two steps.           *)
(*                                                                         *)
(* The text of messages is left out, and so are the ModelUsage row and the *)
(* choice of the model.  What a tool does is TaskPlatform.                 *)
(***************************************************************************)
EXTENDS EventBus, FiniteSets

CONSTANTS
  Turn,         \* POST /api/sessions/{id}/messages requests, one turn each
  MaxSteps,     \* model calls in one turn: 8 in the code
  MaxCalls,     \* bound: tool calls in one turn
  MaxOutputs,   \* bound: tool_output events of one tool call
  MaxRestarts   \* bound: restarts of the server process

ASSUME TurnAssumption == /\ MaxSteps \in Nat \ {0}
                         /\ MaxCalls \in Nat
                         /\ MaxOutputs \in Nat
                         /\ MaxRestarts \in Nat

VARIABLES
  rows,      \* the Message rows of the session
  audits,    \* the ToolCall rows, as <<turn, call>>
  tpc,       \* tpc[r]: where the turn is
  last,      \* last[r]: next_seq, then seq_counter["v"]
  context,   \* context[r]: the history it read, sent to the model before its own rows
  steps,     \* steps[r]: model calls it has made
  todo,      \* todo[r]: tool calls of the last reply not yet answered
  outcome,   \* outcome[r]: status of the tool result at hand
  outputs,   \* outputs[r]: tool_output events of the running tool so far
  parsed,    \* parsed[r]: args of run_agent_turn is bound: some call's arguments were JSON
  ran,       \* the tools that were started, as <<turn, call>> (history)
  tangled,   \* two turns overlapped, or one was killed at work (history)
  restarts

turnVars == <<rows, audits, tpc, last, context, steps, todo, outcome, outputs, parsed, ran,
              tangled, restarts>>

(* How a tool call fares: its arguments are no JSON ("garbled") or no      *)
(* object, the machine has no such tool or the connector is not the user's *)
(* ("refused"); its risk rule or its connector asks for an approval; or it *)
(* runs.                                                                   *)
CallKind == {"garbled", "refused", "approval", "run"}

(* begun: next_seq read; stored: user row committed; preparing: history    *)
(* read; asking: in gateway.chat; replied: assistant row being stored;     *)
(* approving: approval row being stored; running: waiting for the tool;    *)
(* result: tool row being stored; auditing: ToolCall row being stored;     *)
(* finishing: usage row being stored; done: answered 200; failed: 5xx;     *)
(* crashed: 500 amid the tool calls of a reply; killed: never answered.    *)
TurnPC == {"idle", "begun", "stored", "preparing", "asking", "replied", "approving",
           "running", "result", "auditing", "finishing", "done", "failed", "crashed", "killed"}
Over == {"done", "failed", "crashed", "killed"}
Live(r) == tpc[r] \notin Over \cup {"idle"}

(* The turn may still write messages.                                      *)
Writing(r) == Live(r) /\ tpc[r] # "finishing"

MessageRow == [turn : Turn, seq : Nat, role : {"user", "assistant", "tool"}, calls : Nat]

RowsOf(r) == {m \in rows : m.turn = r}

UserRow(r) == [turn |-> r, seq |-> last[r], role |-> "user", calls |-> 0]
AssistantRow(r) == [turn |-> r, seq |-> last[r], role |-> "assistant", calls |-> Len(todo[r])]
ToolRow(r) == [turn |-> r, seq |-> last[r], role |-> "tool", calls |-> 0]

TurnInit ==
  /\ rows = {}
  /\ audits = {}
  /\ tpc = [r \in Turn |-> "idle"]
  /\ last = [r \in Turn |-> 0]
  /\ context = [r \in Turn |-> {}]
  /\ steps = [r \in Turn |-> 0]
  /\ todo = [r \in Turn |-> <<>>]
  /\ outcome = [r \in Turn |-> "none"]
  /\ outputs = [r \in Turn |-> 0]
  /\ parsed = [r \in Turn |-> FALSE]
  /\ ran = {}
  /\ tangled = FALSE
  /\ restarts = 0

Goto(r, l) == tpc' = [tpc EXCEPT ![r] = l]

Quiet == UNCHANGED busVars

(* The coroutine returns or raises: its locals are gone.                   *)
End(r, l) ==
  /\ Goto(r, l)
  /\ last' = [last EXCEPT ![r] = 0]
  /\ context' = [context EXCEPT ![r] = {}]
  /\ steps' = [steps EXCEPT ![r] = 0]
  /\ todo' = [todo EXCEPT ![r] = <<>>]
  /\ outcome' = [outcome EXCEPT ![r] = "none"]
  /\ outputs' = [outputs EXCEPT ![r] = 0]
  /\ parsed' = [parsed EXCEPT ![r] = FALSE]

----------------------------------------------------------------------------
(* The user's message, from the SELECT of the highest seq to turn_started. *)

(* coalesce(max(Message.seq), 0): one number, as every seq is positive.    *)
Highest == {n \in {0} \cup {m.seq : m \in rows} : \A m \in rows : m.seq <= n}

(* Mutant: the highest seq is taken for the next one.                      *)
BeginAtMax(r) ==
  /\ tpc[r] = "idle"
  /\ \E n \in Highest : last' = [last EXCEPT ![r] = n]
  /\ tangled' = (tangled \/ \E q \in Turn : Writing(q))
  /\ Goto(r, "begun")
  /\ Quiet
  /\ UNCHANGED <<rows, audits, context, steps, todo, outcome, outputs, parsed, ran, restarts>>

Begin(r) ==
  /\ tpc[r] = "idle"
  /\ \E n \in Highest : last' = [last EXCEPT ![r] = n + 1]
  /\ tangled' = (tangled \/ \E q \in Turn : Writing(q))
  /\ Goto(r, "begun")
  /\ Quiet
  /\ UNCHANGED <<rows, audits, context, steps, todo, outcome, outputs, parsed, ran, restarts>>

StoreUser(r) ==
  /\ tpc[r] = "begun"
  /\ rows' = rows \cup {UserRow(r)}
  /\ Goto(r, "stored")
  /\ Quiet
  /\ UNCHANGED <<audits, last, context, steps, todo, outcome, outputs, parsed, ran, tangled, restarts>>

ReadHistory(r) ==
  /\ tpc[r] = "stored"
  /\ context' = [context EXCEPT ![r] = rows]
  /\ Goto(r, "preparing")
  /\ Quiet
  /\ UNCHANGED <<rows, audits, last, steps, todo, outcome, outputs, parsed, ran, tangled, restarts>>

(* Backend and skills are looked up, then the loop begins ...              *)
StartLoop(r) ==
  /\ tpc[r] = "preparing"
  /\ steps' = [steps EXCEPT ![r] = 1]
  /\ Publish(<<Ev("turn_started")>>)
  /\ Goto(r, "asking")
  /\ UNCHANGED <<rows, audits, last, context, todo, outcome, outputs, parsed, ran, tangled, restarts>>

(* ... or no backend is configured: 503 and no event.                      *)
NoBackend(r) ==
  /\ tpc[r] = "preparing"
  /\ End(r, "failed")
  /\ Quiet
  /\ UNCHANGED <<rows, audits, ran, tangled, restarts>>

----------------------------------------------------------------------------
(* The Agent Loop.                                                         *)

Reply(r, kinds) ==
  /\ tpc[r] = "asking"
  /\ Cardinality({m \in RowsOf(r) : m.role = "tool"}) + Len(kinds) <= MaxCalls
  /\ todo' = [todo EXCEPT ![r] = kinds]
  /\ last' = [last EXCEPT ![r] = @ + 1]
  /\ Goto(r, "replied")
  /\ Quiet
  /\ UNCHANGED <<rows, audits, context, steps, outcome, outputs, parsed, ran, tangled, restarts>>

ModelFails(r) ==
  /\ tpc[r] = "asking"
  /\ Publish(<<Ev("turn_error")>>)
  /\ End(r, "failed")
  /\ UNCHANGED <<rows, audits, ran, tangled, restarts>>

(* A completion without choices raises ValueError, which nothing catches:  *)
(* 500 and no event.                                                       *)
Malformed(r) ==
  /\ tpc[r] = "asking"
  /\ End(r, "failed")
  /\ Quiet
  /\ UNCHANGED <<rows, audits, ran, tangled, restarts>>

(* On to a tool call of the given kind, after the events evs.  A refusal   *)
(* is a result at once, an approval is stored first.                       *)
Enter(r, kind, evs) ==
  /\ Goto(r, CASE kind = "run" -> "running" [] kind = "approval" -> "approving"
               [] kind \in {"garbled", "refused"} -> "result")
  /\ IF kind = "run"
     THEN /\ ran' = ran \cup {<<r, last[r] + 1>>}
          /\ Publish(Append(evs, CallEv("tool_call", last[r] + 1)))
     ELSE UNCHANGED ran /\ Publish(evs)
  /\ IF kind \in {"garbled", "refused"}
     THEN last' = [last EXCEPT ![r] = @ + 1] /\ outcome' = [outcome EXCEPT ![r] = "failed"]
     ELSE UNCHANGED last /\ outcome' = [outcome EXCEPT ![r] = "none"]
  /\ UNCHANGED outputs
  /\ parsed' = IF kind = "garbled" THEN parsed ELSE [parsed EXCEPT ![r] = TRUE]

(* Mutant: the assistant row is stored once its tools have run.            *)
StoreAssistantLast(r) ==
  /\ tpc[r] = "replied"
  /\ IF todo[r] = <<>>
     THEN /\ rows' = rows \cup {AssistantRow(r)}
          /\ Publish(<<Ev("assistant"), Ev("turn_done")>>)
          /\ Goto(r, "finishing")
          /\ UNCHANGED <<last, outcome, outputs, parsed, ran>>
     ELSE Enter(r, Head(todo[r]), <<Ev("assistant")>>) /\ UNCHANGED rows
  /\ UNCHANGED <<audits, context, steps, todo, tangled, restarts>>

(* The assistant row is committed, its event follows without an await, and *)
(* so does the end of the turn or the first tool call.                     *)
StoreAssistant(r) ==
  /\ tpc[r] = "replied"
  /\ rows' = rows \cup {AssistantRow(r)}
  /\ IF todo[r] = <<>>
     THEN /\ Publish(<<Ev("assistant"), Ev("turn_done")>>)
          /\ Goto(r, "finishing")
          /\ UNCHANGED <<last, outcome, outputs, parsed, ran>>
     ELSE Enter(r, Head(todo[r]), <<Ev("assistant")>>)
  /\ UNCHANGED <<audits, context, steps, todo, tangled, restarts>>

StoreApproval(r) ==
  /\ tpc[r] = "approving"
  /\ Publish(<<Ev("approval_required")>>)
  /\ outcome' = [outcome EXCEPT ![r] = "completed"]
  /\ last' = [last EXCEPT ![r] = @ + 1]
  /\ Goto(r, "result")
  /\ UNCHANGED <<rows, audits, context, steps, todo, outputs, parsed, ran, tangled, restarts>>

(* Mutant: the task stays in task_sessions when its call has returned.     *)
ToolOutputLate(r) ==
  /\ Live(r)
  /\ outputs[r] < MaxOutputs
  /\ outputs' = [outputs EXCEPT ![r] = @ + 1]
  /\ \E x \in ran : x[1] = r /\ Publish(<<CallEv("tool_output", x[2])>>)
  /\ UNCHANGED <<rows, audits, tpc, last, context, steps, todo, outcome, parsed, ran, tangled,
                 restarts>>

(* The handler of the Runner's socket publishes the output of a tool while *)
(* its call waits.                                                         *)
ToolOutput(r) ==
  /\ tpc[r] = "running"
  /\ outputs[r] < MaxOutputs
  /\ outputs' = [outputs EXCEPT ![r] = @ + 1]
  /\ Publish(<<CallEv("tool_output", last[r] + 1)>>)
  /\ UNCHANGED <<rows, audits, tpc, last, context, steps, todo, outcome, parsed, ran, tangled, restarts>>

ToolReturns(r) ==
  /\ tpc[r] = "running"
  /\ \E s \in {"completed", "failed"} : outcome' = [outcome EXCEPT ![r] = s]
  /\ last' = [last EXCEPT ![r] = @ + 1]
  /\ outputs' = [outputs EXCEPT ![r] = 0]
  /\ Goto(r, "result")
  /\ Quiet
  /\ UNCHANGED <<rows, audits, context, steps, todo, parsed, ran, tangled, restarts>>

(* Mutant: a failed tool call leaves no message behind.                    *)
StoreToolCompleted(r) ==
  /\ tpc[r] = "result"
  /\ parsed[r]
  /\ rows' = IF outcome[r] = "completed" THEN rows \cup {ToolRow(r)} ELSE rows
  /\ Publish(<<ResultEv(last[r], outcome[r])>>)
  /\ Goto(r, "auditing")
  /\ UNCHANGED <<audits, last, context, steps, todo, outcome, outputs, parsed, ran, tangled, restarts>>

StoreTool(r) ==
  /\ tpc[r] = "result"
  /\ parsed[r]
  /\ rows' = rows \cup {ToolRow(r)}
  /\ Publish(<<ResultEv(last[r], outcome[r])>>)
  /\ Goto(r, "auditing")
  /\ UNCHANGED <<audits, last, context, steps, todo, outcome, outputs, parsed, ran, tangled, restarts>>

(* on_tool_call is given args, which no call of this turn has bound yet:   *)
(* UnboundLocalError, 500 and no event.  With a call before that did parse *)
(* it is given that call's arguments (StoreTool).                          *)
ArgsUnbound(r) ==
  /\ tpc[r] = "result"
  /\ ~parsed[r]
  /\ rows' = rows \cup {ToolRow(r)}
  /\ End(r, "crashed")
  /\ Quiet
  /\ UNCHANGED <<audits, ran, tangled, restarts>>

(* Mutant: one step more than MAX_STEPS.                                   *)
AdvanceOneMore(r) ==
  /\ todo' = [todo EXCEPT ![r] = Tail(@)]
  /\ IF Len(todo[r]) > 1
     THEN Enter(r, todo[r][2], <<>>) /\ UNCHANGED steps
     ELSE /\ outcome' = [outcome EXCEPT ![r] = "none"]
          /\ UNCHANGED <<last, outputs, parsed, ran>>
          /\ IF steps[r] <= MaxSteps
             THEN Goto(r, "asking") /\ steps' = [steps EXCEPT ![r] = @ + 1] /\ Quiet
             ELSE Goto(r, "finishing") /\ UNCHANGED steps /\ Publish(<<Ev("turn_done")>>)
  /\ UNCHANGED <<rows, context, tangled, restarts>>

(* What follows the audit of a call: the next call of the reply, the next  *)
(* question to the model, or the end when the steps are used up.           *)
Advance(r) ==
  /\ todo' = [todo EXCEPT ![r] = Tail(@)]
  /\ IF Len(todo[r]) > 1
     THEN Enter(r, todo[r][2], <<>>) /\ UNCHANGED steps
     ELSE /\ outcome' = [outcome EXCEPT ![r] = "none"]
          /\ UNCHANGED <<last, outputs, parsed, ran>>
          /\ IF steps[r] < MaxSteps
             THEN Goto(r, "asking") /\ steps' = [steps EXCEPT ![r] = @ + 1] /\ Quiet
             ELSE Goto(r, "finishing") /\ UNCHANGED steps /\ Publish(<<Ev("turn_done")>>)
  /\ UNCHANGED <<rows, context, tangled, restarts>>

(* Mutant: the last step of a turn ends it before its audit is stored.     *)
StoreAuditNotLast(r) ==
  /\ tpc[r] = "auditing"
  /\ audits' = IF steps[r] < MaxSteps THEN audits \cup {<<r, last[r]>>} ELSE audits
  /\ Advance(r)

StoreAudit(r) ==
  /\ tpc[r] = "auditing"
  /\ audits' = audits \cup {<<r, last[r]>>}
  /\ Advance(r)

Finish(r) ==
  /\ tpc[r] = "finishing"
  /\ End(r, "done")
  /\ Quiet
  /\ UNCHANGED <<rows, audits, ran, tangled, restarts>>

(* The process dies and starts again; the rows stay.                       *)
ServerRestart ==
  /\ restarts < MaxRestarts
  /\ restarts' = restarts + 1
  /\ BusRestart
  /\ tpc' = [r \in Turn |-> IF Live(r) THEN "killed" ELSE tpc[r]]
  /\ tangled' = (tangled \/ \E r \in Turn : Writing(r))
  /\ last' = [r \in Turn |-> 0]
  /\ context' = [r \in Turn |-> {}]
  /\ steps' = [r \in Turn |-> 0]
  /\ todo' = [r \in Turn |-> <<>>]
  /\ outcome' = [r \in Turn |-> "none"]
  /\ outputs' = [r \in Turn |-> 0]
  /\ parsed' = [r \in Turn |-> FALSE]
  /\ UNCHANGED <<rows, audits, ran>>

(* A turn's own steps once it has begun.                                   *)
TurnStep(r) ==
  \/ StoreUser(r) \/ ReadHistory(r) \/ StartLoop(r) \/ NoBackend(r)
  \/ \E n \in 0 .. MaxCalls : \E kinds \in [1 .. n -> CallKind] : Reply(r, kinds)
  \/ ModelFails(r) \/ Malformed(r)
  \/ StoreAssistant(r) \/ StoreApproval(r) \/ ToolReturns(r)
  \/ StoreTool(r) \/ ArgsUnbound(r) \/ StoreAudit(r) \/ Finish(r)

TurnNext ==
  \/ \E r \in Turn : Begin(r) \/ TurnStep(r) \/ ToolOutput(r)
  \/ ServerRestart

TurnSpecInit == BusInit /\ TurnInit

TurnSpec == TurnSpecInit /\ [][TurnNext]_<<busVars, turnVars>>

----------------------------------------------------------------------------
TurnTypeOK ==
  /\ rows \subseteq MessageRow
  /\ audits \subseteq Turn \X Nat
  /\ tpc \in [Turn -> TurnPC]
  /\ last \in [Turn -> Nat]
  /\ context \in [Turn -> SUBSET rows]
  /\ steps \in [Turn -> 0 .. MaxSteps]
  /\ todo \in [Turn -> Seq(CallKind)]
  /\ outcome \in [Turn -> Outcome]
  /\ outputs \in [Turn -> Nat]
  /\ parsed \in [Turn -> BOOLEAN]
  /\ ran \subseteq Turn \X Nat
  /\ tangled \in BOOLEAN
  /\ restarts \in Nat

(* What a chat-completions API asks of a history: each tool call of an     *)
(* assistant message is answered, by tool messages right behind it.        *)
WellFormed(S) ==
  \A m \in S : m.role = "assistant" =>
    \A i \in 1 .. m.calls :
      \E t \in S : t.role = "tool" /\ t.turn = m.turn /\ t.seq = m.seq + i

(* A turn's own messages are a well-formed history whenever it asks the    *)
(* model again, whatever failed and whoever else writes to the session.    *)
OwnRowsWellFormed == \A r \in Turn : tpc[r] = "asking" => WellFormed(RowsOf(r))

(* While turns take turns and none is killed or crashes amid its calls,    *)
(* seq orders the session and every history sent to the model is           *)
(* well-formed: no other error path of an earlier turn (model down,        *)
(* malformed reply, failing tool, step limit) leaves a call unanswered.    *)
SequentialHistory ==
  ~tangled /\ (\A r \in Turn : tpc[r] # "crashed") =>
    /\ \A m, n \in rows : m.seq = n.seq => m = n
    /\ \A r \in Turn : tpc[r] = "asking" => WellFormed(context[r] \cup RowsOf(r))

(* A tool never runs before the message that asks for it is stored: after  *)
(* a crash the session shows what may have been done.                      *)
IntentIsStored ==
  \A x \in ran : \E m \in rows :
    m.turn = x[1] /\ m.role = "assistant" /\ m.seq < x[2] /\ x[2] <= m.seq + m.calls

(* A tool that ran has its ToolCall row by the time the turn goes on to    *)
(* anything else; only a crash can lose it.                                *)
RunsAreAudited ==
  \A x \in ran :
    \/ x \in audits
    \/ tpc[x[1]] = "running" /\ x[2] = last[x[1]] + 1
    \/ tpc[x[1]] \in {"result", "auditing"} /\ x[2] = last[x[1]]
    \/ tpc[x[1]] = "killed"
=============================================================================
