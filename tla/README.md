# A TLA+ model of the department agent platform

The platform lets a department's members give tasks to an AI agent that works on
machines through a small program, the *Runner*.  A FastAPI server keeps users,
machines, tasks, approvals, sessions and models; a Runner on each machine keeps
one WebSocket to the server and executes tool calls; a web console (also packed
as a desktop shell) and a CLI are its clients.  This directory holds the formal
model of the parts that are hard to get right and hard to test: coroutines that
interleave at every `await`, connections that break and overlap, processes that
die between two commits, queues that overflow.

Line numbers below are those of the files under `src/` (`server/app/...` stands
for `src/server/app/...`).

## 1. Inventory

| Component | State it keeps | Operations | Talks to |
|---|---|---|---|
| Task dispatch (`services.py` 37-127, `routes.py` 457-482, 633-645) | `Task` rows (status, stdout, stderr), `app.state.task_sessions` | `dispatch_and_wait`, `dispatch_no_wait`, cancel | registry (send, expect, wait), Runner socket (through the rows) |
| Connection registry (`registry.py`) | `RunnerHub.conns`, `buffers`, `task_waiters` | attach, detach, is_online, send, expect, resolve, wait, open/close_buffer | dispatch and socket handlers of one event loop |
| Runner socket (`ws.py`, `main.py` 41-96) | the handler's locals, `Machine.status` | handshake, heartbeat, task_accepted, task_output, task_result, `mark_machine_lost`, heartbeat sweep, start-up reset | Runner by frames, dispatch by futures and rows, event bus |
| Runner process (`runner/agent_runner/client.py`) | `cancel_events`, `results_cache`, `seqs`, its connection | connect, handshake, take, run, cancel, report a task | server by frames, its tools |
| Runner tools (`tools.py`, `plugins.py`, `secure_path.py`) | subprocesses | run a command, files, plugins | the machine |
| Approvals (`routes.py` 486-582, `services.py` 91-104) | `Approval` rows, `ToolCall` rows | create, list, approve, reject | dispatch, connectors |
| Session turns and Agent Loop (`services.py` 130-330, `agent.py`) | `Message`, `ToolCall` and `ModelUsage` rows, a turn's locals | `run_session_turn`, `run_agent_turn`, the tool executor | model gateway, dispatch, approvals, event bus |
| Event bus and client socket (`events.py`, `client_ws.py`) | `_subs`, one bounded queue per subscriber | publish, subscribe, unsubscribe, forward | turns, socket handlers, browsers |
| Web chat page (`web/app/chat/page.tsx`, `web/lib/chat-stream.ts`) | `sending`, the view of the running turn | send, subscribe, fall back, reduce events | client socket, POST messages |
| Accounts and grants (`auth.py`, `routes.py` 136-330, `web/app/login`, `web/app/admin/users`, `web/components/app-shell.tsx`, `admin-guard.tsx`) | users, auth tokens, enrollment tokens, grants; a window's user, form and guard | first registration, register, approve, reject, create, log in, log out; enroll, share | all routes; the cookie of a browser |
| Model administration (`model_admin.py`, `web/app/admin/models`) | tables of backends and routes with their OAuth configurations, `app.state.gateway`; a list, a form, an OAuth dialog and its poll loop | create, edit, switch, make default, delete, route, log in by device or code, refresh, rebuild the gateway | the page by requests, OAuth providers, the gateway |
| Model gateway (`model_gateway.py`, `oauth.py`, ...) | configured backends, semaphores, OAuth tokens | chat with retries, refresh | model providers |
| Connectors and skills (`connector_admin.py`, `skills.py`, `web/app/admin/connectors`, `web/app/skills`) | the tables of items; lists, one form, scopes | create, import, edit, switch, delete, scope | the pages by requests; `connectors.py` (MCP sessions, reload) |
| Task console (`web/app/console`, `web/lib/tooling.ts`) | the active task, what is shown of it, the poll interval | submit, poll, cancel, announce | the interface `web/lib/mock-api.ts` states |
| Desktop agent (`web/lib/desktop-agent.ts`, `web/app/desktop-agent`) | conversations in the browser's storage, the running turn, pending approvals | send, run the loop, decide, stop, change the conversation, leave, load again | a model through the server; files and commands through the Rust shell |
| Audit, redaction, CLI, the shell's control of a local server | rows; client state | queries, text substitution; see their sources | database, server API |

How they interact.  A user's POST starts a *turn*.  The Agent Loop asks a model,
stores the reply, and for each tool call either refuses it, stores an approval,
calls a connector or dispatches a task.  `dispatch_and_wait` writes a row, sends
a frame on the machine's connection and waits for a future that the handler of
that connection resolves once it has committed the Runner's result; output frames
go into a buffer and, by `task_sessions`, to the session's subscribers.  All
coroutines of the server share one event loop: they interleave where they await
the database, a socket or a model, and nowhere else.  Nothing but the rows
survives a restart of the server.

What makes each component correct:

* **Dispatch, registry, socket, Runner.** A task's status follows the life cycle
  of `docs/protocol.md` 3.1; a call always returns and leaves nothing behind; a
  result is never lost between commit and wake-up; what the row says is what was
  executed; nothing is executed twice; a broken connection ends its tasks.
* **Approvals.** Nothing runs undecided or by the decision of somebody without
  the right; a late decision is refused; what was approved is accounted for.
* **Turns.** A stored history is one a model API accepts; a tool never runs
  before the message that asks for it is stored; what ran is audited; `seq`
  orders the session.
* **Bus and page.** From the moment a page is told `subscribed` it sees every
  event in order; output and results reach their own panel; the page gets its
  send button back.
* **Accounts.** From the first account on an active administrator is there to
  approve the others; the name a window shows is the account whose cookie it has.
* **Administration.** What administrators set is what the gateway comes to use;
  nothing is shown authorized that has no token; a save changes only what was
  touched in its form; a page at rest shows what there is.
* **Task console.** A result is shown, and announced once for a submission; a former
  task does not come back over its successor.
* **Desktop agent.** No command runs that nobody allowed; a history sent to a
  model answers every call; a turn comes to its end.

What is hard here is listed, each at its line, under `hazards` in `PROJECT.json`.

## 2. Modules

```
RunnerLink  <- RunnerHub <- TaskDispatch <- RunnerSocket --+
     ^                                                     +-- TaskPlatform -- MCTaskPlatform
     +------------------------------------ RunnerAgent ----+        |  (INSTANCE) TaskLifecycle
                                          TaskPlatform_proofs

Approvals -- MCApprovals, Approvals_proofs

EventBus <- SessionTurn <- ChatPage -- MCChatPage, ChatPage_proofs (of both)
                  ^-- MCSessionTurn

ApiCalls <-+- TaskConsole (and ToolForm) -- MCTaskConsole, Pages_proofs (of both it and Catalog)
           +- ModelAdmin  -- MCModelAdmin, ModelAdmin_proofs
           +- Catalog     -- MCCatalog, Pages_proofs
           +- SignIn      -- MCSignIn, SignIn_proofs
           +- ApiCalls_proofs: lemmas for these proofs

DesktopAgent -- MCDesktopAgent, DesktopAgent_proofs
```

Every module cuts a coroutine exactly where the code awaits something another
coroutine can interfere with; what lies between two awaits is one action.
`Message` and `Task` rows are variables and a commit is one step.  The text of
messages, prompts, commands and outputs is abstracted away: a tool call is its
sequence number, an output chunk is its number.  Definitions whose comment
begins with "Mutant" are plausible bugs of the definition below them; no
specification uses them.

| Module | Models | Actions |
|---|---|---|
| `RunnerLink` | external: one WebSocket as a pair of FIFO channels; a break loses the frames to the Runner and any suffix of those to the server, and neither side learns of it at once | `Drop`, `DropAll`; pushing a frame is part of its sender's action |
| `RunnerHub` | `registry.py`: the connection in the registry, waiters, buffers | `AttachBegin`, `AttachEnd`, `Detach`, `OpenBuffer`, `BufferAdd`, `CloseBuffer`, `Expect`, `Resolve`: parts of the actions of the next two |
| `TaskDispatch` | `dispatch_and_wait` and `dispatch_no_wait` from the INSERT to the answer; cancel | `Create`, `Begin`, `SendDone`, `SendFailed`, `GiveUp`, `CommitDispatched`, `WaitReturns`, `WaitTimesOut`, `ReadBack`, `CancelTask` |
| `RunnerSocket` | one handler per connection: handshake, attach with the closing of the old connection, the frame loop, `mark_machine_lost`; the sweep; the reset at start-up | `Hello` ... `WakeLost`, `Sweep`, `Restart` |
| `RunnerAgent` | the Runner: one connection at a time, jobs, cancel events, the result cache | `Connect`, `HandshakeDone`, `HandshakeRefused`, `TakeTask`, `StartJob`, `EmitOutput`, `TakeCancel`, `FinishJob`, `LinkLost` |
| `TaskPlatform` | the composition, its properties and its fairness | `Dispatcher`, `Handler`, `Runner`, `Break`, `ServerRestart` |
| `TaskLifecycle` | the abstract specification: what a status column may do, with `settled` for "its creator writes it no more" | `Queue`, `Settle`, `Start`, `Report`, `Outage`, `Reset` |
| `Approvals` | approve/reject from the first read to the last commit, connector and machine branch | `Ask`, `Load`, `Refuse`, `Decide`, `CallConnector`, `Audit`, `AnswerOffline`, `CreateTask`, `Send`, `CommitSent`, `CommitLost`, `Link`, `Restart` |
| `EventBus` | `events.py`, the `/ws/client` handler and the browser's socket | `Publish`, `Open`, `Join`, `JoinFails`, `ReadAck`, `Forward`, `Forsake`, `Close`, `Cut` |
| `SessionTurn` | `run_session_turn`, `run_agent_turn` and the executor | `Begin` ... `Finish`, `ServerRestart` |
| `ChatPage` | `handleSendMessage` and the reducer of `chat-stream.ts` over `EventBus` and `SessionTurn` | `Send`, `Subscribe`, `FallBack`, `OnEvent`, `StreamEnds`, `AsyncReply`, `SyncReply`, `Rejected`, `PostCut`, `StreamCut` |
| `ApiCalls` | requests of a page in flight (`api-client.ts`, the proxy route): answered in any order, or failed with or without effect | `Answer`, `NeverArrives`: parts of the actions of the next four |
| `ToolForm` | `tooling.ts`, what the console's form sends and the interface takes | pure: `Verdicts` is the set of outcomes a form can have |
| `TaskConsole` | `console-client.tsx`: submit, the polling effect with its closure and its cleanup, notification, cancel | `SubmitTask`, `Rerun`, `Tick`, `HearTask`, `HearOutput`, `HearCreated`, `CancelTask`, `HearCancelled`, `ChangeMachine`, `Complete`, `Serve`, `Lost` |
| `ModelAdmin` | `admin/models/page.tsx` with its dialogs over the handlers of `model_admin.py`, cut at their awaits | of the page `SubmitBackend` ... `CloseDialog` and one `Hear...` per answer; of the server `ServeList` ... `ServeUrl`, `MakeDefault`, `AskProvider`, `Granted`, `LoadGateway`, `AssignGateway`; `Elsewhere` |
| `Catalog` | `admin/connectors/page.tsx` over `connector_admin.py`, `skills/page.tsx` over `skills.py` | `OpenConnectorForm` ... `SaveSkillScope`, `CreateConnector` ... `SetSkillEnabled`, `ServeLists`, `Hear...`, `Elsewhere` |
| `SignIn` | `routes.py` and `auth.py` of accounts, cut at each await; login page, shell, guard and users page of each browser, with navigation that takes time | `OpenConsole`, `Follow`, `Arrive`, `Submit`, `LogOut`, `Manage`, `Refresh`, `Expire`, `Serve...`, `Hear...` |
| `DesktopAgent` | `runDesktopAgentTurn` cut at each await, and the page around it | `SendMessage`, `ModelReply`, `ModelFails`, `ReadBefore`, `ToolReturns`, `Decide`, `StopTurn`, `NewSession`, `SelectSession`, `LeavePage`, `EnterPage`, `Reload` |

Of a page of the console, a handler is cut at its `await`s: what it has on its
way is an element of `calls` together with what its closure remembers (the
request's `arg`), so that two handlers under way at once, and a handler that
ends after the page has moved on, are states of the model.  What a click sets is
rendered in the click's step; what an answer sets is rendered later where that
matters.  In `TaskConsole` the polling effect keeps the closure it was run with
(`effect`) until `Rerun` cleans it up and runs it anew, so that two polls answered
back to back both see the former `notifiedTaskId`.  In `SignIn` `router.replace` and
a link only set `to`; `Arrive` changes the pathname, cancels what the effects of the
page that is left asked for, and runs those of the next one.  Until then answers are
heard and buttons work where the router is still leaving from.

`ModelAdmin`, `Catalog` and `SignIn` are composed with the server itself;
`web/lib/mock-api.ts`, the browser's test double, differs from it (section 4).
`TaskConsole` is composed with the interface that the double states: of the server
it needs that a task ends, which is `TaskPlatform`'s subject.  In `ModelAdmin` a
request is `held` by its handler between a read and the commit that uses it
(`_clear_default`, `_load_oauth_cfg`, the provider's answer), then about to `load` and
to `assign` the gateway; a handler of `Catalog` reads one row and commits it, in one
step.

`TaskLifecycle` is what the rest of the server may rely on.  `TaskPlatform`
implements it with `row <- status` and `settled <- Settled` (the creating
coroutine waits, has returned or has died), checked as the property
`LifecycleSpec` and proved as `RowsRefineLifecycle`.  Its `Settle` step may write
over a reported status: that is what the code does, see finding 1.

History variables (marked "history" at their declaration) record what the
properties need and the code does not keep: `started` (executions of a task),
`deciders` and `late` (who decided, who read a decided row), `ran` (tools that
were started), `tangled` (turns that overlapped), `due` and `full` (events a
subscriber is owed; whether a queue was ever full), `seen` (what a stream gave to
the page), `said` of the desktop agent (what a turn said), `crossed` (of the chat
page: a rejected message freed the button while the page was at work on another;
of the desktop agent: the user moved on during a turn; of the catalog: two lists
were on their way at once), `seen` and `touched` of a form and `ver` of an item (what
was loaded, what was changed by hand, how often the item changed), `version`,
`newest`, `contested`, `clobbered` and `ended` of the model administration (commits,
the newest load assigned, a default made over a stale read, configurations written
over newer ones, logins whose polls ended without success), `hasty` of a window (its
user did not wait for the router), `notices`, `repeats`, `submits` and `overtaken` of
the console.  No guard reads them, but that `acts`, `moves` and `submits` are also held
against a bound, and `version` is what tells two loads of the gateway apart.

## 3. Runs

`tlc -workers 2 -config X.cfg MCxxx` in this directory.

| Run | Instance | Shows |
|---|---|---|
| `tasks_safety` | 1 task, 2 connections of its machine (symmetric), 1 chunk, 2 frames in flight | `TypeOK`, `NothingLeftBehind`, `ResultWakes`, `RowIsTheExecution`, `AtMostOneExecution`, `AnswerStands`, the refinement `LifecycleSpec`, `FinalOnceSettled` |
| `tasks_liveness` | 1 task, 1 connection, 1 restart, fairness | `EveryCallReturns`, `BreakEndsTasks` |
| `approvals` | 2 approvals (1 of a connector), 3 decision requests (1 without the right), 1 restart | `TypeOK`, `LateDecisionRefused`, `PendingRanNothing`, `ApprovedIsAccounted`, `LinkIsSettled` |
| `session_turns` | 2 turns of one session, 2 model calls and 2 tool calls each, 1 output event per call, 1 restart | `TurnTypeOK`, `OwnRowsWellFormed`, `SequentialHistory`, `IntentIsStored`, `RunsAreAudited` |
| `chat_turns` | 2 messages of one page, connections that hold, queues of 2 events | `TypeOK`, `PageTakesTurns`, `NothingMissed` |
| `chat_page` | 1 message, 2 tool calls, 1 break, 1 restart, queue of 2, fairness | `OutputInOwnPanel`, `DoneIsSettled`, `SendReturnsUnlessLost` |
| `desktop_agent` | 2 turns, 2 conversations, 2 model calls per turn, 2 tool calls, 2 moves, fairness | `UnansweredOnlyIfStopped`, `CommandWasAllowed`, `ConversationIsItsTurns`, `TurnComesToItsEnd` |
| `task_console` | 2 submissions, 1 machine, 2 requests in flight, 1 that fails, fairness | `AnnouncedOncePerSubmission`, `FormerTaskStaysAway`, `ResultIsShown` |
| `model_admin` | 3 backends, 1 user with a route, 2 acts of the page's user or of others, 2 polls per login, 2 requests in flight, 1 that fails, fairness | `ChangesTakeEffect`, `AuthorizedHasToken`, `DialogSettles` |
| `catalog` | either page, 2 items, 3 acts, 2 requests in flight, 1 that fails | `QuietPageIsRight`, `SaveKeepsTheRest` |
| `sign_in` | a new server or one with two administrators signed in; 2 browsers, 3 names (symmetric), 3 accounts, 3 tokens, 3 acts, 3 requests in flight, 1 that fails | `AdminRemains`, `ShownIsSignedIn` |
| `tasks_terminal` | `tasks_safety` without restarts and output, one connection | `TerminalIsFinal`, violated: finding 1 |

**Bounds and why they are enough.**  Tasks do not read each other's state; they
meet in `mark_machine_lost`, which treats them alike, so one task shows each
interleaving of one task with the connections, and the proofs below hold for any
number.  Two connections are the least with an old and a new one at once; a third
attaching during the first `close` is covered by the proofs only.  One output
chunk suffices to lose or misplace one (its `seq` 0 is the boundary case);
two frames in flight let a result follow an output or an acceptance unread.
Three decision requests let two race and a third come late.  Two tool calls per
turn are the least with a call before and after one that fails; two model calls
reach the step limit with calls pending.  `session_turns` has no subscribers
(`Sub = {}`): the bus never blocks a turn, and the chat runs compose both.
`QueueCap = 2` stands for 1000 and makes the queue overflow, which the runs do
reach.  `chat_turns` has no breaks as `PageTakesTurns` speaks of none;
`chat_page` has them with a single message.  `MaxRestarts`, `MaxCuts`, `MaxOutputs`, `MaxChunks`,
`MaxInFlight`, `MaxCalls` bound what the code leaves unbounded.

Two requests in flight are the least that cross; one that fails may have been
carried out or not, and a second would add nothing that the first and a later
retry do not.  Two submissions give the console a former and an active task.
Two items, or three backends of which two are there at first, are the least
with one that is edited while another changes.  `MaxAttempts = 2` stands for 30
polls: after the first "pending" the loop goes on, after the second it gives up,
and the provider may say so as often as it likes.  Two acts are two handlers that
overlap, whoever asked; the run starts with and without a token, so that a
login, a refresh and a start can meet one that is there.  Three acts
let a form be opened, sent and another opened before the answer.  In `sign_in`,
from a new server, three acts are two first registrations and a sign-in; from the
established one a decision on each side, a sign-out with a sign-in before the
router is there, or two links followed quickly.  Three requests in flight there
are two forms and the shell's question.  Two conversations and two moves let the user leave a turn
and come back.  `MaxSteps = 2` stands for 12 and reaches the limit with calls
made.

**Symmetry** is declared only for runs without liveness properties, over model
values the specifications treat alike (connections, turns; requests within
`Owner`, see `MCApprovals`).

**Deadlock** checking is off where everything may be finished: the set of tasks,
connections, turns is finite and each is used once.

**Fairness.**  `TaskPlatform`: weak fairness of every coroutine's next step (the
asyncio loop runs what can run; database calls return), of each timer (`wait_for`
in `hub.wait`), and of the sweep for a connection whose Runner has stopped
reading (such a Runner sends no heartbeat, `main.py` closes it).  Nothing is
assumed of the Runner, the network or users: no fairness on `Break`, on frames
being produced or on anybody deciding.  `ChatPage`: weak fairness of the turn
(model and tool calls end by their timeouts), of forwarding, and of the page's
callbacks; a POST arrives or fails.  `TaskConsole`: a task ends, React renders and
runs its effects (`Rerun`), the interval fires, polls are answered and heard.
`ModelAdmin`: the server's handlers go on (providers answer or time out, the
database returns) and promises settle.  `DesktopAgent`: weak fairness of the loops together (the model
answers or fails, a tool returns by the shell's own timeout), and strong fairness
of answering a card that is in sight again and again: a user who can see the
question answers it.  Nothing makes a user submit, stop, move or close a dialog.

## 4. Findings

1. **`TerminalIsFinal`** (`tasks_terminal`).  `docs/protocol.md` 3.1 calls
   completed, failed, timeout, cancelled and lost terminal.  `services.py` 77 and
   124 write `dispatched` unconditionally after `hub.send`; a result or an outage
   committed in between is overwritten, and the task stays active until its
   connection ends, when it becomes `lost`.  `FinalOnceSettled` is the part that holds.

Met while modelling, without a run of their own.  In the server and the Runner:

* `ws.py` 177 calls `mark_machine_lost` with the machine only: the cleanup of an
  old connection sets the machine offline, and its tasks lost, while the Runner is
  already served on a new one (`ws.py` 22 speaks of a machine that lost its
  connection).  `RunnerSocket` has these steps; `BreakEndsTasks` is what holds.
* Two overlapping decisions both read `pending` and both commit (`routes.py` 528);
  the 409 of `test_approval.py` 116 only protects against decisions one after the
  other: `LateDecisionRefused` is that part, and holds.  Approved twice, the
  operation runs twice and the second `task_id` replaces the first (566-570), whose
  task no approval names any more: `Rivals` in `ApprovedIsAccounted`.  A process
  that dies during an approved connector's call leaves no `ToolCall` row.
* Overlapping turns read the same highest `seq` (`services.py` 205) and store
  different messages under one; `models.py` 84 calls it the order within the session.
  `SequentialHistory` is what holds of turns one after the other.
* A first tool call whose arguments are no JSON ends the turn with an
  `UnboundLocalError` (`agent.py` 76); `test_loop_bad_arguments_does_not_crash`
  passes no `on_tool_call`.  `SessionTurn` has it as the end `"crashed"`.
* A `hello_ack` that cannot be sent leaves a dead connection in the registry
  (`ws.py` 96, `RunnerSocket!AckFailed`); a `subscribed` that cannot be sent leaves
  its queue in the bus for good (`client_ws.py` 40); tasks ended by
  `mark_machine_lost` keep their buffer in `hub.buffers` (`ws.py` 31).
* Rejecting a registration deletes the row that was read, also when another
  administrator approved it meanwhile (`routes.py`, `SignIn!ServeDecision`).
* Model administration.  `is_default` is said to be globally unique
  (T-WEB-08-model-admin.md 28): `_clear_default` clears what it read (`model_admin.py`
  200), so two handlers that overlap leave two (`contested`).  Changes are said to
  take effect at once (29): an older load assigned after a newer one takes them back
  until the next change (`rebuild_gateway` 74; `newest`).  `delete_model` (445)
  clears no route and makes no other backend the default, and `set_route` (464) does
  not ask whether the backend exists; a route that leads nowhere then answers
  `no_backend`, where line 22 has the default for a user without one.  The browser's
  test double does clear routes, promote a default and refuse such a route
  (`mock-api.ts` 1078, 1171): tests over it do not show what the server does.
* A login writes the whole OAuth configuration back as it was before the provider
  was asked (298): a device start that overlaps a grant writes the older
  configuration over the token, and the page goes on calling the backend authorized
  (`clobbered`).  `PATCH` takes neither an OAuth configuration nor
  `is_default: false` (417-441), which the form sends.
* `create_connector` ignores the form's `enabled` and `update_connector` its
  `transport` (`connector_admin.py` 93, 118).

In the web pages:

* A chat stream that closes after `subscribed` without an error event leaves the
  page sending for good (`chat/page.tsx` 340), where T-WEB-07-streaming.md 41 asks
  for a fall-back: hence the exception in `SendReturnsUnlessLost`.  The result of a
  refused or approval-bound call overwrites the status of the panel before it
  (`chat-stream.ts` 149).  A turn that publishes `turn_error` is also answered 503:
  the event frees the button, and if the user has sent the next message by the time
  the answer arrives, its handler (340) frees the button again while that message's
  turn runs, so that a third can be sent into it: the exception in `PageTakesTurns`.
* Desktop agent: a turn writes to the conversation that is shown when it ends, so
  that a change of conversation mixes the two (T-DESK-04 26 and 42 ask for
  conversations that are kept apart); the box "automatically allow commands in this
  conversation" (`page.tsx` 566) holds for all of them; a card in a conversation out
  of sight blocks sending everywhere and a stop does not resolve it; leaving the
  page leaves the loop running with nobody to stop it; a stop between two calls
  leaves calls without an answer in the history.  These are the exceptions in the
  four properties of `desktop_agent`.
* Task console: a poll overtaken by the next leaves "running" on the page for good;
  one poll that fails ends the polling; a submission makes the page poll and
  announce the former, finished task again; two polls answered before the next
  effect both announce (`console-client.tsx` 239 tests the closure's
  `notifiedTaskId`, 258-259 stop the polls only in the cleanup): `repeats` in
  `AnnouncedOncePerSubmission`.
* Models page: after 30 polls that were pending, or after an error that nothing
  catches, the device poll loop ends and the dialog goes on waiting
  (`admin/models/page.tsx` 301-317): `ended` in `DialogSettles`.  The URL inputs of a
  stored OAuth configuration are filled with a remark that is not a URL and must be
  typed anew.
* Connectors and skills: a save that is answered closes whatever form is open
  then; a save writes all fields as they were when the form was opened, over a
  switch in the row or another's change made since (`ver` in `SaveKeepsTheRest`);
  a new connector's form keeps `enabled`, `scope_all` and, without a preset,
  everything else of the connector edited before (`connectors/page.tsx` 194-202);
  an older list may come last.
* Sign-in: the window that lost the first registration stays in that form until it
  is loaded again (`login/page.tsx` 98); a sign-out whose request fails clears the
  cookie and leaves the token valid (`api-client.ts` 275), which is what
  `HearLogout` does; the shell shows a page without a user when `getMe` fails other
  than with 401 (`app-shell.tsx` 105).  Between a sign-out and the moment the
  router reaches the login page an answer of `getMe` puts the signed-out user's name
  back (94-98), until the page is left: `to = "login"` in `ShownIsSignedIn`.  The
  login form's button is free again before the page is left (`login/page.tsx`
  140-143): a sign-in sent again as somebody else leaves a name that is not the
  cookie's until the next page, and so may a link followed while the router is on
  its way to the login page: `hasty`.

## 5. Proofs

Checked by TLAPS for all values of the constants that satisfy the modules'
`ASSUME`s: `LinkAssumption`, `RestartsAssumption`, `ApprovalAssumption`,
`TurnAssumption`, `BusAssumption`, `PageAssumption`, `ApiAssumption`, `AdminAssumption`,
`CatalogAssumption`, `ConsoleAssumption`, `SignInAssumption`, `DesktopAssumption`
(bounds are naturals, a message has one turn, `None` is none of the ids, the empty
selection is no machine, connector approvals are approvals, owners' requests are
requests) and `NoneAssumption` (`None` is none of the frames and buffers it stands
in for).

| Module | Theorems | Argument |
|---|---|---|
| `TaskPlatform_proofs` | `TypeCorrect` | `TypeInv`: `TypeOK`, and `HandledFrame` (a handler in the middle of a frame holds one; a connection never opened has no handler under way). Without it a `task_result` could not be shown to carry a status. One step per action, grouped by the five parts of `Next`. |
| | `CallsCleanUp`, `ResultsWakeTheirCalls`, `AnswersStand` | `CallInv`: a row exists once its coroutine has begun, is active only while it should be, and futures and routes belong to blocking calls (`CallState`), with the three properties. `AnswerStands` needs the conditions of the UPDATEs in `ws.py`; `ResultWakes` that a handler commits before it resolves. |
| | `RowsRefineLifecycle`, `FinalAfterSettling` | Each step of the platform is a step of `TaskLifecycle` or leaves `status` and `Settled` unchanged; finality then follows from the abstract steps alone. |
| | `ExecutedAtMostOnce` | `ExecInv`: a task frame stands at no more than one place of one channel (`OneFrame`), and while it has not been sent or is still in flight the task has no job and was never started (`ExecState`). |
| | `RowsAreExecutions` | `RowInv`, for each task: all that is on its way from its Runner is on one connection, in order, and each chunk sent is in the open buffer or ahead of the result (`Stream`); the buffer is open and empty before the frame goes out and until the Runner starts (`Opened`); what a handler is about to store, and what a row holds, is the cached result with every chunk (`Written`). Without `Opened` the first chunk could find no buffer; without `OneHome` in `Stream` a chunk on an old connection could follow the result on the new one. |
| `Approvals_proofs` | `ApprovalTypes`, `LateRequestsAreRefused`, `NothingRunsUndecided`, `ApprovalsAreAccounted`, `LinksAreSettled` | `Inv`: types; where each request is and what it has therefore done (`RequestInv`); who has decided what (`DecisionInv`); an approval is pending exactly while nobody has decided it (`PendingInv`); what a request that answered with success left behind (`AccountInv`), whose task stays named until a rival, itself approved, writes its own. |
| `ChatPage_proofs` | `TurnsTyped`, `OwnHistoryWellFormed`, `IntentStoredFirst`, `EveryRunAudited` | Of `SessionTurn` alone. `TurnInv` says of each turn (`Sound`): amid tool calls, the reply that asked for them is stored and its calls end where the calls yet to do end (`ReplyOf`); the calls of every reply are answered up to the last answer (`AnswersOf`); what ran was asked for and is accounted for, and its turn has seen arguments that parse (`RunsOf`, needed where a turn crashes). A step of one turn leaves `Sound` of the others alone (`OtherTurns`), so overlapping turns need no case of their own. |
| | `SequentialTurnsOrdered` | `Ordered`: while turns take turns one at most can still write, below what it writes next lies all that is stored, and no `seq` is there twice; while none died amid its calls either, a turn that writes no more has answered all its calls, and one that has read the history goes on with all there is but its own. |
| | `PageTyped` | `PageShape`: where the handler, the socket and the page are with one message (`Stage`), and that the answer to `subscribe` precedes all events (`AckFirst`). |
| | `EventsArrive` | The events of a message lie on one path: those the page has seen, then the frames on the socket, then the queue. A step leaves the path, hands an event on along it, appends what is published, or cuts it where the connection ends (`Moves`, `Hears`). `Owed`: of a live stream it ends with all that is `due`. |
| | `TurnsTaken` | `OneAtWork`: the page is at work on one message, its button disabled. `Attended`: while nothing breaks it is at work on every message whose turn may still write, and nothing on the path ends the turn before. |
| | `OutputStaysHome`, `DoneMeansSettled` | Of the path (`Linked`): an output follows the `tool_call` of its own call, a `tool_result` comes before the next `tool_call` and before `turn_done`; and what is left open at its end is what the turn is at (`Expects`), so that the next event fits. Of the page (`Drawn`): the panels are what the events seen so far make of them; only the last one may be running, and only until its result is seen. |
| `ModelAdmin_proofs` | `ChangesAreServed`, `ShownHasToken` | One invariant, `Inv`. Of the tables: rows are numbered up to `created`, one is the default at most unless `contested`. Of the requests (`GoodList`): a handler that was granted a token is about a backend that holds one or was written over; one about to assign holds a load, and a load of the newest version has what the tables have, but for tokens written over. Either the newest load was assigned or a handler that is due to load it is there: without that disjunct nothing is known of the gateway when the last handler ends. Of the page (`ShowsRightly` and each answer that would be believed): "authorized" is said of rows with a token, gone or `clobbered`; as ids are never used again and `clobbered` only grows, an answer may be as late as it likes. |
| `Pages_proofs` | `SavesKeepTheRest` | `FormInv`: the boxes nobody touched, of the form and of every save on its way, are those of the item while it has the version that was loaded; of the list and of lists on their way, an item that has the table's version is the table's. Without the part about lists nothing is known of a form opened from an old one. |
| | `QuietPagesAreRight` | `QuietInv`: the page shows what there is and no answer is there to change that, or something on its way will bring the list: a load not yet answered, an answer that is still true, the load of the user's own skills that the list follows, a change that was made and whose load comes next. Without the first half an older list could still replace the right one. |
| | `TasksAnnouncedOnce`, `FormerTasksStayAway` | Of `TaskConsole`, in one module with the catalog's as both rest on `ApiCalls` alone. `ConsoleInv`: rows are one for a submission at most (`Submitted`); a poll that is still heard is about the active task, and the one creation there may be has no row yet or an answer that names the newest row, one the page does not know (`PolledList`); a task that was never active was never announced, and the active one has room for one more announcement until `notified`, or what the effect was told, names it (`Announced`). Without `PolledList` a poll could announce a former task again, and a creation could make an announced task active; with it, a task becomes active once. The same invariant gives the action property, whatever step is taken: only a poll writes the result panel, and only about the active task. |
| `ApiCalls_proofs` | | What `calls` is once a request is asked for, answered or heard: the lemmas of the proofs about pages. Requests may say anything. |
| `SignIn_proofs` | `AnAdministratorRemains` | `AccountsInv`: administrators are active, and there is one once there is a row (`GoodRows`); a registration that has read that it is not the first was preceded by one, and a decision that awaits its commit is about an account that is none (`SoundList`). Without the latter two, the commit of a request that read before others wrote could not be bounded. |
| | `ShownUserIsSignedIn` | `ShownInv`: a user shown is the one the cookie was issued for, or the router is on its way to the login page, or the user was hasty (`GoodTab`); a form is on its way only from a login page that is there and waits for it, one at a time, unless its user was hasty (`OneForm`); the shell's question is about the cookie that is there, with the same two exceptions (`Timely`). Without the second a sign-in could change the cookie under a name that is shown. |
| `DesktopAgent_proofs` | `CommandsWereAllowed` | `Agreed`: a turn runs a command with the consent of its start or of its own card; the resolver of a card belongs to the turn that waits at it, so an answer reaches no other call. |
| | `ConversationsAreTheirTurns` | `Settled`: while the user stays, a turn that is on is at home in the conversation shown, its context is what that holds, and nobody else writes (`AtHome`). |
| | `CallsAreAnswered` | `Answering`: a turn's own rows answer its calls but those it has yet to make (`OwnRows`), none of which is left when it asks the model; what a conversation holds, and what a turn started from, answers its calls but those of stopped turns, and a stop is for good. As this is said of rows and not of conversations it survives any change of conversation. |

**Model-checked only.**  Every safety property of the passing runs, invariant or
action property, is stated by a theorem.  What is left is liveness
(`EveryCallReturns`, `BreakEndsTasks`, `SendReturnsUnlessLost`, `ResultIsShown`,
`DialogSettles`, `TurnComesToItsEnd`), which is out of the prover's reach, as are
`ENABLED` and fairness.

**Invariants first checked.**  `RowInv` was model-checked on `tasks_safety` and with
one restart (and one frame in flight), `QuietInv` on `catalog`, `ConsoleInv` on
`task_console` and with two changes of machine and three requests in flight
(2,050,560 states), before they were proved.

## 6. What is not modelled

* What tools do to the machine, path policy, plugins; the output cap of
  `OutputBuffer` (`registry.py` 28; the model stays below it); the eviction of
  `results_cache` and the unguarded await in the Runner's duplicate check
  (`client.py` 154, 206: no task is sent twice, so neither has a consequence here);
  Runner enrollment (`auth.py` 112).
* Risk rules, prompt texts, redaction, usage rows: inputs or pure text.
* The model gateway: retries, the semaphore of a backend (which a rebuild replaces
  while old calls hold the former, `model_gateway.py` 60), tokens that expire and their
  refresh during a load of the gateway or a call (`model_admin.py` 34, 98), tokens per
  user; likewise the live sessions of connectors and their reload.  A load of the
  gateway is one read of backends and routes together; administrators elsewhere
  delete, switch and make default, and do not log in or set routes.
* A second window of the same browser: windows share a cookie there, and a sign-out in
  one leaves the other's name until its next page.
* Of the console: the list of a machine's tasks and its expanded rows (two rows
  opened quickly may show one's output under the other), the pages for machines,
  enrollment, approvals, audit, usage and a user's own models, search and filters,
  discovery of a provider's models, the switch of a backend; wording and layout.
* The Rust shell (files, commands, control of a local server); of the desktop page
  the file tree and preview.  The CLI, whose loop is much like the desktop agent's.
* Schema, migrations, encryption, settings, packaging: no behaviour of their own.

## 7. Plan

Done: the order of sections 2-5.  What remains, most important first:

1. `LiveConfig`: reloading connectors from the database while calls use them, as
   `ModelAdmin` has it for the gateway, with an abstract "installed = stored at last"
   that both refine; `TokenRefresh` for one rotating OAuth token.
2. `ModelGateway`: the semaphore of a backend across retries and a rebuild.
3. Enrollment with `max_uses`, and machine grants against requests in flight.
4. `OutputBuffer`: the cap as a function on sequences of chunks; `CommandRun`:
   timeout and cancel of a subprocess; `CliStream`; `ServerControl`.
