------------------------------ MODULE ChatPage ------------------------------
(***************************************************************************)
(* The chat page of the web client, over the session's turns and events:   *)
(* handleSendMessage of web/app/chat/page.tsx, connectChatStream and the   *)
(* reducer applyChatStreamEvent of web/lib/chat-stream.ts.  One page, one  *)
(* session; each message it sends is a turn with a stream of its own, and  *)
(* both go by one name.                                                    *)
(*                                                                         *)
(* The text of the view is left out: of its items the tool panels are kept.*)
(***************************************************************************)
EXTENDS SessionTurn, SequencesExt

CONSTANT MaxCuts   \* bound: connections that break (streams and POSTs)

ASSUME PageAssumption == Sub = Turn /\ MaxCuts \in Nat

VARIABLES
  sending,   \* the state of that name: the send button is disabled
  post,      \* post[r]: the POST: "none", "sync" (the page awaits it), "async"
             \* (it does not), "back" (settled)
  stream,    \* stream[r]: "none", "open" (connectChatStream resolved), "closed"
             \* (by the page), "lost" (onclose)
  view,      \* streamTurn: its status and its tool panels
  seen,      \* seen[r]: the events that open stream has given to the page (history)
  cuts,
  crossed    \* the rejection of one message freed the button while the page was
             \* at work on another (history)

pageVars == <<sending, post, stream, view, seen, cuts, crossed>>

(* The page is at work on the message: it connects, awaits the reply or    *)
(* reads the stream.                                                       *)
AtWork(r) ==
  \/ conn[r] # "new" /\ post[r] = "none"
  \/ post[r] = "sync"
  \/ stream[r] = "open"

(* A panel: the call it was made for, the task it goes by once it has      *)
(* output, the calls whose output it shows, its status, and the call that  *)
(* gave it that status.                                                    *)
Panel == [call : Nat, task : Nat, outs : SUBSET Nat,
          status : {"running", "completed", "failed"}, by : Nat]

NewPanel(call, task, outs) ==
  [call |-> call, task |-> task, outs |-> outs, status |-> "running", by |-> 0]

NoView == [status |-> "none", panels |-> <<>>]
NewView == [status |-> "streaming", panels |-> <<>>]

PageInit ==
  /\ sending = FALSE
  /\ post = [r \in Turn |-> "none"]
  /\ stream = [r \in Turn |-> "none"]
  /\ view = NoView
  /\ seen = [r \in Turn |-> <<>>]
  /\ cuts = 0
  /\ crossed = FALSE

----------------------------------------------------------------------------
(* The reducer.                                                            *)

(* latestToolIndex: the panel of that task, else the last; 0 for none.     *)
LatestTool(panels, task) ==
  LET own == {i \in DOMAIN panels : panels[i].task = task}
  IN IF own # {} THEN CHOOSE i \in own : \A j \in own : i <= j ELSE Len(panels)

AddOutput(panels, call) ==
  LET i == LatestTool(panels, call)
  IN IF i = 0 THEN <<NewPanel(0, call, {call})>>
     ELSE [panels EXCEPT ![i].outs = @ \cup {call}, ![i].task = IF @ = 0 THEN call ELSE @]

(* Mutant: a result goes to the panel of its task, which has one only once *)
(* output came.                                                            *)
AddResultByTask(panels, e) ==
  LET own == {i \in DOMAIN panels : panels[i].task = e.call}
  IN [i \in DOMAIN panels |->
        IF i \in own THEN [panels[i] EXCEPT !.status = e.status, !.by = e.call] ELSE panels[i]]

(* A tool_result names no task: it goes to the last panel.                 *)
AddResult(panels, e) ==
  IF panels = <<>> THEN panels
  ELSE [panels EXCEPT ![Len(panels)].status = e.status, ![Len(panels)].by = e.call]

Apply(v, e) ==
  CASE e.type = "turn_started" -> [v EXCEPT !.status = "streaming"]
    [] e.type = "tool_call"    -> [v EXCEPT !.panels = Append(@, NewPanel(e.call, 0, {}))]
    [] e.type = "tool_output"  -> [v EXCEPT !.panels = AddOutput(@, e.call)]
    [] e.type = "tool_result"  -> [v EXCEPT !.panels = AddResult(@, e)]
    [] e.type = "turn_done"    -> [v EXCEPT !.status = "done"]
    [] e.type = "turn_error"   -> [v EXCEPT !.status = "error"]
    [] OTHER                   -> v

(* Mutant: any reply of the model ends the turn.                           *)
ClosingAtReply(e) == e.type \in {"assistant", "turn_done", "turn_error"}

Closing(e) == e.type \in {"turn_done", "turn_error"}

----------------------------------------------------------------------------
(* handleSendMessage.                                                      *)

(* The button: a stream is opened first, with a ticket from the Server.    *)
Send(r) ==
  /\ ~sending
  /\ Open(r)
  /\ sending' = TRUE
  /\ view' = NewView
  /\ UNCHANGED <<post, stream, seen, cuts, crossed>>

(* "subscribed" is read: connectChatStream resolves, and the message is    *)
(* posted without being awaited.                                           *)
Subscribe(r) ==
  /\ post[r] = "none"
  /\ ReadAck(r)
  /\ stream' = [stream EXCEPT ![r] = "open"]
  /\ post' = [post EXCEPT ![r] = "async"]
  /\ UNCHANGED <<sending, view, seen, cuts, crossed>>

(* It rejects: no ticket, refused, broken, or 5 s without an answer.  The  *)
(* page posts the message and awaits the reply.                            *)
FallBack(r) ==
  /\ conn[r] # "new"
  /\ post[r] = "none"
  /\ conn[r] = "down" => wire[r] = <<>>
  /\ Close(r)
  /\ post' = [post EXCEPT ![r] = "sync"]
  /\ UNCHANGED <<sending, stream, view, seen, cuts, crossed>>

(* onEvent; the last event of a turn closes the stream.                    *)
OnEvent(r) ==
  /\ stream[r] = "open"
  /\ wire[r] # <<>>
  /\ LET e == Head(wire[r]) IN
       /\ view' = Apply(view, e)
       /\ seen' = [seen EXCEPT ![r] = IF Closing(e) THEN <<>> ELSE Append(@, e)]
       /\ IF Closing(e)
          THEN /\ sending' = FALSE
               /\ stream' = [stream EXCEPT ![r] = "closed"]
               /\ Close(r)
          ELSE /\ wire' = [wire EXCEPT ![r] = Tail(@)]
               /\ UNCHANGED <<hand, subs, queue, conn, due, full, sending, stream>>
  /\ UNCHANGED <<post, cuts, crossed>>

(* The connection is down and all it carried was read: onclose, for which  *)
(* the page has no handler; before it onerror, if the browser calls the    *)
(* close a failure.                                                        *)
StreamEnds(r) ==
  /\ stream[r] = "open"
  /\ conn[r] = "down"
  /\ wire[r] = <<>>
  /\ stream' = [stream EXCEPT ![r] = "lost"]
  /\ sending' \in {sending, FALSE}
  /\ seen' = [seen EXCEPT ![r] = <<>>]
  /\ Quiet
  /\ UNCHANGED <<post, view, cuts, crossed>>

(* A reply nobody awaits is dropped.                                       *)
AsyncReply(r) ==
  /\ post[r] = "async"
  /\ tpc[r] = "done"
  /\ post' = [post EXCEPT ![r] = "back"]
  /\ Quiet
  /\ UNCHANGED <<sending, stream, view, seen, cuts, crossed>>

(* The reply that is awaited: the messages are read, or that fails.        *)
SyncReply(r) ==
  /\ post[r] = "sync"
  /\ tpc[r] = "done"
  /\ post' = [post EXCEPT ![r] = "back"]
  /\ sending' = FALSE
  /\ view' = NoView
  /\ Quiet
  /\ UNCHANGED <<stream, seen, cuts, crossed>>

(* Mutant: what a POST nobody awaits throws is thrown away.                *)
RejectedUnheard(r) ==
  /\ post[r] \in {"sync", "async"}
  /\ post' = [post EXCEPT ![r] = "back"]
  /\ sending' = (sending /\ post[r] = "async")
  /\ Quiet
  /\ view' = IF post[r] = "async" THEN view ELSE NoView
  /\ UNCHANGED <<stream, seen, crossed>>

(* The POST is rejected: the button is free, whatever message the page is  *)
(* at work on by then.                                                     *)
Rejected(r) ==
  /\ post[r] \in {"sync", "async"}
  /\ post' = [post EXCEPT ![r] = "back"]
  /\ sending' = FALSE
  /\ IF post[r] = "async"
     THEN /\ Close(r)
          /\ stream' = [stream EXCEPT ![r] = "closed"]
          /\ UNCHANGED view
     ELSE Quiet /\ view' = NoView /\ UNCHANGED stream
  /\ seen' = [seen EXCEPT ![r] = <<>>]
  /\ crossed' = (crossed \/ \E q \in Turn \ {r} : AtWork(q))

TurnFailed(r) ==
  /\ tpc[r] \in {"failed", "crashed", "killed"}
  /\ Rejected(r)
  /\ UNCHANGED cuts

(* The connection of a POST breaks; a turn that runs goes on.              *)
PostCut(r) ==
  /\ cuts < MaxCuts
  /\ cuts' = cuts + 1
  /\ Rejected(r)

StreamCut(r) ==
  /\ cuts < MaxCuts
  /\ cuts' = cuts + 1
  /\ Cut(r)
  /\ UNCHANGED <<sending, post, stream, view, seen, crossed>>

PageStep(r) ==
  \/ Subscribe(r) \/ FallBack(r) \/ OnEvent(r) \/ StreamEnds(r)
  \/ AsyncReply(r) \/ SyncReply(r) \/ TurnFailed(r)

----------------------------------------------------------------------------
Posted(r) == post[r] \in {"sync", "async"}

(* What the server does once it has the POST.                              *)
ServerStep(r) == (Posted(r) /\ Begin(r)) \/ TurnStep(r)

Deliver(s) == HandlerStep(s) /\ UNCHANGED <<turnVars, pageVars>>

vars == <<busVars, turnVars, pageVars>>

Init == BusInit /\ TurnInit /\ PageInit

Next ==
  \/ \E r \in Turn :
       \/ (Send(r) \/ PageStep(r) \/ PostCut(r) \/ StreamCut(r)) /\ UNCHANGED turnVars
       \/ (ServerStep(r) \/ ToolOutput(r)) /\ UNCHANGED pageVars
       \/ Deliver(r)
  \/ ServerRestart /\ UNCHANGED pageVars

Spec == Init /\ [][Next]_vars

(* The event loop runs the coroutines (model calls and tool calls end by   *)
(* their timeouts), the browser its callbacks; POSTs arrive or fail.       *)
Fairness ==
  \A r \in Turn :
    /\ WF_vars(PageStep(r) /\ UNCHANGED turnVars)
    /\ WF_vars(ServerStep(r) /\ UNCHANGED pageVars)
    /\ WF_vars(Deliver(r))

FairSpec == Spec /\ Fairness

----------------------------------------------------------------------------
TypeOK ==
  /\ BusTypeOK
  /\ TurnTypeOK
  /\ sending \in BOOLEAN
  /\ post \in [Turn -> {"none", "sync", "async", "back"}]
  /\ stream \in [Turn -> {"none", "open", "closed", "lost"}]
  /\ view \in [status : {"none", "streaming", "done", "error"}, panels : Seq(Panel)]
  /\ seen \in [Turn -> Seq(Event)]
  /\ cuts \in 0 .. MaxCuts
  /\ crossed \in BOOLEAN

NoneFull == \A r \in Turn : ~full[r]

(* A page whose stream is up gets every event published since it was told  *)
(* "subscribed", once and in order, unless its queue was full: with the    *)
(* POST sent only then, nothing of its turn is missed.                     *)
NothingMissed ==
  \A r \in Turn :
    stream[r] = "open" /\ conn[r] = "live" /\ ~full[r]
      => IsSuffix(due[r], seen[r] \o wire[r] \o queue[r])

(* The output of a tool is shown in the panel of its own call, though the  *)
(* panel learns which task it stands for only from that output.  (A panel  *)
(* for call 0 holds the output of a tool the page was not told of; where a *)
(* full queue dropped a tool_call, output does go astray.)                 *)
OutputInOwnPanel ==
  ~tangled /\ ~crossed /\ NoneFull => \A i \in DOMAIN view.panels :
    /\ Cardinality(view.panels[i].outs) <= 1
    /\ view.panels[i].call # 0 => view.panels[i].outs \subseteq {view.panels[i].call}

(* Once the page says the turn is done, no tool is shown as running.       *)
DoneIsSettled ==
  ~tangled /\ ~crossed /\ NoneFull /\ view.status = "done"
    => \A i \in DOMAIN view.panels : view.panels[i].status # "running"

(* While no connection breaks, the server stays up and no late rejection   *)
(* is taken for that of another message, a page never runs two turns of    *)
(* its session at once: it does not let the user send before the last turn *)
(* has written its messages.  (A turn that publishes turn_error is also    *)
(* answered 503: where the button is used in between, that answer frees it *)
(* while the next turn runs.)                                              *)
PageTakesTurns == cuts = 0 /\ restarts = 0 /\ ~crossed => ~tangled

(* The page is always done with a message at last, whatever fails, but for *)
(* a stream that went away silently or dropped an event.                   *)
SendReturnsUnlessLost ==
  sending ~> (~sending \/ \E r \in Turn : stream[r] = "lost" \/ full[r])
=============================================================================
