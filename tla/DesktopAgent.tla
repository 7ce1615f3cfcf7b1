---------------------------- MODULE DesktopAgent ----------------------------
(***************************************************************************)
(* The coding agent of the desktop client: the agent loop of               *)
(* web/lib/desktop-agent.ts and the page that runs it,                     *)
(* web/app/desktop-agent/page.tsx.  The page keeps several conversations   *)
(* in the browser's storage and shows one; a turn goes on while the user   *)
(* does other things.  A render and its effects are part of the step that  *)
(* causes them: what the page shows of a conversation is what is stored.   *)
(*                                                                         *)
(* Text, the file tree and its preview are left out; of the transcript the *)
(* cards of the tools and of the approvals are kept.                       *)
(***************************************************************************)
EXTENDS Naturals, Sequences, FiniteSets, SequencesExt

CONSTANTS
  Session,   \* conversations
  First,     \* the one the storage starts with
  Turn,      \* messages the user sends, numbered in that order
  Kind,      \* tool names; read_file stands for list_files too, and "unknown" for
             \* any other name
  MaxSteps,  \* the loop's limit (12 in the code)
  MaxCalls,  \* bound: tool calls that the model makes in all
  MaxMoves   \* bound: times the user changes the conversation or the page

ASSUME DesktopAssumption ==
  /\ First \in Session /\ Turn \subseteq Nat
  /\ Kind \subseteq {"run_command", "write_file", "read_file", "unknown"}
  /\ MaxSteps \in Nat \ {0} /\ MaxCalls \in Nat /\ MaxMoves \in Nat

VARIABLES
  page,      \* the page is mounted
  folder,    \* a project folder is chosen (kept by the Rust side)
  known,     \* sessionStore.sessions, the newest first
  active,    \* sessionStore.activeSessionId
  messages,  \* messages[s]: agentMessages, what the model is sent
  cards,     \* cards[s]: the tool and approval items of chatItems
  auto,      \* autoApprove
  sending,
  resolver,  \* approvalResolvers: the calls whose promise this page can settle
  turn,      \* turn[t]: runDesktopAgentTurn, see Fresh
  said,      \* said[s]: what the turns sent in s said, in order (history)
  crossed,   \* turns that did not end where they began (history)
  moves,
  asked      \* tool calls the model has made; the next one's id

vars == <<page, folder, known, active, messages, cards, auto, sending, resolver,
          turn, said, crossed, moves, asked>>

(* AgentChatMessage: the turn that wrote it, and the tool calls it makes   *)
(* (an assistant's) or answers (a tool's).                                 *)
Row(role, t, calls) == [role |-> role, turn |-> t, calls |-> calls]

(* ChatItem, of the kinds kept: a tool's is running, settled or denied, an *)
(* approval's pending, allowed or denied.                                  *)
Card(kind, t, id, status) == [kind |-> kind, turn |-> t, id |-> id, status |-> status]

(* A turn: where it is, whether its page is still there, whether it was    *)
(* stopped, the consent it was given, the conversation it was sent in and  *)
(* what that held, its own rows, the calls still to make and the replies  *)
(* had.                                                                    *)
Fresh == [pc |-> "none", live |-> FALSE, stop |-> FALSE, auto |-> FALSE,
          home |-> First, base |-> <<>>, rows |-> <<>>, todo |-> <<>>,
          steps |-> 0, end |-> "none"]

Busy(t) == turn[t].pc \notin {"none", "ended"}
Live(t) == Busy(t) /\ turn[t].live
InCall(r) == r.pc \in {"approve", "before", "run"}

Init ==
  /\ page = TRUE /\ folder = FALSE
  /\ known = <<First>> /\ active = First
  /\ messages = [s \in Session |-> <<>>]
  /\ cards = [s \in Session |-> {}]
  /\ auto = FALSE /\ sending = FALSE /\ resolver = {}
  /\ turn = [t \in Turn |-> Fresh]
  /\ said = [s \in Session |-> <<>>]
  /\ crossed = {} /\ moves = 0 /\ asked = 0

----------------------------------------------------------------------------
(* The loop.                                                               *)

Ends(r, how) == [r EXCEPT !.pc = "ended", !.end = how]

(* Its locals are gone with it.                                            *)
Over(r) == [Fresh EXCEPT !.pc = "ended", !.end = r.end]

(* Mutant: the approval is an option that is not looked at.                *)
BeginCallUnasked(r) ==
  CASE Head(r.todo).kind = "unknown" -> Ends(r, "failed")
    [] Head(r.todo).kind = "write_file" -> [r EXCEPT !.pc = "before"]
    [] OTHER -> [r EXCEPT !.pc = "run"]

(* executeToolCall up to its first await; the name is looked up outside    *)
(* the try block.                                                          *)
BeginCall(r) ==
  LET kind == Head(r.todo).kind IN
  CASE kind = "unknown" -> Ends(r, "failed")
    [] kind = "run_command" /\ ~r.auto -> [r EXCEPT !.pc = "approve"]
    [] kind = "write_file" -> [r EXCEPT !.pc = "before"]
    [] OTHER -> [r EXCEPT !.pc = "run"]

LastRound(r) == r.steps >= MaxSteps

(* From the top of the loop over the calls of a reply: the next of them,   *)
(* or the next round.                                                      *)
Advance(r) ==
  CASE r.todo # <<>> /\ r.stop -> Ends(r, "user")
    [] r.todo # <<>> /\ ~r.stop -> BeginCall(r)
    [] r.todo = <<>> /\ LastRound(r) -> Ends(r, "max_steps")
    [] r.todo = <<>> /\ ~LastRound(r) /\ r.stop -> Ends(r, "user")
    [] OTHER -> [r EXCEPT !.pc = "model"]

(* A reply: its row, its calls; one without calls is the last.             *)
Heard(r, t, kinds) ==
  LET ids == {asked + i : i \in DOMAIN kinds}
      next == [r EXCEPT !.rows = Append(@, Row("assistant", t, ids)),
                        !.todo = [i \in DOMAIN kinds |-> [id |-> asked + i, kind |-> kinds[i]]],
                        !.steps = @ + 1]
  IN IF kinds = <<>> THEN Ends(next, "done") ELSE Advance(next)

(* Mutant: an answer that no row keeps.                                    *)
AnsweredUnkept(r, t) == Advance([r EXCEPT !.todo = Tail(@)])

(* A result is a row of its own.                                           *)
Answered(r, t) ==
  Advance([r EXCEPT !.rows = Append(@, Row("tool", t, {Head(r.todo).id})),
                    !.todo = Tail(@)])

----------------------------------------------------------------------------
(* What the page makes of the loop.                                        *)

(* upsertToolEvent, requestCommandApproval: a card of that kind for that   *)
(* call is replaced, in the conversation that is shown.                    *)
Put(set, new) ==
  {c \in set : ~\E n \in new : n.kind = c.kind /\ n.turn = c.turn /\ n.id = c.id} \cup new

Begun(r, t) ==
  IF ~InCall(r) THEN {}
  ELSE {Card("tool", t, Head(r.todo).id, "running")} \cup
       (IF r.pc = "approve" THEN {Card("approval", t, Head(r.todo).id, "pending")} ELSE {})

Returns(r) == r.pc = "ended" /\ r.end # "failed"

(* Mutant: the button comes back after a turn that returned, not after one *)
(* that threw.                                                             *)
StillSendingIfThrown(r) == sending /\ ~(r.live /\ Returns(r))

(* "finally": the button comes back.                                       *)
StillSending(r) == sending /\ ~(r.live /\ r.pc = "ended")

(* The events of a step, then, if it was the last, the rest of handleSend: *)
(* the rows replace those of the conversation shown, unless it threw.  A   *)
(* page that is gone takes none of it.                                     *)
Follow(t, r, shown, settled) ==
  /\ turn' = [turn EXCEPT ![t] = IF r.pc = "ended" THEN Over(r) ELSE r]
  /\ cards' = IF r.live THEN [cards EXCEPT ![active] = Put(@, shown \cup Begun(r, t))] ELSE cards
  /\ messages' = IF Returns(r) /\ r.live THEN [messages EXCEPT ![active] = r.base \o r.rows]
                 ELSE messages
  /\ said' = IF Returns(r) THEN [said EXCEPT ![r.home] = @ \o r.rows] ELSE said
  /\ sending' = StillSending(r)
  /\ resolver' = (resolver \ settled) \cup
                 (IF r.live /\ r.pc = "approve" THEN {<<t, Head(r.todo).id>>} ELSE {})

CanSend == page /\ folder /\ ~sending

(* Mutant: a turn begins a conversation.                                   *)
NoContext == <<>>

(* agentMessages, as the render that holds the form knew it.               *)
Context == messages[active]

(* handleSend, up to the model's first answer.                             *)
SendMessage(t) ==
  /\ CanSend
  /\ turn[t] = Fresh /\ \A u \in Turn : u < t => turn[u] # Fresh
  /\ sending' = TRUE
  /\ turn' = [turn EXCEPT ![t] =
       [Fresh EXCEPT !.pc = "model", !.live = TRUE, !.auto = auto, !.home = active,
                     !.base = Context, !.rows = <<Row("user", t, {})>>]]
  /\ UNCHANGED <<page, folder, known, active, messages, cards, auto, resolver, said, crossed, moves, asked>>

Replies(most) == UNION {[1 .. n -> Kind] : n \in 0 .. most}

ModelReply(t) ==
  /\ turn[t].pc = "model"
  /\ \E kinds \in Replies(MaxCalls - asked) :
       /\ Follow(t, Heard(turn[t], t, kinds), {}, {})
       /\ asked' = asked + Len(kinds)
  /\ UNCHANGED <<page, folder, known, active, auto, crossed, moves>>

(* agent_model_chat rejects: the turn is over and its rows are dropped.    *)
ModelFails(t) ==
  /\ turn[t].pc = "model"
  /\ Follow(t, Ends(turn[t], "failed"), {}, {})
  /\ UNCHANGED <<page, folder, known, active, auto, crossed, moves, asked>>

(* The buttons of a pending card of the conversation shown.                *)
CanDecide(t, id) == Card("approval", t, id, "pending") \in cards[active]

(* resolveApproval; the page must hold the resolver.                       *)
Decide(t, allowed) ==
  LET id == Head(turn[t].todo).id
      decided == Card("approval", t, id, IF allowed THEN "allowed" ELSE "denied") IN
  /\ turn[t].pc = "approve"
  /\ <<t, id>> \in resolver
  /\ CanDecide(t, id)
  /\ \/ /\ allowed
        /\ Follow(t, [turn[t] EXCEPT !.pc = "run"], {decided}, {<<t, id>>})
     \/ /\ ~allowed
        /\ Follow(t, Answered(turn[t], t), {decided, Card("tool", t, id, "denied")}, {<<t, id>>})
  /\ UNCHANGED <<page, folder, known, active, auto, crossed, moves, asked>>

(* write_file reads the file first; that it cannot is no error.            *)
ReadBefore(t) ==
  /\ turn[t].pc = "before"
  /\ turn' = [turn EXCEPT ![t].pc = "run"]
  /\ UNCHANGED <<page, folder, known, active, messages, cards, auto, sending, resolver, said, crossed, moves, asked>>

(* The Rust command returns, or rejects: its error is the result.          *)
ToolReturns(t) ==
  /\ turn[t].pc = "run"
  /\ Follow(t, Answered(turn[t], t), {Card("tool", t, Head(turn[t].todo).id, "settled")}, {})
  /\ UNCHANGED <<page, folder, known, active, auto, crossed, moves, asked>>

----------------------------------------------------------------------------
(* What the user does meanwhile.                                           *)

(* Escape, or the stop button, while a turn is on.                         *)
StopTurn(t) ==
  /\ sending
  /\ Live(t) /\ ~turn[t].stop
  /\ turn' = [turn EXCEPT ![t].stop = TRUE]
  /\ UNCHANGED <<page, folder, known, active, messages, cards, auto, sending, resolver, said, crossed, moves, asked>>

(* The box over the conversation; a turn goes by what it was at its start. *)
TickAuto ==
  /\ page
  /\ ~auto   \* bound: ticked only
  /\ auto' = TRUE
  /\ UNCHANGED <<page, folder, known, active, messages, cards, sending, resolver, turn, said, crossed, moves, asked>>

(* handleOpenWorkspace.                                                    *)
OpenWorkspace ==
  /\ page /\ ~folder   \* bound: opened once
  /\ folder' = TRUE
  /\ UNCHANGED <<page, known, active, messages, cards, auto, sending, resolver, turn, said, crossed, moves, asked>>

(* handleNewSession, handleSelectSession: the other conversation is shown; *)
(* a turn that is on goes on.                                              *)
Show(s) ==
  /\ active' = s
  /\ crossed' = crossed \cup {t \in Turn : Live(t)}
  /\ moves < MaxMoves /\ moves' = moves + 1

NewSession(s) ==
  /\ page
  /\ s \notin ToSet(known)
  /\ known' = <<s>> \o known
  /\ Show(s)
  /\ UNCHANGED <<page, folder, messages, cards, auto, sending, resolver, turn, said, asked>>

SelectSession(s) ==
  /\ page
  /\ s \in ToSet(known) \ {active}
  /\ Show(s)
  /\ UNCHANGED <<page, folder, known, messages, cards, auto, sending, resolver, turn, said, asked>>

(* The page's state, as it is mounted: it shows the first conversation of  *)
(* the storage and holds no resolver.  (It also asks the Rust side for the *)
(* folder, which only delays the first message.)                           *)
Mounted ==
  /\ active' = Head(known)
  /\ page' = TRUE
  /\ auto' = FALSE /\ sending' = FALSE /\ resolver' = {}

(* Another page of the client: the loop goes on, with nobody to hear it.   *)
LeavePage ==
  /\ page
  /\ page' = FALSE /\ resolver' = {} /\ sending' = FALSE
  /\ turn' = [t \in Turn |-> [turn[t] EXCEPT !.live = FALSE]]
  /\ crossed' = crossed \cup {t \in Turn : Live(t)}
  /\ moves < MaxMoves /\ moves' = moves + 1
  /\ UNCHANGED <<folder, known, active, messages, cards, auto, said, asked>>

EnterPage ==
  /\ ~page
  /\ Mounted
  /\ UNCHANGED <<folder, known, messages, cards, turn, said, crossed, moves, asked>>

(* The window is loaded again: the loops are gone, the storage is kept.    *)
Reload ==
  /\ page
  /\ Mounted
  /\ turn' = [t \in Turn |-> IF Busy(t) THEN Over(Ends(turn[t], "gone")) ELSE turn[t]]
  /\ crossed' = crossed \cup {t \in Turn : Live(t)}
  /\ moves < MaxMoves /\ moves' = moves + 1
  /\ UNCHANGED <<folder, known, messages, cards, said, asked>>

Loop(t) ==
  \/ ModelReply(t)
  \/ ModelFails(t)
  \/ ReadBefore(t)
  \/ ToolReturns(t)

Next ==
  \/ \E t \in Turn : \/ SendMessage(t)
                     \/ Loop(t)
                     \/ \E allowed \in BOOLEAN : Decide(t, allowed)
                     \/ StopTurn(t)
  \/ \E s \in Session : NewSession(s) \/ SelectSession(s)
  \/ TickAuto \/ OpenWorkspace \/ LeavePage \/ EnterPage \/ Reload

Spec == Init /\ [][Next]_vars

(* The model's gateway answers or fails, a tool returns, and a user who    *)
(* can see an open question answers it.  Nothing makes the user stop,      *)
(* move, or send.                                                          *)
FairSpec ==
  /\ Spec
  /\ WF_vars(\E t \in Turn : Loop(t))
  /\ SF_vars(\E t \in Turn, allowed \in BOOLEAN : Decide(t, allowed))

----------------------------------------------------------------------------
(* Properties.                                                             *)

Rows(s) == ToSet(messages[s])

(* The conversation a later turn sends to the model answers every call its *)
(* assistant rows make, except the calls of a turn the user stopped: a     *)
(* stop between two calls (runDesktopAgentTurn) leaves the rest without a  *)
(* tool row, for every later request to carry.                             *)
UnansweredOnlyIfStopped ==
  \A s \in Session : \A row \in Rows(s) : row.role = "assistant" =>
    \A id \in row.calls :
      \/ \E answer \in Rows(s) : answer.role = "tool" /\ answer.turn = row.turn /\ id \in answer.calls
      \/ turn[row.turn].end = "user"

(* A command runs only in a turn sent with the box ticked, or after the    *)
(* user allowed that very call: not because of another call's card, a      *)
(* switch of conversation, or a page that went away while it was asked.    *)
CommandWasAllowed ==
  \A t \in Turn :
    (turn[t].pc = "run" /\ Head(turn[t].todo).kind = "run_command") =>
      \/ turn[t].auto
      \/ \E s \in Session : Card("approval", t, Head(turn[t].todo).id, "allowed") \in cards[s]

(* If no turn was on while the user changed the conversation or the page,  *)
(* each conversation is what its own turns said, in order, without those   *)
(* that failed.  (A turn that is on then ends in the conversation it finds *)
(* on the page, and replaces what was said there.)                         *)
ConversationIsItsTurns == crossed = {} => messages = said

(* A turn comes to its end, unless it waits for the answer to a card in a  *)
(* conversation that the user has left (and then every other conversation  *)
(* is kept from sending, and a stop does not help).                        *)
AsksOutOfSight ==
  \E t \in Turn :
    /\ Live(t) /\ turn[t].pc = "approve"
    /\ ~CanDecide(t, Head(turn[t].todo).id)

TurnComesToItsEnd == sending ~> (~sending \/ AsksOutOfSight)
=============================================================================
