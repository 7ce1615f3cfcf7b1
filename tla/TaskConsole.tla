---------------------------- MODULE TaskConsole ----------------------------
(***************************************************************************)
(* The task console of the web client (web/app/console/console-client.tsx) *)
(* over the interface it is written against (web/lib/mock-api.ts): a page  *)
(* that submits a tool call to a machine, asks for its state every second, *)
(* shows the result and cancels it.  What a click sets is rendered, with   *)
(* its effects, before anything else happens; what an answer sets is       *)
(* rendered later, and the polling effect is cleaned up and run again only *)
(* then (Rerun): answers that come first are heard by the former effect.   *)
(*                                                                         *)
(* Of a task's tool and payload, what is kept is whether the server takes  *)
(* them (ToolForm); its status is "active" until it is completed or        *)
(* cancelled.  The list of the machine's tasks is not kept: whatever its   *)
(* age, each of its rows is a task the server has, and the user may cancel *)
(* any of them.                                                            *)
(***************************************************************************)
EXTENDS ApiCalls, ToolForm

CONSTANTS
  Machine,
  MaxTasks,   \* bound: submissions
  MaxMoves    \* bound: changes of the selected machine

ASSUME ConsoleAssumption == MaxTasks \in Nat /\ MaxMoves \in Nat /\ "" \notin Machine

VARIABLES
  rows,        \* the server's tasks; a task's id is its place
  desktop,     \* the page runs in the desktop client
  selected,    \* selectedMachineId
  active,      \* activeTaskId
  shown,       \* activeTask
  output,      \* activeOutput: the task whose output it is
  effect,      \* what the polling effect was last run for: its closure
  ticking,     \* the interval of the polling effect is set
  notified,    \* notifiedTaskId
  submitting,
  cancelling,
  notices,     \* notices[t]: desktop notifications about t (history)
  repeats,     \* those that a former effect made of what was told (history)
  submits,     \* submissions so far (history)
  overtaken,   \* an answer came after a later one (history)
  moves

consolePage == <<selected, active, shown, output, effect, ticking, notified, submitting,
                 cancelling, notices, repeats, submits, overtaken, moves>>
consoleVars == <<rows, desktop, consolePage, apiVars>>

Task == 1 .. MaxTasks
NoTask == 0
Final == {"completed", "cancelled"}
Nothing == [id |-> NoTask, status |-> "none"]

(* The polling effect's dependencies; refreshHistory is another function   *)
(* for each machine.                                                       *)
Deps == [task |-> active, told |-> notified, machine |-> selected]

ConsoleInit ==
  /\ rows = <<>> /\ desktop \in BOOLEAN
  /\ selected = ""
  /\ active = NoTask /\ shown = Nothing /\ output = NoTask
  /\ notified = NoTask /\ effect = Deps
  /\ ticking = FALSE /\ submitting = FALSE /\ cancelling = FALSE
  /\ notices = [t \in Task |-> 0] /\ repeats = notices
  /\ submits = 0 /\ overtaken = FALSE /\ moves = 0
  /\ calls = <<>> /\ fails = 0

----------------------------------------------------------------------------
(* The server.                                                             *)

(* materializeTask: three seconds after it was created.                    *)
Complete(t) ==
  /\ t \in DOMAIN rows /\ rows[t].status = "active"
  /\ rows' = [rows EXCEPT ![t].status = "completed"]
  /\ UNCHANGED <<desktop, consolePage, apiVars>>

(* createTask, or one of its refusals: a payload that is not valid, a      *)
(* machine that went offline.                                              *)
ServeCreate(i) ==
  /\ Is(i, "create", "out")
  /\ \/ /\ calls[i].arg[2]
        /\ rows' = Append(rows, [status |-> "active", submit |-> submits])
        /\ Answer(i, TRUE, [id |-> Len(rows'), status |-> "active"])
     \/ /\ Answer(i, FALSE, NoBody)
        /\ UNCHANGED rows
  /\ UNCHANGED <<desktop, consolePage>>

(* The routes of one task and of its output.                               *)
ServeRead(i) ==
  /\ \/ Is(i, "get", "out") /\ Answer(i, TRUE, [id |-> calls[i].arg[1], status |-> rows[calls[i].arg[1]].status])
     \/ Is(i, "output", "out") /\ Answer(i, TRUE, NoBody)
  /\ UNCHANGED <<rows, desktop, consolePage>>

CanBeCancelled(t) == rows[t].status \notin Final

(* cancelTask.                                                             *)
ServeCancel(i) ==
  /\ Is(i, "cancel", "out")
  /\ LET t == calls[i].arg[1] IN
     \/ /\ CanBeCancelled(t)
        /\ rows' = [rows EXCEPT ![t].status = "cancelled"]
        /\ Answer(i, TRUE, [id |-> t, status |-> "cancelled"])
     \/ /\ ~CanBeCancelled(t)
        /\ Answer(i, FALSE, NoBody)
        /\ UNCHANGED rows
  /\ UNCHANGED <<desktop, consolePage>>

----------------------------------------------------------------------------
(* The page's effects.                                                     *)

(* What the polling effect asks for.                                       *)
IsPoll(c) == c.op \in {"get", "output"}

(* Mutant: the former effect's polls are heard too.                        *)
KeepPolls(cs) == cs

(* The polling effect's cleanup: what its polls bring is not looked at.    *)
(* (What else is on its way is one creation and one cancellation at most,  *)
(* in whatever order.)                                                     *)
StopPolls(cs) == SetToSeq({c \in ToSet(cs) : ~IsPoll(c)})

(* The polling effect runs again, for task t.                              *)
Repoll(cs, t) == StopPolls(cs) \o (IF t = NoTask THEN <<>> ELSE <<Request("get", <<t>>)>>)

(* The render after an answer: its effect cleans up the former polls.      *)
Rerun ==
  /\ effect # Deps
  /\ effect' = Deps
  /\ calls' = Repoll(calls, active)
  /\ ticking' = (active # NoTask)
  /\ UNCHANGED <<rows, desktop, selected, active, shown, output, notified, submitting,
                 cancelling, notices, repeats, submits, overtaken, moves, fails>>

(* The user picks a machine, or refreshMachines brings another list of the *)
(* machines that are online (any list) and the selection follows it.       *)
ChangeMachine(m) ==
  /\ moves < MaxMoves /\ moves' = moves + 1
  /\ m # selected
  /\ selected' = m
  /\ UNCHANGED <<rows, desktop, active, shown, output, effect, ticking, notified, submitting,
                 cancelling, notices, repeats, submits, overtaken, apiVars>>

(* The interval of one second.                                             *)
Tick ==
  /\ ticking
  /\ Cardinality({i \in DOMAIN calls : calls[i].op = "get"}) < 2   \* bound
  /\ calls' = Append(calls, Request("get", <<effect.task>>)) /\ Fits
  /\ UNCHANGED <<rows, desktop, consolePage, fails>>

----------------------------------------------------------------------------
(* The polls.                                                              *)

(* Mutant: the first answer ends the polling.                              *)
StillTicksNever(i) == FALSE

(* A poll that fails ends the polling.                                     *)
StillTicks(i) == ticking /\ calls[i].ok

(* pollTask: the answer to getTask.                                        *)
HearTask(i) ==
  /\ Is(i, "get", "back")
  /\ LET t == calls[i].arg[1]
         status == calls[i].body.status IN
     /\ ticking' = StillTicks(i)
     /\ IF ~calls[i].ok
        THEN /\ calls' = Without(i, <<>>)
             /\ UNCHANGED <<shown, overtaken>>
        ELSE /\ shown' = [id |-> t, status |-> status]
             /\ overtaken' = (overtaken \/ (shown.id = t /\ shown.status \in Final /\ status = "active"))
             /\ calls' = Without(i, IF status \in Final THEN <<Request("output", <<t>>)>> ELSE <<>>)
  /\ UNCHANGED <<rows, desktop, selected, active, output, effect, notified, submitting,
                 cancelling, notices, repeats, submits, moves, fails>>

(* Mutant: the page does not keep what it announced.                       *)
ToAnnounceAlways(t) == desktop

(* The test is on the closure's notifiedTaskId, which all polls of one     *)
(* effect share.                                                           *)
ToAnnounce(t) == desktop /\ effect.told # t

(* pollTask: the answer to getTaskOutput.  It ends the interval; what it   *)
(* announced is state the effect depends on, which will run again.         *)
HearOutput(i) ==
  /\ Is(i, "output", "back")
  /\ LET t == calls[i].arg[1]
         announce == calls[i].ok /\ ToAnnounce(t)
         again == announce /\ notified = t /\ effect.told # t IN
     /\ output' = IF calls[i].ok THEN t ELSE output
     /\ notified' = IF announce THEN t ELSE notified
     /\ notices' = IF announce THEN [notices EXCEPT ![t] = @ + 1] ELSE notices
     /\ repeats' = IF again THEN [repeats EXCEPT ![t] = @ + 1] ELSE repeats
  /\ calls' = Without(i, <<>>)
  /\ ticking' = FALSE
  /\ UNCHANGED <<rows, desktop, selected, active, shown, effect, submitting, cancelling,
                 submits, overtaken, moves, fails>>

----------------------------------------------------------------------------
(* What the user does.                                                     *)

(* The form's button, free in the render that has the created task.        *)
CanSubmit == selected # "" /\ ~submitting /\ effect.task = active

(* submitTask, to its await, and the render of what it set: the former     *)
(* task stays the one that is polled, and is polled anew if it was         *)
(* announced.                                                              *)
SubmitTask ==
  /\ submits < MaxTasks /\ submits' = submits + 1
  /\ CanSubmit
  /\ submitting' = TRUE
  /\ shown' = Nothing /\ output' = NoTask /\ notified' = NoTask
  /\ effect' = [effect EXCEPT !.told = NoTask]
  /\ \E accepted \in Verdicts :
       calls' = (IF effect' = effect THEN calls ELSE Repoll(calls, active))
                \o <<Request("create", <<selected, accepted>>)>>
  /\ Fits
  /\ ticking' = (ticking \/ (effect' # effect /\ active # NoTask))
  /\ UNCHANGED <<rows, desktop, selected, active, cancelling, notices, repeats, overtaken,
                 moves, fails>>

HearCreated(i) ==
  /\ Is(i, "create", "back")
  /\ submitting' = FALSE
  /\ active' = IF calls[i].ok THEN calls[i].body.id ELSE active
  /\ calls' = Without(i, <<>>)
  /\ UNCHANGED <<rows, desktop, selected, shown, output, effect, ticking, notified, cancelling,
                 notices, repeats, submits, overtaken, moves, fails>>

(* A cancel button: of the result, or of a row of the list.                *)
CanCancel(t) == ~cancelling /\ t \in DOMAIN rows

(* handleCancelTask.                                                       *)
CancelTask(t) ==
  /\ CanCancel(t)
  /\ cancelling' = TRUE
  /\ calls' = Append(calls, Request("cancel", <<t>>)) /\ Fits
  /\ UNCHANGED <<rows, desktop, selected, active, shown, output, effect, ticking, notified,
                 submitting, notices, repeats, submits, overtaken, moves, fails>>

(* A refusal changes nothing that is shown of the task.                    *)
HearCancelled(i) ==
  /\ Is(i, "cancel", "back")
  /\ cancelling' = FALSE
  /\ shown' = IF calls[i].ok /\ shown.id = calls[i].arg[1]
              THEN [shown EXCEPT !.status = "cancelled"] ELSE shown
  /\ calls' = Without(i, <<>>)
  /\ UNCHANGED <<rows, desktop, selected, active, output, effect, ticking, notified, submitting,
                 notices, repeats, submits, overtaken, moves, fails>>

LostConsole(i) == NeverArrives(i) /\ UNCHANGED <<rows, desktop, consolePage>>

ServeConsole(i) == ServeCreate(i) \/ ServeRead(i) \/ ServeCancel(i)

HearConsole(i) == HearTask(i) \/ HearOutput(i) \/ HearCreated(i) \/ HearCancelled(i)

ConsoleNext ==
  \/ \E t \in Task : Complete(t) \/ CancelTask(t)
  \/ \E i \in DOMAIN calls : ServeConsole(i) \/ LostConsole(i) \/ HearConsole(i)
  \/ \E m \in Machine \cup {""} : ChangeMachine(m)
  \/ Rerun \/ Tick \/ SubmitTask

ConsoleSpec == ConsoleInit /\ [][ConsoleNext]_consoleVars

(* A task ends, React renders, the polling interval fires, and polls are   *)
(* answered and heard, whatever else the user asks for meanwhile.          *)
ConsoleFairSpec ==
  /\ ConsoleSpec
  /\ WF_consoleVars(\E t \in Task : Complete(t))
  /\ WF_consoleVars(\E i \in DOMAIN calls : IsPoll(calls[i]) /\ (ServeConsole(i) \/ HearConsole(i)))
  /\ WF_consoleVars(Rerun) /\ WF_consoleVars(Tick)

----------------------------------------------------------------------------
(* Properties.                                                             *)

(* Once the effect polls another task, no answer about the former brings   *)
(* it, or its output, back into the result panel, however late it comes    *)
(* (pollTask's stopped).  Between setActiveTaskId and that effect the      *)
(* former task's answers are still shown.                                  *)
FormerTaskStaysAway ==
  [][/\ shown' # shown => shown'.id \in {NoTask, shown.id, effect'.task}
     /\ output' # output => output' \in {NoTask, effect'.task}]_consoleVars

(* A task is announced at most once for each time the user submits, its    *)
(* own submission first, and only the polls of an effect that is yet to be *)
(* cleaned up repeat it: two of them answered back to back both test the   *)
(* notifiedTaskId of their closure (console-client.tsx 239, 258-264).      *)
(* No effect that was run after the announcement repeats it.  (A later     *)
(* submission makes the page forget: submitTask resets notifiedTaskId      *)
(* while the former task is still the active one.)                         *)
AnnouncedOncePerSubmission ==
  \A t \in DOMAIN rows : notices[t] <= submits - rows[t].submit + 1 + repeats[t]

LastSubmitted(t) == t \in DOMAIN rows /\ rows[t].submit = submits

(* A task that was submitted is in the end shown with its final status,    *)
(* unless the user submits again, a request fails (a poll that fails ends  *)
(* the polling), or an old answer overtakes the last one, which nothing    *)
(* corrects in a browser.                                                  *)
ResultIsShown ==
  \A t \in Task :
    (active = t /\ LastSubmitted(t)) ~>
      \/ shown.id = t /\ shown.status \in Final
      \/ ~LastSubmitted(t) \/ fails > 0 \/ overtaken
=============================================================================
