-------------------------- MODULE ChatPage_proofs --------------------------
(***************************************************************************)
(* What SessionTurn and ChatPage promise, for any number of turns, model   *)
(* calls, tool calls, events, restarts and broken connections.  First the  *)
(* turns by themselves (TurnSpec), then the page over them (Spec).         *)
(***************************************************************************)
EXTENDS ChatPage, SequenceTheorems, FiniteSetTheorems, WellFoundedInduction, TLAPS

USE DEF Goto, Quiet

(* Answering a reply's tool calls.                                         *)
Calling == {"running", "approving", "result", "auditing"}

(* The seq of the last tool message of r that is stored, and the one the   *)
(* last tool call of its reply is going to have.                           *)
Answered(r) == IF tpc[r] = "result" THEN last[r] - 1 ELSE last[r]
Ahead(r) ==
  CASE tpc[r] \in {"running", "approving"} -> last[r] + Len(todo[r])
    [] tpc[r] \in {"result", "auditing"} -> last[r] + Len(todo[r]) - 1
    [] OTHER -> last[r]

IsReply(m, r) == m.turn = r /\ m.role = "assistant"
HasAnswer(m, i) == \E t \in rows : t.role = "tool" /\ t.turn = m.turn /\ t.seq = m.seq + i

Types == TurnTypeOK /\ \A r \in Turn : tpc[r] \in Calling => todo[r] # <<>>

(* A turn amid tool calls has stored the reply that asked for them.        *)
ReplyOf(r) ==
  tpc[r] \in Calling =>
    \E m \in rows : IsReply(m, r) /\ m.seq <= Answered(r) /\ m.seq + m.calls = Ahead(r)

(* The calls of every reply are answered in order, up to the last answer.  *)
AnswersOf(r) ==
  \A m \in rows : IsReply(m, r) /\ tpc[r] \notin Over =>
    /\ tpc[r] # "idle"
    /\ m.seq + m.calls <= Ahead(r)
    /\ \A i \in 1 .. m.calls : m.seq + i <= Answered(r) => HasAnswer(m, i)

Asked(x) ==
  \E m \in rows : IsReply(m, x[1]) /\ m.seq < x[2] /\ x[2] <= m.seq + m.calls

Accounted(x, r) ==
  \/ x \in audits
  \/ tpc[r] = "running" /\ x[2] = last[r] + 1
  \/ tpc[r] \in {"result", "auditing"} /\ x[2] = last[r]
  \/ tpc[r] = "killed"

(* What r ran was asked for and is accounted for; and r, which had a call  *)
(* whose arguments were JSON, knows it.                                    *)
RunsOf(r) ==
  \A x \in ran : x[1] = r =>
    /\ tpc[r] # "idle"
    /\ tpc[r] \in Over \/ parsed[r]
    /\ Asked(x)
    /\ Accounted(x, r)

Sound(r) == ReplyOf(r) /\ AnswersOf(r) /\ RunsOf(r)

TurnInv == Types /\ \A r \in Turn : Sound(r)

LEMMA InitTurns == TurnInit => TurnInv
<1> SUFFICES ASSUME TurnInit PROVE TurnInv
  OBVIOUS
<1>1. TurnTypeOK
  <2>1. /\ rows = {} /\ audits = {} /\ ran = {} /\ tangled = FALSE /\ restarts = 0
        /\ context = [r \in Turn |-> {}]
        /\ todo = [r \in Turn |-> <<>>]
    BY DEF TurnInit
  <2>2. todo \in [Turn -> Seq(CallKind)] /\ context \in [Turn -> SUBSET rows]
    BY <2>1
  <2>3. /\ tpc \in [Turn -> TurnPC] /\ last \in [Turn -> Nat] /\ steps \in [Turn -> 0 .. MaxSteps]
        /\ outcome \in [Turn -> Outcome] /\ outputs \in [Turn -> Nat]
        /\ parsed \in [Turn -> BOOLEAN]
    BY TurnAssumption DEF TurnInit, TurnPC, Outcome
  <2> QED BY <2>1, <2>2, <2>3 DEF TurnTypeOK
<1>2. \A r \in Turn : tpc[r] = "idle"
  BY DEF TurnInit
<1>3. rows = {} /\ ran = {}
  BY DEF TurnInit
<1> QED
  BY <1>1, <1>2, <1>3
  DEF TurnInv, Types, Sound, ReplyOf, AnswersOf, RunsOf, Calling

(* What Enter does, for each kind of call.                                 *)
LEMMA EnterCases ==
  ASSUME NEW r \in Turn, NEW kind \in CallKind, NEW evs, Enter(r, kind, evs)
  PROVE  \/ /\ Goto(r, "running")
            /\ ran' = ran \cup {<<r, last[r] + 1>>}
            /\ last' = last
            /\ parsed' = [parsed EXCEPT ![r] = TRUE]
         \/ /\ Goto(r, "approving")
            /\ UNCHANGED <<ran, last>>
            /\ parsed' = [parsed EXCEPT ![r] = TRUE]
         \/ /\ Goto(r, "result")
            /\ ran' = ran
            /\ last' = [last EXCEPT ![r] = @ + 1]
            /\ parsed' \in {parsed, [parsed EXCEPT ![r] = TRUE]}
BY DEF Enter, CallKind

LEMMA TailProperties ==
  ASSUME NEW S, NEW s \in Seq(S), Len(s) > 1
  PROVE  Tail(s) # <<>> /\ Len(Tail(s)) = Len(s) - 1 /\ s[2] \in S
<1>1. Len(s) \in Nat /\ s # <<>>
  BY LenProperties
<1>2. Len(Tail(s)) = Len(s) - 1
  BY <1>1, HeadTailProperties
<1>3. s[2] \in S
  BY <1>1, ElementOfSeq
<1>4. Len(Tail(s)) # 0
  BY <1>1, <1>2
<1>5. Len(<<>>) = 0
  OBVIOUS
<1>6. Tail(s) # <<>>
  BY <1>4, <1>5, Zenon
<1> QED BY <1>2, <1>3, <1>6

(* Types.  Every step of a turn changes the entries of that turn only.     *)
LEMMA RowTypes ==
  ASSUME Types, NEW r \in Turn
  PROVE  {UserRow(r), AssistantRow(r), ToolRow(r)} \subseteq MessageRow
BY DEF Types, TurnTypeOK, UserRow, AssistantRow, ToolRow, MessageRow

LEMMA HighestType ==
  ASSUME rows \subseteq MessageRow
  PROVE  Highest \subseteq Nat
BY DEF Highest, MessageRow

LEMMA EndTypes ==
  ASSUME Types, NEW r \in Turn, NEW l \in Over, End(r, l),
         rows' \subseteq MessageRow, rows \subseteq rows', UNCHANGED <<audits, ran, tangled, restarts>>
  PROVE  Types'
<1>1. context' \in [Turn -> SUBSET rows'] /\ last' \in [Turn -> Nat] /\ steps' \in [Turn -> 0 .. MaxSteps]
  BY TurnAssumption DEF Types, TurnTypeOK, End
<1>2. todo' \in [Turn -> Seq(CallKind)]
  BY EmptySeq DEF Types, TurnTypeOK, End
<1>3. outcome' \in [Turn -> Outcome] /\ outputs' \in [Turn -> Nat] /\ parsed' \in [Turn -> BOOLEAN]
  BY DEF Types, TurnTypeOK, End, Outcome
<1>4. /\ tpc' \in [Turn -> TurnPC]
      /\ \A q \in Turn : tpc'[q] \in Calling => q # r /\ tpc[q] \in Calling
      /\ \A q \in Turn : q # r => todo'[q] = todo[q]
  BY DEF Types, TurnTypeOK, End, Over, TurnPC, Calling
<1> QED BY <1>1, <1>2, <1>3, <1>4 DEF Types, TurnTypeOK

LEMMA EnterTypes ==
  ASSUME Types, NEW r \in Turn, NEW kind \in CallKind, NEW evs, Enter(r, kind, evs),
         rows' \subseteq MessageRow, rows \subseteq rows', audits' \subseteq Turn \X Nat, todo' \in [Turn -> Seq(CallKind)],
         todo'[r] # <<>>, \A q \in Turn : q # r => todo'[q] = todo[q],
         UNCHANGED <<context, steps, tangled, restarts>>
  PROVE  Types'
<1>1. outcome' \in [Turn -> Outcome] /\ outputs' \in [Turn -> Nat]
  BY DEF Enter, Types, TurnTypeOK, Outcome
<1>2. context' \in [Turn -> SUBSET rows']
  BY DEF Types, TurnTypeOK
<1>3. /\ tpc' \in [Turn -> TurnPC]
      /\ \A q \in Turn : q # r => tpc'[q] = tpc[q]
  BY EnterCases DEF Types, TurnTypeOK, TurnPC
<1>4. last' \in [Turn -> Nat] /\ parsed' \in [Turn -> BOOLEAN]
  <2>1. last \in [Turn -> Nat] /\ parsed \in [Turn -> BOOLEAN]
    BY DEF Types, TurnTypeOK
  <2>2. last' \in {last, [last EXCEPT ![r] = @ + 1]}
    BY EnterCases
  <2>3. parsed' \in {parsed, [parsed EXCEPT ![r] = TRUE]}
    BY EnterCases
  <2>4. last' \in [Turn -> Nat]
    BY <2>1, <2>2
  <2> QED BY <2>1, <2>3, <2>4
<1>5. ran' \subseteq Turn \X Nat
  <2>1. <<r, last[r] + 1>> \in Turn \X Nat /\ ran \subseteq Turn \X Nat
    BY DEF Types, TurnTypeOK
  <2> QED BY <2>1, EnterCases
<1> QED BY <1>1, <1>2, <1>3, <1>4, <1>5 DEF Types, TurnTypeOK

LEMMA StepTypes ==
  ASSUME Types, TurnNext
  PROVE  Types'
<1> USE DEF Types, TurnTypeOK, Calling, TurnPC, Outcome
<1>1. ASSUME NEW r \in Turn, Begin(r) PROVE Types'
  <2>1. last' \in [Turn -> Nat]
    BY <1>1, HighestType DEF Begin
  <2> QED BY <1>1, <2>1 DEF Begin
<1>2. ASSUME NEW r \in Turn, StoreUser(r) PROVE Types'
  BY <1>2, RowTypes DEF StoreUser
<1>3. ASSUME NEW r \in Turn, ReadHistory(r) PROVE Types'
  BY <1>3 DEF ReadHistory
<1>4. ASSUME NEW r \in Turn, StartLoop(r) PROVE Types'
  BY <1>4, TurnAssumption DEF StartLoop
<1>5. ASSUME NEW r \in Turn, NoBackend(r) PROVE Types'
  BY <1>5, EndTypes DEF NoBackend, Over
<1>6. ASSUME NEW r \in Turn, NEW n \in 0 .. MaxCalls, NEW kinds \in [1 .. n -> CallKind],
             Reply(r, kinds)
      PROVE Types'
  <2>1. kinds \in Seq(CallKind)
    BY TurnAssumption
  <2> QED BY <1>6, <2>1 DEF Reply
<1>7. ASSUME NEW r \in Turn, ModelFails(r) PROVE Types'
  BY <1>7, EndTypes DEF ModelFails, Over
<1>8. ASSUME NEW r \in Turn, Malformed(r) PROVE Types'
  BY <1>8, EndTypes DEF Malformed, Over
<1>9. ASSUME NEW r \in Turn, StoreAssistant(r) PROVE Types'
  <2>1. rows' = rows \cup {AssistantRow(r)} /\ AssistantRow(r) \in MessageRow
    BY <1>9, RowTypes DEF StoreAssistant
  <2>2. CASE todo[r] = <<>>
    BY <1>9, <2>1, <2>2 DEF StoreAssistant
  <2>3. CASE todo[r] # <<>>
    <3>1. Head(todo[r]) \in CallKind
      BY <2>3
    <3> QED BY <1>9, <2>1, <2>3, <3>1, EnterTypes DEF StoreAssistant
  <2> QED BY <2>2, <2>3
<1>10. ASSUME NEW r \in Turn, StoreApproval(r) PROVE Types'
  BY <1>10 DEF StoreApproval
<1>11. ASSUME NEW r \in Turn, ToolReturns(r) PROVE Types'
  BY <1>11 DEF ToolReturns
<1>12. ASSUME NEW r \in Turn, StoreTool(r) PROVE Types'
  BY <1>12, RowTypes DEF StoreTool
<1>13. ASSUME NEW r \in Turn, ArgsUnbound(r) PROVE Types'
  <2>1. rows' = rows \cup {ToolRow(r)} /\ ToolRow(r) \in MessageRow
    BY <1>13, RowTypes DEF ArgsUnbound
  <2> QED BY <1>13, <2>1, EndTypes DEF ArgsUnbound, Over
<1>14. ASSUME NEW r \in Turn, StoreAudit(r) PROVE Types'
  <2>1. todo[r] \in Seq(CallKind) /\ todo[r] # <<>> /\ audits' \subseteq Turn \X Nat
    BY <1>14 DEF StoreAudit
  <2>2. todo' = [todo EXCEPT ![r] = Tail(@)] /\ Tail(todo[r]) \in Seq(CallKind)
    BY <1>14, <2>1 DEF StoreAudit, Advance
  <2>3. CASE Len(todo[r]) > 1
    <3>1. todo[r][2] \in CallKind /\ Tail(todo[r]) # <<>>
      BY <2>1, <2>3, TailProperties
    <3>5. /\ Enter(r, todo[r][2], <<>>)
          /\ UNCHANGED <<rows, context, steps, tangled, restarts>>
      BY <1>14, <2>3 DEF StoreAudit, Advance
    <3>6. /\ todo' \in [Turn -> Seq(CallKind)] /\ todo'[r] # <<>>
          /\ \A q \in Turn : q # r => todo'[q] = todo[q]
      BY <2>2, <3>1
    <3> QED BY <2>1, <3>1, <3>5, <3>6, EnterTypes
  <2>4. CASE ~(Len(todo[r]) > 1)
    <3>1. /\ UNCHANGED <<rows, context, last, outputs, parsed, ran, tangled, restarts>>
          /\ outcome' = [outcome EXCEPT ![r] = "none"]
          /\ \/ Goto(r, "asking") /\ steps[r] < MaxSteps /\ steps' = [steps EXCEPT ![r] = @ + 1]
             \/ Goto(r, "finishing") /\ UNCHANGED steps
      BY <1>14, <2>4 DEF StoreAudit, Advance
    <3>2. steps' \in [Turn -> 0 .. MaxSteps] /\ outcome' \in [Turn -> Outcome]
      <4>1. steps \in [Turn -> 0 .. MaxSteps] /\ outcome \in [Turn -> Outcome]
        OBVIOUS
      <4>2. steps[r] < MaxSteps => steps[r] + 1 \in 0 .. MaxSteps
        BY <4>1, TurnAssumption
      <4>3. steps' \in [Turn -> 0 .. MaxSteps]
        BY <3>1, <4>1, <4>2
      <4> QED BY <3>1, <4>1, <4>3
    <3>3. todo' \in [Turn -> Seq(CallKind)] /\ \A q \in Turn : q # r => todo'[q] = todo[q]
      BY <2>2
    <3>4. tpc' \in [Turn -> TurnPC] /\ tpc'[r] \notin Calling /\ \A q \in Turn : q # r => tpc'[q] = tpc[q]
      BY <3>1
    <3> QED BY <2>1, <3>1, <3>2, <3>3, <3>4
  <2> QED BY <2>3, <2>4
<1>15. ASSUME NEW r \in Turn, Finish(r) PROVE Types'
  BY <1>15, EndTypes DEF Finish, Over
<1>16. ASSUME NEW r \in Turn, ToolOutput(r) PROVE Types'
  BY <1>16 DEF ToolOutput
<1>17. ASSUME ServerRestart PROVE Types'
  <2>1. context' \in [Turn -> SUBSET rows'] /\ todo' \in [Turn -> Seq(CallKind)]
    BY <1>17, EmptySeq DEF ServerRestart
  <2>2. /\ tpc' \in [Turn -> TurnPC]
        /\ \A r \in Turn : tpc'[r] \notin Calling
    BY <1>17 DEF ServerRestart, Live, Over
  <2> QED BY <1>17, <2>1, <2>2, TurnAssumption DEF ServerRestart
<1> QED
  BY <1>1, <1>2, <1>3, <1>4, <1>5, <1>6, <1>7, <1>8, <1>9, <1>10, <1>11, <1>12, <1>13, <1>14,
     <1>15, <1>16, <1>17
  DEF TurnNext, TurnStep

----------------------------------------------------------------------------
(* A step of one turn leaves what is said of the others as it is.          *)
LEMMA OtherTurns ==
  ASSUME NEW q \in Turn, Sound(q), rows \subseteq rows', audits \subseteq audits',
         tpc'[q] = tpc[q], last'[q] = last[q], todo'[q] = todo[q], parsed'[q] = parsed[q],
         \A m \in rows' : m.turn = q => m \in rows,
         \A x \in ran' : x[1] = q => x \in ran
  PROVE  Sound(q)'
<1>1. Answered(q)' = Answered(q) /\ Ahead(q)' = Ahead(q)
  BY DEF Answered, Ahead
<1>2. ReplyOf(q)'
  BY <1>1 DEF Sound, ReplyOf
<1>3. AnswersOf(q)'
  BY <1>1 DEF Sound, AnswersOf, IsReply, HasAnswer
<1>4. RunsOf(q)'
  BY DEF Sound, RunsOf, Asked, Accounted
<1> QED BY <1>2, <1>3, <1>4 DEF Sound

(* A turn that ends, killed or not, has accounted for what it ran.         *)
LEMMA EndSound ==
  ASSUME NEW r \in Turn, Sound(r), tpc'[r] \in Over, rows \subseteq rows', audits' = audits, ran' = ran,
         \A x \in ran : x[1] = r => x \in audits \/ tpc'[r] = "killed"
  PROVE  Sound(r)'
<1>1. ReplyOf(r)' /\ AnswersOf(r)'
  BY DEF ReplyOf, AnswersOf, Calling, Over
<1>2. RunsOf(r)'
  BY DEF Sound, RunsOf, Asked, Accounted, Over
<1> QED BY <1>1, <1>2 DEF Sound

(* Going on to a tool call, when the calls before it are answered.         *)
LEMMA EnterSound ==
  ASSUME NEW r \in Turn, Types, Types', NEW kind \in CallKind, NEW evs, Enter(r, kind, evs),
         Len(todo'[r]) \in Nat \ {0},
         \E m \in rows' : IsReply(m, r) /\ m.seq <= last[r]
                                        /\ m.seq + m.calls = last[r] + Len(todo'[r]),
         \A m \in rows' : IsReply(m, r) =>
           /\ m.seq + m.calls <= last[r] + Len(todo'[r])
           /\ \A i \in 1 .. m.calls : m.seq + i <= last[r] => HasAnswer(m, i)',
         \A x \in ran : x[1] = r => parsed[r] /\ x \in audits' /\ Asked(x)'
  PROVE  Sound(r)'
<1>1. /\ last \in [Turn -> Nat] /\ rows' \subseteq MessageRow /\ tpc \in [Turn -> TurnPC]
      /\ parsed \in [Turn -> BOOLEAN]
  BY DEF Types, TurnTypeOK
<1>2. /\ tpc'[r] \in {"running", "approving", "result"}
      /\ Answered(r)' = last[r]
      /\ Ahead(r)' = last[r] + Len(todo'[r])
  BY <1>1, EnterCases DEF Answered, Ahead
<1>3. ReplyOf(r)'
  BY <1>2 DEF ReplyOf
<1>4. AnswersOf(r)'
  BY <1>2 DEF AnswersOf
<1>5. ASSUME NEW x \in ran', x[1] = r
      PROVE  /\ parsed'[r]
             /\ Asked(x)'
             /\ Accounted(x, r)'
  <2>1. CASE x \in ran
    <3>1. parsed'[r]
      BY <1>1, <1>5, <2>1, EnterCases
    <3> QED BY <1>5, <2>1, <3>1 DEF Accounted
  <2>2. CASE x \notin ran
    <3>1. /\ tpc'[r] = "running" /\ x = <<r, last[r] + 1>> /\ last' = last /\ parsed'[r] = TRUE
      BY <1>1, <2>2, EnterCases
    <3>2. Asked(x)'
      <4>1. PICK m \in rows' : IsReply(m, r) /\ m.seq <= last[r]
                                  /\ m.seq + m.calls = last[r] + Len(todo'[r])
        OBVIOUS
      <4>2. m.seq \in Nat /\ m.calls \in Nat /\ last[r] \in Nat
        BY <1>1, <4>1 DEF MessageRow
      <4>3. m.seq < last[r] + 1 /\ last[r] + 1 <= m.seq + m.calls
        BY <4>1, <4>2
      <4> QED BY <3>1, <4>1, <4>3 DEF Asked
    <3> QED BY <3>1, <3>2 DEF Accounted
  <2> QED BY <2>1, <2>2
<1>6. RunsOf(r)'
  BY <1>2, <1>5 DEF RunsOf
<1> QED BY <1>3, <1>4, <1>6 DEF Sound

LEMMA RowFields ==
  ASSUME NEW r \in Turn
  PROVE  /\ UserRow(r).turn = r /\ UserRow(r).role = "user"
         /\ AssistantRow(r).turn = r /\ AssistantRow(r).role = "assistant"
         /\ AssistantRow(r).seq = last[r] /\ AssistantRow(r).calls = Len(todo[r])
         /\ ToolRow(r).turn = r /\ ToolRow(r).role = "tool" /\ ToolRow(r).seq = last[r]
BY DEF UserRow, AssistantRow, ToolRow

(* The steps before the first tool call, and between one reply and the     *)
(* next, change no reply.                                                  *)
LEMMA QuietSound ==
  ASSUME NEW r \in Turn, Types, Sound(r), tpc[r] \notin Calling \cup Over,
         tpc'[r] \notin Calling \cup Over \cup {"idle"},
         tpc[r] = "idle" \/ last'[r] \in {last[r], last[r] + 1},
         last'[r] \in Nat, parsed'[r] = parsed[r], audits' = audits, ran' = ran, rows \subseteq rows',
         \A m \in rows' : IsReply(m, r) => m \in rows
  PROVE  Sound(r)'
<1>1. ReplyOf(r)'
  BY DEF ReplyOf
<1>2. Answered(r) = last[r] /\ Ahead(r) = last[r] /\ Answered(r)' = last'[r] /\ Ahead(r)' = last'[r]
  BY DEF Answered, Ahead, Calling
<1>3. last[r] \in Nat /\ rows \subseteq MessageRow
  BY DEF Types, TurnTypeOK
<1>4. AnswersOf(r)'
  <2> SUFFICES ASSUME NEW m \in rows', IsReply(m, r)
               PROVE  /\ m.seq + m.calls <= last'[r]
                      /\ \A i \in 1 .. m.calls : HasAnswer(m, i)'
    BY <1>2 DEF AnswersOf
  <2>1. /\ m \in rows /\ tpc[r] # "idle" /\ m.seq + m.calls <= last[r]
        /\ \A i \in 1 .. m.calls : m.seq + i <= last[r] => HasAnswer(m, i)
    BY <1>2 DEF Sound, AnswersOf
  <2>2. m.seq \in Nat /\ m.calls \in Nat
    BY <1>3, <2>1 DEF MessageRow
  <2>3. m.seq + m.calls <= last'[r]
    BY <1>3, <2>1, <2>2
  <2>4. \A i \in 1 .. m.calls : m.seq + i <= last[r]
    BY <1>3, <2>1, <2>2
  <2>5. \A i \in 1 .. m.calls : HasAnswer(m, i)'
    BY <2>1, <2>4 DEF HasAnswer
  <2> QED BY <2>3, <2>5
<1>5. RunsOf(r)'
  BY DEF Sound, RunsOf, Asked, Accounted, Calling, Over
<1> QED BY <1>1, <1>4, <1>5 DEF Sound

(* A step of r changes the entries of r only.                              *)
Only(r) ==
  /\ rows \subseteq rows' /\ audits \subseteq audits'
  /\ \A q \in Turn \ {r} :
       /\ tpc'[q] = tpc[q] /\ last'[q] = last[q] /\ todo'[q] = todo[q] /\ parsed'[q] = parsed[q]
       /\ outcome'[q] = outcome[q]
       /\ \A m \in rows' : m.turn = q => m \in rows
       /\ \A x \in ran' : x[1] = q => x \in ran

LEMMA StepOnly ==
  ASSUME Types, NEW r \in Turn, Begin(r) \/ TurnStep(r) \/ ToolOutput(r)
  PROVE  Only(r)
<1> USE RowFields DEF Only
<1>0. /\ tpc \in [Turn -> TurnPC] /\ last \in [Turn -> Nat] /\ todo \in [Turn -> Seq(CallKind)]
      /\ parsed \in [Turn -> BOOLEAN] /\ outcome \in [Turn -> Outcome]
  BY DEF Types, TurnTypeOK
<1>1. CASE Begin(r)
  BY <1>0, <1>1 DEF Begin
<1>2. CASE StoreUser(r)
  BY <1>0, <1>2 DEF StoreUser
<1>3. CASE ReadHistory(r) \/ StartLoop(r)
  BY <1>0, <1>3 DEF ReadHistory, StartLoop
<1>4. CASE \E n \in 0 .. MaxCalls : \E kinds \in [1 .. n -> CallKind] : Reply(r, kinds)
  BY <1>0, <1>4 DEF Reply
<1>5. CASE NoBackend(r) \/ ModelFails(r) \/ Malformed(r) \/ Finish(r) \/ ArgsUnbound(r)
  BY <1>0, <1>5 DEF NoBackend, ModelFails, Malformed, Finish, ArgsUnbound, End
<1>6. CASE StoreAssistant(r)
  <2>1. CASE todo[r] = <<>>
    BY <1>0, <1>6, <2>1 DEF StoreAssistant
  <2>2. CASE todo[r] # <<>>
    BY <1>0, <1>6, <2>2 DEF StoreAssistant, Enter
  <2> QED BY <2>1, <2>2
<1>7. CASE StoreApproval(r) \/ ToolReturns(r) \/ StoreTool(r) \/ ToolOutput(r)
  BY <1>0, <1>7 DEF StoreApproval, ToolReturns, StoreTool, ToolOutput
<1>8. CASE StoreAudit(r)
  <2>1. CASE Len(todo[r]) > 1
    BY <1>0, <1>8, <2>1 DEF StoreAudit, Advance, Enter
  <2>2. CASE ~(Len(todo[r]) > 1)
    BY <1>0, <1>8, <2>2 DEF StoreAudit, Advance
  <2> QED BY <2>1, <2>2
<1> QED
  BY <1>1, <1>2, <1>3, <1>4, <1>5, <1>6, <1>7, <1>8 DEF TurnStep

(* What a step of r makes of r itself.                                     *)
LEMMA OwnSound ==
  ASSUME Types, Types', NEW r \in Turn, Sound(r), Begin(r) \/ TurnStep(r) \/ ToolOutput(r)
  PROVE  Sound(r)'
<1>0. /\ tpc \in [Turn -> TurnPC] /\ last \in [Turn -> Nat] /\ todo \in [Turn -> Seq(CallKind)]
      /\ parsed \in [Turn -> BOOLEAN] /\ rows \subseteq MessageRow /\ last' \in [Turn -> Nat]
  BY DEF Types, TurnTypeOK
<1>m. ASSUME NEW m \in rows PROVE m.seq \in Nat /\ m.calls \in Nat
  BY <1>0 DEF MessageRow
<1>a. \A x \in ran : x[1] = r /\ tpc[r] \in {"preparing", "asking", "replied", "finishing"}
        => x \in audits
  BY DEF Sound, RunsOf, Accounted
<1>1. CASE Begin(r)
  BY <1>0, <1>1, QuietSound DEF Begin, Calling, Over
<1>2. CASE StoreUser(r)
  <2>1. \A m \in rows' : IsReply(m, r) => m \in rows
    BY <1>2, RowFields DEF StoreUser, IsReply
  <2> QED BY <1>0, <1>2, <2>1, QuietSound DEF StoreUser, Calling, Over
<1>3. CASE ReadHistory(r) \/ StartLoop(r)
  BY <1>0, <1>3, QuietSound DEF ReadHistory, StartLoop, Calling, Over
<1>4. CASE \E n \in 0 .. MaxCalls : \E kinds \in [1 .. n -> CallKind] : Reply(r, kinds)
  BY <1>0, <1>4, QuietSound DEF Reply, Calling, Over
<1>5. CASE NoBackend(r) \/ ModelFails(r) \/ Malformed(r) \/ Finish(r)
  BY <1>0, <1>a, <1>5, EndSound DEF NoBackend, ModelFails, Malformed, Finish, End, Over
<1>6. CASE ArgsUnbound(r)
  <2>1. \A x \in ran : x[1] # r
    BY <1>6 DEF ArgsUnbound, Sound, RunsOf, Over
  <2> QED BY <1>0, <1>6, <2>1, EndSound DEF ArgsUnbound, End, Over
<1>7. CASE StoreAssistant(r)
  <2>0. /\ tpc[r] = "replied" /\ rows' = rows \cup {AssistantRow(r)} /\ UNCHANGED <<audits, todo>>
    BY <1>7 DEF StoreAssistant
  <2>1. Len(todo[r]) \in Nat /\ (todo[r] = <<>> => Len(todo[r]) = 0)
    BY <1>0, LenProperties
  <2>2. \A m \in rows : IsReply(m, r) =>
          m.seq + m.calls <= last[r] /\ \A i \in 1 .. m.calls : HasAnswer(m, i)
    <3>1. Answered(r) = last[r] /\ Ahead(r) = last[r]
      BY <2>0 DEF Answered, Ahead
    <3> QED BY <1>0, <1>m, <2>0, <3>1 DEF Sound, AnswersOf, Over
  <2>3. \A m \in rows, i \in Nat : HasAnswer(m, i) => HasAnswer(m, i)'
    BY <2>0 DEF HasAnswer
  <2>4. \A x \in ran : x[1] = r => parsed[r] /\ x \in audits' /\ Asked(x)'
    BY <1>a, <2>0 DEF Sound, RunsOf, Asked, Over
  <2>5. CASE todo[r] = <<>>
    <3>1. tpc' = [tpc EXCEPT ![r] = "finishing"] /\ UNCHANGED <<last, parsed, ran>>
      BY <1>7, <2>5 DEF StoreAssistant
    <3>2. Answered(r)' = last[r] /\ Ahead(r)' = last[r]
      BY <1>0, <3>1 DEF Answered, Ahead
    <3>3. ReplyOf(r)'
      BY <1>0, <3>1 DEF ReplyOf, Calling
    <3>4. AnswersOf(r)'
      <4>1. ASSUME NEW m \in rows', IsReply(m, r)
            PROVE  m.seq + m.calls <= last[r] /\ \A i \in 1 .. m.calls : HasAnswer(m, i)'
        <5>1. CASE m \in rows
          BY <1>0, <1>m, <2>2, <2>3, <4>1, <5>1
        <5>2. CASE m = AssistantRow(r)
          <6>1. m.seq = last[r] /\ m.calls = 0
            BY <2>1, <2>5, <5>2, RowFields
          <6> QED BY <1>0, <6>1
        <5> QED BY <2>0, <4>1, <5>1, <5>2
      <4> QED BY <1>0, <3>1, <3>2, <4>1 DEF AnswersOf
    <3>5. RunsOf(r)'
      BY <1>0, <2>4, <3>1 DEF RunsOf, Accounted
    <3> QED BY <3>3, <3>4, <3>5 DEF Sound
  <2>6. CASE todo[r] # <<>>
    <3>1. Enter(r, Head(todo[r]), <<Ev("assistant")>>) /\ Head(todo[r]) \in CallKind
      BY <1>0, <1>7, <2>6, HeadTailProperties DEF StoreAssistant
    <3>2. Len(todo'[r]) \in Nat \ {0} /\ todo'[r] = todo[r]
      BY <1>0, <2>0, <2>6, EmptySeq
    <3>3. IsReply(AssistantRow(r), r) /\ AssistantRow(r).seq = last[r]
          /\ AssistantRow(r).calls = Len(todo[r])
      BY RowFields DEF IsReply
    <3>4. \A m \in rows' : IsReply(m, r) =>
            /\ m.seq + m.calls <= last[r] + Len(todo'[r])
            /\ \A i \in 1 .. m.calls : m.seq + i <= last[r] => HasAnswer(m, i)'
      BY <1>0, <1>m, <2>0, <2>1, <2>2, <2>3, <3>2, <3>3
    <3>5. AssistantRow(r) \in rows'
      BY <2>0
    <3>6. \E m \in rows' : IsReply(m, r) /\ m.seq <= last[r]
                                         /\ m.seq + m.calls = last[r] + Len(todo'[r])
      BY <1>0, <3>2, <3>3, <3>5
    <3> QED BY <2>4, <3>1, <3>2, <3>4, <3>6, EnterSound
  <2> QED BY <2>5, <2>6
<1>8. CASE StoreApproval(r) \/ ToolReturns(r)
  <2>1. /\ tpc[r] \in {"approving", "running"} /\ tpc'[r] = "result" /\ last'[r] = last[r] + 1
        /\ UNCHANGED <<rows, audits, todo, ran, parsed>>
    BY <1>0, <1>8 DEF StoreApproval, ToolReturns
  <2>2. Len(todo[r]) \in Nat
    BY <1>0, LenProperties
  <2>3. Answered(r)' = Answered(r) /\ Ahead(r)' = Ahead(r)
    <3>1. Answered(r) = last[r] /\ Ahead(r) = last[r] + Len(todo[r])
      BY <2>1 DEF Answered, Ahead
    <3>2. Answered(r)' = last'[r] - 1 /\ Ahead(r)' = last'[r] + Len(todo'[r]) - 1
      BY <2>1 DEF Answered, Ahead
    <3>3. last[r] \in Nat /\ todo'[r] = todo[r] /\ last'[r] = last[r] + 1
      BY <1>0, <2>1
    <3> QED BY <2>2, <3>1, <3>2, <3>3
  <2>4. ReplyOf(r)' /\ AnswersOf(r)'
    BY <2>1, <2>3 DEF Sound, ReplyOf, AnswersOf, HasAnswer, Calling, Over
  <2>5. RunsOf(r)'
    BY <1>0, <2>1 DEF Sound, RunsOf, Asked, Accounted, Over
  <2> QED BY <2>4, <2>5 DEF Sound
<1>9. CASE StoreTool(r)
  <2>1. /\ tpc[r] = "result" /\ tpc'[r] = "auditing" /\ rows' = rows \cup {ToolRow(r)}
        /\ UNCHANGED <<last, audits, todo, ran, parsed>>
    BY <1>0, <1>9 DEF StoreTool
  <2>2. Len(todo[r]) \in Nat
    BY <1>0, LenProperties
  <2>3. /\ Answered(r) = last[r] - 1 /\ Answered(r)' = last[r] /\ Ahead(r)' = Ahead(r)
    BY <1>0, <2>1, <2>2 DEF Answered, Ahead
  <2>4. ReplyOf(r)'
    <3>1. PICK m \in rows : IsReply(m, r) /\ m.seq <= Answered(r) /\ m.seq + m.calls = Ahead(r)
      BY <2>1 DEF Sound, ReplyOf, Calling
    <3>2. m.seq <= Answered(r)'
      BY <1>0, <1>m, <2>3, <3>1
    <3> QED BY <2>1, <2>3, <3>1, <3>2 DEF ReplyOf
  <2>5. AnswersOf(r)'
    <3> SUFFICES ASSUME NEW m \in rows', IsReply(m, r)
                 PROVE  /\ m.seq + m.calls <= Ahead(r)
                        /\ \A i \in 1 .. m.calls : m.seq + i <= last[r] => HasAnswer(m, i)'
      BY <2>1, <2>3 DEF AnswersOf
    <3>1. m \in rows
      BY <2>1, RowFields DEF IsReply
    <3>2. /\ m.seq + m.calls <= Ahead(r)
          /\ \A i \in 1 .. m.calls : m.seq + i <= last[r] - 1 => HasAnswer(m, i)
      BY <2>1, <2>3, <3>1 DEF Sound, AnswersOf, Over
    <3>3. ASSUME NEW i \in 1 .. m.calls, m.seq + i <= last[r] PROVE HasAnswer(m, i)'
      <4>1. CASE m.seq + i <= last[r] - 1
        BY <2>1, <3>2, <4>1 DEF HasAnswer
      <4>2. CASE ~(m.seq + i <= last[r] - 1)
        <5>1. m.seq + i = last[r]
          <6>1. m.seq \in Nat /\ m.calls \in Nat /\ i \in Nat /\ last[r] \in Nat
            BY <1>0, <1>m, <3>1
          <6> QED BY <3>3, <4>2, <6>1
        <5>2. ToolRow(r) \in rows' /\ m.turn = r
          BY <2>1 DEF IsReply
        <5> QED BY <5>1, <5>2, RowFields DEF HasAnswer
      <4> QED BY <4>1, <4>2
    <3> QED BY <3>2, <3>3
  <2>6. RunsOf(r)'
    BY <1>0, <2>1 DEF Sound, RunsOf, Asked, Accounted, Over
  <2> QED BY <2>4, <2>5, <2>6 DEF Sound
<1>10. CASE ToolOutput(r)
  <2>1. UNCHANGED <<rows, audits, tpc, last, todo, ran, parsed>>
    BY <1>10 DEF ToolOutput
  <2> QED BY <2>1 DEF Sound, ReplyOf, AnswersOf, RunsOf, Answered, Ahead, HasAnswer, Asked, Accounted
<1>11. CASE StoreAudit(r)
  <2>1. /\ tpc[r] = "auditing" /\ audits' = audits \cup {<<r, last[r]>>} /\ rows' = rows
        /\ todo' = [todo EXCEPT ![r] = Tail(@)]
    BY <1>11 DEF StoreAudit, Advance
  <2>2. todo[r] # <<>> /\ Len(todo[r]) \in Nat
    BY <1>0, <2>1, LenProperties DEF Types, Calling
  <2>3. Answered(r) = last[r] /\ Ahead(r) = last[r] + Len(todo[r]) - 1
    BY <2>1 DEF Answered, Ahead
  <2>4. \A m \in rows : IsReply(m, r) =>
          /\ m.seq + m.calls <= last[r] + Len(todo[r]) - 1
          /\ \A i \in 1 .. m.calls : m.seq + i <= last[r] => HasAnswer(m, i)'
    BY <2>1, <2>3 DEF Sound, AnswersOf, HasAnswer, Over
  <2>5. \A x \in ran : x[1] = r => parsed[r] /\ x \in audits' /\ Asked(x)'
    <3>1. ASSUME NEW x \in ran, x[1] = r PROVE x \in audits'
      <4>1. x \in Turn \X Nat /\ (x \in audits \/ x[2] = last[r])
        BY <2>1, <3>1 DEF Sound, RunsOf, Accounted, Types, TurnTypeOK
      <4> QED BY <2>1, <3>1, <4>1
    <3> QED BY <2>1, <3>1 DEF Sound, RunsOf, Asked, Over
  <2>6. CASE Len(todo[r]) > 1
    <3>1. Enter(r, todo[r][2], <<>>)
      BY <1>11, <2>6 DEF StoreAudit, Advance
    <3>2. todo[r][2] \in CallKind /\ Len(todo'[r]) = Len(todo[r]) - 1
      BY <1>0, <2>1, <2>6, TailProperties
    <3>3. Len(todo'[r]) \in Nat \ {0} /\ last[r] + Len(todo'[r]) = last[r] + Len(todo[r]) - 1
      BY <1>0, <2>2, <2>6, <3>2
    <3>4. \E m \in rows' : IsReply(m, r) /\ m.seq <= last[r]
                                         /\ m.seq + m.calls = last[r] + Len(todo'[r])
      BY <2>1, <2>3, <3>3 DEF Sound, ReplyOf, Calling
    <3>5. \A m \in rows' : IsReply(m, r) =>
            /\ m.seq + m.calls <= last[r] + Len(todo'[r])
            /\ \A i \in 1 .. m.calls : m.seq + i <= last[r] => HasAnswer(m, i)'
      BY <2>1, <2>4, <3>3
    <3> QED BY <2>5, <3>1, <3>2, <3>3, <3>4, <3>5, EnterSound
  <2>7. CASE ~(Len(todo[r]) > 1)
    <3>1. tpc'[r] \in {"asking", "finishing"} /\ UNCHANGED <<last, parsed, ran>>
      BY <1>0, <1>11, <2>7 DEF StoreAudit, Advance
    <3>2. last[r] + Len(todo[r]) - 1 <= last[r]
      BY <1>0, <2>2, <2>7
    <3>3. Answered(r)' = last[r] /\ Ahead(r)' = last[r]
      BY <3>1 DEF Answered, Ahead
    <3>4. AnswersOf(r)'
      <4>1. ASSUME NEW m \in rows', IsReply(m, r) PROVE m.seq + m.calls <= last[r]
        BY <1>0, <1>m, <2>1, <2>2, <2>4, <3>2, <4>1
      <4> QED BY <2>1, <2>4, <3>1, <3>3, <4>1 DEF AnswersOf
    <3>5. ReplyOf(r)' /\ RunsOf(r)'
      BY <2>5, <3>1 DEF ReplyOf, RunsOf, Accounted, Calling
    <3> QED BY <3>4, <3>5 DEF Sound
  <2> QED BY <2>6, <2>7
<1> QED
  BY <1>1, <1>2, <1>3, <1>4, <1>5, <1>6, <1>7, <1>8, <1>9, <1>10, <1>11 DEF TurnStep

LEMMA RestartSound ==
  ASSUME Types, ServerRestart, NEW r \in Turn, Sound(r)
  PROVE  Sound(r)'
<1>0. /\ tpc \in [Turn -> TurnPC] /\ UNCHANGED <<rows, audits, ran>>
      /\ tpc'[r] = IF Live(r) THEN "killed" ELSE tpc[r]
  BY DEF Types, TurnTypeOK, ServerRestart
<1>1. CASE tpc[r] = "idle"
  <2>1. tpc'[r] = "idle"
    BY <1>0, <1>1 DEF Live
  <2>2. ReplyOf(r)' /\ AnswersOf(r)' /\ RunsOf(r)'
    BY <1>0, <1>1, <2>1 DEF Sound, ReplyOf, AnswersOf, RunsOf, Calling, Over
  <2> QED BY <2>2 DEF Sound
<1>2. CASE tpc[r] # "idle"
  <2>1. /\ tpc'[r] \in Over
        /\ \A x \in ran : x[1] = r => x \in audits \/ tpc'[r] = "killed"
    BY <1>0, <1>2 DEF Live, Over, Sound, RunsOf, Accounted
  <2> QED BY <1>0, <2>1, EndSound
<1> QED BY <1>1, <1>2

LEMMA StepTurnInv ==
  ASSUME TurnInv, TurnNext
  PROVE  TurnInv'
<1>1. Types'
  BY StepTypes DEF TurnInv
<1>2. ASSUME NEW r \in Turn, Begin(r) \/ TurnStep(r) \/ ToolOutput(r), NEW q \in Turn
      PROVE  Sound(q)'
  <2>1. CASE q = r
    BY <1>1, <1>2, <2>1, OwnSound DEF TurnInv
  <2>2. CASE q # r
    BY <1>2, <2>2, StepOnly, OtherTurns DEF TurnInv, Only
  <2> QED BY <2>1, <2>2
<1>3. ASSUME ServerRestart, NEW q \in Turn PROVE Sound(q)'
  BY <1>3, RestartSound DEF TurnInv
<1> QED BY <1>1, <1>2, <1>3 DEF TurnInv, TurnNext

LEMMA SameTurnInv ==
  ASSUME TurnInv, UNCHANGED turnVars
  PROVE  TurnInv'
BY DEF TurnInv, turnVars, Types, TurnTypeOK, Sound, ReplyOf, AnswersOf, RunsOf, Answered, Ahead,
       HasAnswer, Asked, Accounted

LEMMA TurnInvHolds == TurnSpec => []TurnInv
<1>1. TurnInv /\ [TurnNext]_<<busVars, turnVars>> => TurnInv'
  BY StepTurnInv, SameTurnInv
<1> QED BY <1>1, InitTurns, PTL DEF TurnSpec, TurnSpecInit

----------------------------------------------------------------------------
(* The order of the session, while turns take turns.                       *)

Calm == ~tangled /\ \A r \in Turn : tpc[r] # "crashed"

(* The highest seq r has stored or found in the session.                   *)
Stored(r) == IF tpc[r] \in {"begun", "replied", "result"} THEN last[r] - 1 ELSE last[r]

(* One turn at most writes, and it numbers its rows above all others.      *)
OneWrites == \A q, r \in Turn : Writing(q) /\ Writing(r) => q = r
Numbered == \A r \in Turn : Writing(r) => \A m \in rows : m.seq <= Stored(r)
Distinct == \A m, n \in rows : m.seq = n.seq => m = n

(* A turn that writes no more has answered all the calls of its replies.   *)
Complete ==
  \A m \in rows : m.role = "assistant" /\ ~Writing(m.turn) =>
    \A i \in 1 .. m.calls : HasAnswer(m, i)

(* A turn that has read the history goes on with all there is but its own. *)
ReadAll ==
  \A r \in Turn : Writing(r) /\ tpc[r] \notin {"begun", "stored"} =>
    \A m \in rows : m.turn # r => m \in context[r]

Ordered ==
  /\ ~tangled => OneWrites /\ Numbered /\ Distinct
  /\ Calm => Complete /\ ReadAll

(* What a step of r, once begun, does to the rows, to the context of r and *)
(* to the numbers it stands at.                                            *)
Adds(r) ==
  \/ rows' = rows /\ (Writing(r)' => Writing(r) /\ Stored(r)' >= Stored(r))
  \/ \E row \in MessageRow :
       /\ rows' = rows \cup {row} /\ row.turn = r /\ row.seq = last[r]
       /\ Writing(r) /\ Stored(r) = last[r] - 1
       /\ Writing(r)' => Stored(r)' >= last[r]

Knows(r) ==
  Writing(r)' /\ tpc'[r] \notin {"begun", "stored"} =>
    context'[r] = rows \/ (tpc[r] \notin {"begun", "stored"} /\ context'[r] = context[r])

Stops(r) ==
  ~Writing(r)' =>
    \/ tpc'[r] \in {"finishing", "crashed"}
    \/ rows' = rows /\ tpc[r] \in {"preparing", "asking", "finishing"}

LEMMA StepSum ==
  ASSUME Types, Types', NEW r \in Turn, TurnStep(r) \/ ToolOutput(r)
  PROVE  /\ Adds(r) /\ Knows(r) /\ Stops(r) /\ tangled' = tangled
         /\ \A q \in Turn \ {r} : context'[q] = context[q]
<1> USE DEF Adds, Knows, Stops, Writing, Live, Over, Stored
<1>0. /\ tpc \in [Turn -> TurnPC] /\ last \in [Turn -> Nat] /\ todo \in [Turn -> Seq(CallKind)]
      /\ context \in [Turn -> SUBSET rows]
  BY DEF Types, TurnTypeOK
<1>r. {UserRow(r), AssistantRow(r), ToolRow(r)} \subseteq MessageRow
  BY RowTypes
<1>f. UserRow(r).turn = r /\ UserRow(r).seq = last[r]
  BY DEF UserRow
<1>2. CASE StoreUser(r)
  BY <1>0, <1>r, <1>f, <1>2 DEF StoreUser
<1>3. CASE ReadHistory(r) \/ StartLoop(r)
  BY <1>0, <1>3 DEF ReadHistory, StartLoop
<1>4. CASE \E n \in 0 .. MaxCalls : \E kinds \in [1 .. n -> CallKind] : Reply(r, kinds)
  BY <1>0, <1>4 DEF Reply
<1>5. CASE NoBackend(r) \/ ModelFails(r) \/ Malformed(r) \/ Finish(r)
  BY <1>0, <1>5 DEF NoBackend, ModelFails, Malformed, Finish, End
<1>6. CASE ArgsUnbound(r)
  BY <1>0, <1>r, <1>6, RowFields DEF ArgsUnbound, End
<1>7. CASE StoreAssistant(r)
  <2>0. /\ tpc[r] = "replied" /\ rows' = rows \cup {AssistantRow(r)}
        /\ UNCHANGED <<context, tangled>>
    BY <1>7 DEF StoreAssistant
  <2>1. \/ tpc'[r] = "finishing"
        \/ tpc'[r] \in {"running", "approving"} /\ last' = last
        \/ tpc'[r] = "result" /\ last'[r] = last[r] + 1
    <3>1. CASE todo[r] = <<>>
      BY <1>0, <1>7, <3>1 DEF StoreAssistant
    <3>2. CASE todo[r] # <<>>
      <4>1. Enter(r, Head(todo[r]), <<Ev("assistant")>>) /\ Head(todo[r]) \in CallKind
        BY <1>0, <1>7, <3>2, HeadTailProperties DEF StoreAssistant
      <4> QED BY <1>0, <4>1, EnterCases
    <3> QED BY <3>1, <3>2
  <2>2. Adds(r)
    BY <1>0, <1>r, <2>0, <2>1, RowFields
  <2> QED BY <2>0, <2>1, <2>2
<1>8. CASE StoreApproval(r) \/ ToolReturns(r)
  BY <1>0, <1>8 DEF StoreApproval, ToolReturns
<1>9. CASE StoreTool(r)
  BY <1>0, <1>r, <1>9, RowFields DEF StoreTool
<1>10. CASE ToolOutput(r)
  BY <1>0, <1>10 DEF ToolOutput
<1>11. CASE StoreAudit(r)
  <2>0. tpc[r] = "auditing" /\ UNCHANGED <<rows, context, tangled>>
    BY <1>11 DEF StoreAudit, Advance
  <2>1. \/ tpc'[r] \in {"finishing", "asking", "running", "approving"} /\ last' = last
        \/ tpc'[r] = "result" /\ last'[r] = last[r] + 1
    <3>1. CASE Len(todo[r]) > 1
      <4>1. Enter(r, todo[r][2], <<>>) /\ todo[r][2] \in CallKind
        BY <1>0, <1>11, <3>1, TailProperties DEF StoreAudit, Advance
      <4> QED BY <1>0, <4>1, EnterCases
    <3>2. CASE ~(Len(todo[r]) > 1)
      BY <1>0, <1>11, <3>2 DEF StoreAudit, Advance
    <3> QED BY <3>1, <3>2
  <2> QED BY <1>0, <2>0, <2>1
<1> QED
  BY <1>2, <1>3, <1>4, <1>5, <1>6, <1>7, <1>8, <1>9, <1>10, <1>11 DEF TurnStep

(* A turn between two replies has answered all its calls.                  *)
LEMMA SettledAnswers ==
  ASSUME Types, NEW r \in Turn, Sound(r), tpc[r] \in {"preparing", "asking", "finishing"},
         NEW m \in rows, IsReply(m, r), NEW i \in 1 .. m.calls
  PROVE  HasAnswer(m, i)
<1>1. m.seq \in Nat /\ m.calls \in Nat /\ last[r] \in Nat
  BY DEF Types, TurnTypeOK, MessageRow
<1>2. m.seq + m.calls <= last[r] /\ (m.seq + i <= last[r] => HasAnswer(m, i))
  BY DEF Sound, AnswersOf, Answered, Ahead, Over
<1> QED BY <1>1, <1>2

LEMMA StepOrdered ==
  ASSUME TurnInv, TurnInv', Ordered, NEW r \in Turn, TurnStep(r) \/ ToolOutput(r)
  PROVE  Ordered'
<1>1. /\ Adds(r) /\ Knows(r) /\ Stops(r) /\ tangled' = tangled
      /\ \A q \in Turn \ {r} : context'[q] = context[q]
  BY StepSum DEF TurnInv
<1>2. /\ rows \subseteq rows'
      /\ \A q \in Turn \ {r} : tpc'[q] = tpc[q] /\ last'[q] = last[q]
  BY StepOnly DEF TurnInv, Only
<1>3. /\ rows \subseteq MessageRow /\ rows' \subseteq MessageRow /\ tpc \in [Turn -> TurnPC]
      /\ last \in [Turn -> Nat] /\ last' \in [Turn -> Nat]
  BY DEF TurnInv, Types, TurnTypeOK
<1>m. ASSUME NEW m \in rows' PROVE m.seq \in Nat /\ m.turn \in Turn
  BY <1>3 DEF MessageRow
<1>4. \A q \in Turn \ {r} : Writing(q)' = Writing(q) /\ Stored(q)' = Stored(q)
  BY <1>2 DEF Writing, Live, Stored
<1>5. Writing(r)' => Writing(r)
  BY <1>1 DEF Adds
<1> SUFFICES ASSUME ~tangled'
             PROVE  (OneWrites /\ Numbered /\ Distinct)' /\ (Calm' => (Complete /\ ReadAll)')
  BY DEF Ordered, Calm
<1>6. ~tangled /\ (Calm' => Calm)
  <2>1. ASSUME tpc[r] = "crashed" PROVE FALSE
    BY <2>1 DEF TurnStep, ToolOutput, StoreUser, ReadHistory, StartLoop, NoBackend, Reply, ModelFails,
                Malformed, StoreAssistant, StoreApproval, ToolReturns, StoreTool, ArgsUnbound,
                StoreAudit, Finish
  <2> QED BY <1>1, <1>2, <2>1 DEF Calm
<1>7. OneWrites /\ Numbered /\ Distinct /\ (Calm' => Complete /\ ReadAll)
  BY <1>6 DEF Ordered
<1>8. \A q \in Turn : Stored(q) \in Int /\ Stored(q)' \in Int
  BY <1>3 DEF Stored
<1>9. OneWrites'
  BY <1>4, <1>5, <1>7 DEF OneWrites
<1>10. ASSUME Writing(r), NEW q \in Turn, Writing(q)' PROVE q = r
  BY <1>4, <1>7, <1>10 DEF OneWrites
<1>11. \A q \in Turn \ {r} : \A m \in rows' : m.turn = q => m \in rows
  BY StepOnly DEF TurnInv, Only
<1>12. Numbered' /\ Distinct'
  <2>1. CASE rows' = rows /\ (Writing(r)' => Writing(r) /\ Stored(r)' >= Stored(r))
    <3>1. ASSUME NEW q \in Turn, Writing(q)', NEW m \in rows PROVE m.seq <= Stored(q)'
      <4>1. Writing(q) /\ m.seq <= Stored(q)
        BY <1>4, <1>5, <1>7, <3>1 DEF Numbered
      <4>2. Stored(q)' >= Stored(q)
        BY <1>4, <1>8, <2>1, <3>1
      <4>3. m.seq \in Nat
        BY <1>2, <1>m
      <4> QED BY <1>8, <4>1, <4>2, <4>3
    <3>2. Distinct'
      BY <1>7, <2>1 DEF Distinct
    <3> QED BY <2>1, <3>1, <3>2 DEF Numbered
  <2>2. CASE \E row \in MessageRow :
               /\ rows' = rows \cup {row} /\ row.turn = r /\ row.seq = last[r]
               /\ Writing(r) /\ Stored(r) = last[r] - 1
               /\ Writing(r)' => Stored(r)' >= last[r]
    <3>1. PICK row \in MessageRow :
               /\ rows' = rows \cup {row} /\ row.turn = r /\ row.seq = last[r]
               /\ Writing(r) /\ Stored(r) = last[r] - 1
               /\ Writing(r)' => Stored(r)' >= last[r]
      BY <2>2
    <3>2. \A m \in rows : m.seq <= last[r] - 1 /\ m.seq \in Nat /\ m.seq < last[r]
      <4>1. ASSUME NEW m \in rows PROVE m.seq <= last[r] - 1 /\ m.seq \in Nat
        BY <1>2, <1>7, <1>m, <3>1 DEF Numbered
      <4> QED BY <1>3, <4>1
    <3>3. ASSUME NEW q \in Turn, Writing(q)', NEW m \in rows' PROVE m.seq <= Stored(q)'
      <4>1. q = r /\ Stored(r)' >= last[r]
        BY <1>10, <3>1, <3>3
      <4>2. m.seq <= last[r] /\ m.seq \in Nat
        BY <1>3, <3>1, <3>2
      <4> QED BY <1>3, <1>8, <4>1, <4>2
    <3>4. ASSUME NEW m \in rows', NEW n \in rows', m.seq = n.seq PROVE m = n
      <4>1. \A k \in rows : k.seq # last[r]
        BY <1>3, <3>2
      <4>2. CASE m \in rows /\ n \in rows
        BY <1>7, <3>4, <4>2 DEF Distinct
      <4>3. CASE m = row \/ n = row
        BY <3>1, <3>4, <4>1, <4>3
      <4> QED BY <3>1, <4>2, <4>3
    <3> QED BY <3>3, <3>4 DEF Numbered, Distinct
  <2> QED BY <1>1, <2>1, <2>2 DEF Adds
<1>13. ASSUME Calm' PROVE Complete'
  <2> SUFFICES ASSUME NEW m \in rows', m.role = "assistant", ~Writing(m.turn)', NEW i \in 1 .. m.calls
               PROVE  HasAnswer(m, i)'
    BY DEF Complete
  <2>0. m.turn \in Turn
    BY <1>m
  <2>1. m \in rows /\ HasAnswer(m, i) => HasAnswer(m, i)'
    BY <1>2 DEF HasAnswer
  <2>2. CASE m.turn # r
    <3>1. m \in rows /\ ~Writing(m.turn)
      BY <1>4, <1>11, <2>0, <2>2
    <3> QED BY <1>7, <1>13, <2>1, <3>1 DEF Complete
  <2>3. CASE m.turn = r /\ tpc'[r] = "finishing"
    <3>1. m.seq \in Nat /\ m.calls \in Nat /\ last'[r] \in Nat
      BY <1>3 DEF MessageRow
    <3>2. /\ m.seq + m.calls <= last'[r]
          /\ m.seq + i <= last'[r] => HasAnswer(m, i)'
      BY <2>3 DEF TurnInv, Sound, AnswersOf, Answered, Ahead, IsReply, Over
    <3> QED BY <3>1, <3>2
  <2>4. CASE m.turn = r /\ rows' = rows /\ tpc[r] \in {"preparing", "asking", "finishing"}
    <3>1. IsReply(m, r) /\ m \in rows /\ Types /\ Sound(r)
      BY <2>4 DEF IsReply, TurnInv
    <3> QED BY <2>1, <2>4, <3>1, SettledAnswers
  <2> QED BY <1>1, <1>13, <2>2, <2>3, <2>4 DEF Stops, Calm
<1>14. ASSUME Calm' PROVE ReadAll'
  <2> SUFFICES ASSUME NEW q \in Turn, Writing(q)', tpc'[q] \notin {"begun", "stored"},
                      NEW m \in rows', m.turn # q
               PROVE  m \in context'[q]
    BY DEF ReadAll
  <2>1. CASE q = r
    <3>1. m \in rows /\ Writing(r)
      BY <1>5, <1>11, <1>m, <2>1
    <3> QED BY <1>1, <1>7, <1>14, <2>1, <3>1 DEF Knows, ReadAll
  <2>2. CASE q # r
    <3>1. Writing(q) /\ ~Writing(r) /\ tpc[q] \notin {"begun", "stored"}
      BY <1>2, <1>4, <1>10, <2>2
    <3>2. rows' = rows /\ context'[q] = context[q]
      BY <1>1, <2>2, <3>1 DEF Adds
    <3> QED BY <1>7, <1>14, <3>1, <3>2 DEF ReadAll
  <2> QED BY <2>1, <2>2
<1> QED BY <1>9, <1>12, <1>13, <1>14

(* A turn that begins while no other writes numbers on from the highest.   *)
LEMMA BeginOrdered ==
  ASSUME TurnInv, TurnInv', Ordered, NEW r \in Turn, Begin(r)
  PROVE  Ordered'
<1> SUFFICES ASSUME ~tangled'
             PROVE  (OneWrites /\ Numbered /\ Distinct)' /\ (Calm' => (Complete /\ ReadAll)')
  BY DEF Ordered, Calm
<1>1. /\ tpc \in [Turn -> TurnPC] /\ last \in [Turn -> Nat] /\ rows \subseteq MessageRow
  BY DEF TurnInv, Types, TurnTypeOK
<1>2. /\ tpc[r] = "idle" /\ tpc' = [tpc EXCEPT ![r] = "begun"] /\ UNCHANGED <<rows, context>>
      /\ tangled' = (tangled \/ \E q \in Turn : Writing(q))
  BY DEF Begin
<1>3. PICK n \in Highest : last' = [last EXCEPT ![r] = n + 1]
  BY DEF Begin
<1>4. ~tangled /\ (Calm' => Calm) /\ \A q \in Turn : ~Writing(q)
  BY <1>1, <1>2 DEF Calm
<1>5. \A q \in Turn \ {r} : ~Writing(q)'
  BY <1>1, <1>2, <1>4 DEF Writing, Live
<1>6. OneWrites'
  BY <1>5 DEF OneWrites
<1>7. Numbered'
  <2>1. n \in Nat /\ \A m \in rows : m.seq <= n
    BY <1>1, <1>3, HighestType DEF Highest
  <2>2. Stored(r)' = n
    BY <1>1, <1>2, <1>3, <2>1 DEF Stored
  <2> QED BY <1>2, <1>5, <2>1, <2>2 DEF Numbered
<1>8. Distinct' /\ (Calm' => Complete')
  <2>1. \A m \in rows : m.turn \in Turn
    BY <1>1 DEF MessageRow
  <2> QED BY <1>2, <1>4, <2>1 DEF Ordered, Distinct, Complete, HasAnswer
<1>9. ReadAll'
  BY <1>1, <1>2, <1>5 DEF ReadAll
<1> QED BY <1>6, <1>7, <1>8, <1>9

(* The process dies without tangling the session: nobody was writing.      *)
LEMMA RestartOrdered ==
  ASSUME TurnInv, Ordered, ServerRestart
  PROVE  Ordered'
<1> SUFFICES ASSUME ~tangled'
             PROVE  (OneWrites /\ Numbered /\ Distinct)' /\ (Calm' => (Complete /\ ReadAll)')
  BY DEF Ordered, Calm
<1>1. /\ tpc \in [Turn -> TurnPC] /\ UNCHANGED rows
      /\ tpc' = [r \in Turn |-> IF Live(r) THEN "killed" ELSE tpc[r]]
      /\ tangled' = (tangled \/ \E r \in Turn : Writing(r))
  BY DEF TurnInv, Types, TurnTypeOK, ServerRestart
<1>2. \A r \in Turn : ~Writing(r) /\ ~Writing(r)'
  BY <1>1 DEF Calm, Writing, Live, Over
<1>3. ~tangled /\ (Calm' => Calm)
  BY <1>1 DEF Calm, Live, Over
<1>4. Distinct' /\ (Calm' => Complete')
  <2>1. rows \subseteq MessageRow
    BY DEF TurnInv, Types, TurnTypeOK
  <2>2. \A m \in rows : m.turn \in Turn
    BY <2>1 DEF MessageRow
  <2> QED BY <1>1, <1>2, <1>3, <2>2 DEF Ordered, Distinct, Complete, HasAnswer
<1> QED BY <1>2, <1>4 DEF OneWrites, Numbered, ReadAll

LEMMA InitOrdered == TurnInit => Ordered
BY DEF TurnInit, Ordered, OneWrites, Numbered, Distinct, Complete, ReadAll, Writing, Live

LEMMA SameOrdered ==
  ASSUME Ordered, UNCHANGED turnVars
  PROVE  Ordered'
BY DEF turnVars, Ordered, Calm, OneWrites, Numbered, Distinct, Complete, ReadAll, Writing, Live,
       Stored, HasAnswer

LEMMA OrderedHolds == TurnSpec => []Ordered
<1>1. TurnInv /\ TurnInv' /\ Ordered /\ [TurnNext]_<<busVars, turnVars>> => Ordered'
  BY StepOrdered, BeginOrdered, RestartOrdered, SameOrdered DEF TurnNext
<1> QED BY <1>1, InitOrdered, TurnInvHolds, PTL DEF TurnSpec, TurnSpecInit

----------------------------------------------------------------------------
(* Whatever the model replies, the tools return and the process does, each *)
(* variable keeps its type; in particular no turn makes more than MaxSteps *)
(* model calls (agent.py, MAX_STEPS).                                      *)
THEOREM TurnsTyped == TurnSpec => []TurnTypeOK
<1>1. TurnInv => TurnTypeOK
  BY DEF TurnInv, Types
<1> QED BY <1>1, TurnInvHolds, PTL

(* When a turn asks the model again (agent.py 39), all tool calls of its   *)
(* replies are answered in its own messages, for any number of calls and   *)
(* of turns beside it.                                                     *)
THEOREM OwnHistoryWellFormed == TurnSpec => []OwnRowsWellFormed
<1>1. ASSUME TurnInv PROVE OwnRowsWellFormed
  <2> SUFFICES ASSUME NEW r \in Turn, tpc[r] = "asking", NEW m \in RowsOf(r), m.role = "assistant",
                      NEW i \in 1 .. m.calls
               PROVE  \E t \in RowsOf(r) : t.role = "tool" /\ t.turn = m.turn /\ t.seq = m.seq + i
    BY DEF OwnRowsWellFormed, WellFormed
  <2>1. m \in rows /\ IsReply(m, r) /\ m.turn = r
    BY DEF RowsOf, IsReply
  <2>2. m.seq \in Nat /\ m.calls \in Nat /\ last[r] \in Nat
    BY <1>1, <2>1 DEF TurnInv, Types, TurnTypeOK, MessageRow
  <2>3. /\ m.seq + m.calls <= last[r]
        /\ m.seq + i <= last[r] => HasAnswer(m, i)
    BY <1>1, <2>1 DEF TurnInv, Sound, AnswersOf, Answered, Ahead, Over
  <2>4. HasAnswer(m, i)
    BY <2>2, <2>3
  <2> QED BY <2>1, <2>4 DEF HasAnswer, RowsOf
<1> QED BY <1>1, TurnInvHolds, PTL

(* A tool is started only after the reply that asks for it is committed    *)
(* (agent.py 45-61: on_assistant before executor).                         *)
THEOREM IntentStoredFirst == TurnSpec => []IntentIsStored
<1>1. TurnInv => IntentIsStored
  BY DEF TurnInv, Types, TurnTypeOK, Sound, RunsOf, Asked, IsReply, IntentIsStored
<1> QED BY <1>1, TurnInvHolds, PTL

(* Every tool that ran has its ToolCall row once its turn is past it, but  *)
(* for a process that died (services.py, on_tool_call).                    *)
THEOREM EveryRunAudited == TurnSpec => []RunsAreAudited
<1>1. TurnInv => RunsAreAudited
  BY DEF TurnInv, Types, TurnTypeOK, Sound, RunsOf, Accounted, RunsAreAudited
<1> QED BY <1>1, TurnInvHolds, PTL

(* As long as turns do not overlap and none is killed or crashes amid its  *)
(* calls, seq is unique in the session and what a turn sends to the model  *)
(* answers every tool call (services.py, next_seq and the history query),  *)
(* for any number of turns before it and however they ended.               *)
THEOREM SequentialTurnsOrdered == TurnSpec => []SequentialHistory
<1>1. ASSUME TurnInv, Ordered PROVE SequentialHistory
  <2> SUFFICES ASSUME Calm PROVE /\ \A m, n \in rows : m.seq = n.seq => m = n
                                 /\ \A r \in Turn : tpc[r] = "asking" => WellFormed(context[r] \cup RowsOf(r))
    BY DEF SequentialHistory, Calm
  <2>1. OneWrites /\ Distinct /\ Complete /\ ReadAll
    BY <1>1 DEF Ordered, Calm
  <2>2. ASSUME NEW r \in Turn, tpc[r] = "asking", NEW m \in context[r] \cup RowsOf(r),
               m.role = "assistant", NEW i \in 1 .. m.calls
        PROVE  \E t \in context[r] \cup RowsOf(r) :
                 t.role = "tool" /\ t.turn = m.turn /\ t.seq = m.seq + i
    <3>1. m \in rows /\ m.turn \in Turn
      BY <1>1, <2>2 DEF RowsOf, TurnInv, Types, TurnTypeOK, MessageRow
    <3>2. HasAnswer(m, i)
      <4>1. CASE m.turn = r
        BY <1>1, <2>2, <3>1, <4>1, SettledAnswers DEF TurnInv, IsReply
      <4>2. CASE m.turn # r
        BY <2>1, <2>2, <3>1, <4>2 DEF OneWrites, Complete, Writing, Live, Over
      <4> QED BY <4>1, <4>2
    <3>3. PICK t \in rows : t.role = "tool" /\ t.turn = m.turn /\ t.seq = m.seq + i
      BY <3>2 DEF HasAnswer
    <3>4. t \in context[r] \cup RowsOf(r)
      BY <2>1, <2>2, <3>3 DEF ReadAll, RowsOf, Writing, Live, Over
    <3> QED BY <3>3, <3>4
  <2> QED BY <2>1, <2>2 DEF Distinct, WellFormed
<1> QED BY <1>1, TurnInvHolds, OrderedHolds, PTL

----------------------------------------------------------------------------
(* Sequences of events: what a tool's output and its result follow, and how*)
(* that survives an event more, a prefix and a concatenation.              *)

OfTool(e) == e.type \in {"tool_call", "tool_output"}

(* In a sequence of events, output belongs to the call before it, and a    *)
(* result comes before the next call and before the end of the turn.       *)
Follows(h) ==
  \A k \in DOMAIN h : \A j \in 1 .. k - 1 :
    h[k].type = "tool_output" /\ OfTool(h[j]) /\ (\A i \in j + 1 .. k - 1 : h[i].type # "tool_call")
      => h[j].call = h[k].call
Settles(h) ==
  \A k \in DOMAIN h : \A j \in 1 .. k - 1 :
    h[k].type \in {"tool_call", "turn_done"} /\ OfTool(h[j])
      => \E i \in j + 1 .. k - 1 : h[i].type = "tool_result"

(* What the sequence leaves open at its end: the call whose output may     *)
(* follow, and whether a result is still to come.                          *)
OnlyOf(h, c) ==
  \A j \in DOMAIN h :
    OfTool(h[j]) /\ (\A i \in j + 1 .. Len(h) : h[i].type # "tool_call") => h[j].call = c
Settled(h) ==
  \A j \in DOMAIN h : OfTool(h[j]) => \E i \in j + 1 .. Len(h) : h[i].type = "tool_result"

LEMMA AppendItems ==
  ASSUME NEW S, NEW h \in Seq(S), NEW e \in S
  PROVE  /\ Append(h, e) \in Seq(S)
         /\ Len(h) \in Nat /\ DOMAIN h = 1 .. Len(h)
         /\ Len(Append(h, e)) = Len(h) + 1 /\ DOMAIN Append(h, e) = 1 .. Len(h) + 1
         /\ \A i \in 1 .. Len(h) : Append(h, e)[i] = h[i]
         /\ Append(h, e)[Len(h) + 1] = e
BY AppendProperties, LenProperties

LEMMA AppendFollows ==
  ASSUME NEW S, NEW h \in Seq(S), NEW e \in S, Follows(h), e.type = "tool_output" => OnlyOf(h, e.call)
  PROVE  Follows(Append(h, e))
<1> DEFINE g == Append(h, e)
<1>1. /\ Len(h) \in Nat /\ DOMAIN h = 1 .. Len(h) /\ DOMAIN g = 1 .. Len(h) + 1
      /\ \A i \in 1 .. Len(h) : g[i] = h[i]
      /\ g[Len(h) + 1] = e
  BY AppendItems
<1> HIDE DEF g
<1> SUFFICES ASSUME NEW k \in DOMAIN g, NEW j \in 1 .. k - 1, g[k].type = "tool_output", OfTool(g[j]),
                    \A i \in j + 1 .. k - 1 : g[i].type # "tool_call"
             PROVE  g[j].call = g[k].call
  BY DEF Follows, g
<1>2. CASE k \in 1 .. Len(h)
  BY <1>1, <1>2 DEF Follows
<1>3. CASE k = Len(h) + 1
  <2>1. j \in DOMAIN h /\ g[j] = h[j] /\ \A i \in j + 1 .. Len(h) : h[i].type # "tool_call"
    BY <1>1, <1>3
  <2> QED BY <1>1, <1>3, <2>1 DEF OnlyOf
<1> QED BY <1>1, <1>2, <1>3

LEMMA AppendSettles ==
  ASSUME NEW S, NEW h \in Seq(S), NEW e \in S, Settles(h),
         e.type \in {"tool_call", "turn_done"} => Settled(h)
  PROVE  Settles(Append(h, e))
<1> DEFINE g == Append(h, e)
<1>1. /\ Len(h) \in Nat /\ DOMAIN h = 1 .. Len(h) /\ DOMAIN g = 1 .. Len(h) + 1
      /\ \A i \in 1 .. Len(h) : g[i] = h[i]
      /\ g[Len(h) + 1] = e
  BY AppendItems
<1> HIDE DEF g
<1> SUFFICES ASSUME NEW k \in DOMAIN g, NEW j \in 1 .. k - 1, g[k].type \in {"tool_call", "turn_done"},
                    OfTool(g[j])
             PROVE  \E i \in j + 1 .. k - 1 : g[i].type = "tool_result"
  BY DEF Settles, g
<1>2. CASE k \in 1 .. Len(h)
  <2>1. g[j] = h[j] /\ g[k] = h[k] /\ k \in DOMAIN h
    BY <1>1, <1>2
  <2>2. PICK i \in j + 1 .. k - 1 : h[i].type = "tool_result"
    BY <2>1 DEF Settles
  <2> QED BY <1>1, <1>2, <2>2
<1>3. CASE k = Len(h) + 1
  <2>1. j \in DOMAIN h /\ g[j] = h[j] /\ g[k] = e
    BY <1>1, <1>3
  <2>2. PICK i \in j + 1 .. Len(h) : h[i].type = "tool_result"
    BY <2>1 DEF Settled
  <2> QED BY <1>1, <1>3, <2>1, <2>2
<1> QED BY <1>1, <1>2, <1>3

LEMMA AppendOnlyOf ==
  ASSUME NEW S, NEW h \in Seq(S), NEW e \in S, NEW c,
         \/ e.type = "tool_call" /\ e.call = c
         \/ OnlyOf(h, c) /\ (OfTool(e) => e.call = c)
  PROVE  OnlyOf(Append(h, e), c)
<1> DEFINE g == Append(h, e)
<1>1. /\ Len(h) \in Nat /\ DOMAIN h = 1 .. Len(h) /\ Len(g) = Len(h) + 1 /\ DOMAIN g = 1 .. Len(h) + 1
      /\ \A i \in 1 .. Len(h) : g[i] = h[i]
      /\ g[Len(h) + 1] = e
  BY AppendItems
<1> HIDE DEF g
<1> SUFFICES ASSUME NEW j \in DOMAIN g, OfTool(g[j]),
                    \A i \in j + 1 .. Len(g) : g[i].type # "tool_call"
             PROVE  g[j].call = c
  BY DEF OnlyOf, g
<1>2. CASE j \in 1 .. Len(h)
  <2>1. e.type # "tool_call"
    BY <1>1, <1>2
  <2>2. j \in DOMAIN h /\ g[j] = h[j] /\ \A i \in j + 1 .. Len(h) : h[i].type # "tool_call"
    BY <1>1, <1>2
  <2> QED BY <2>1, <2>2 DEF OnlyOf
<1>3. CASE j = Len(h) + 1
  BY <1>1, <1>3
<1> QED BY <1>1, <1>2, <1>3

LEMMA AppendSettled ==
  ASSUME NEW S, NEW h \in Seq(S), NEW e \in S,
         e.type = "tool_result" \/ (Settled(h) /\ ~OfTool(e))
  PROVE  Settled(Append(h, e))
<1> DEFINE g == Append(h, e)
<1>1. /\ Len(h) \in Nat /\ DOMAIN h = 1 .. Len(h) /\ Len(g) = Len(h) + 1 /\ DOMAIN g = 1 .. Len(h) + 1
      /\ \A i \in 1 .. Len(h) : g[i] = h[i]
      /\ g[Len(h) + 1] = e
  BY AppendItems
<1> HIDE DEF g
<1> SUFFICES ASSUME NEW j \in DOMAIN g, OfTool(g[j])
             PROVE  \E i \in j + 1 .. Len(g) : g[i].type = "tool_result"
  BY DEF Settled, g
<1>0. j \in 1 .. Len(h)
  BY <1>1 DEF OfTool
<1>2. CASE e.type = "tool_result"
  BY <1>0, <1>1, <1>2
<1>3. CASE Settled(h)
  <2>1. PICK i \in j + 1 .. Len(h) : h[i].type = "tool_result"
    BY <1>0, <1>1, <1>3 DEF Settled
  <2> QED BY <1>0, <1>1, <2>1
<1> QED BY <1>2, <1>3

(* What a sequence has left open, it still has when more of it is known,   *)
(* but for a result.                                                       *)
LEMMA AppendUnsettled ==
  ASSUME NEW S, NEW h \in Seq(S), NEW e \in S,
         OfTool(e) \/ (~Settled(h) /\ e.type # "tool_result")
  PROVE  ~Settled(Append(h, e))
<1> DEFINE g == Append(h, e)
<1>1. /\ Len(h) \in Nat /\ DOMAIN h = 1 .. Len(h) /\ Len(g) = Len(h) + 1 /\ DOMAIN g = 1 .. Len(h) + 1
      /\ \A i \in 1 .. Len(h) : g[i] = h[i]
      /\ g[Len(h) + 1] = e
  BY AppendItems
<1> HIDE DEF g
<1>2. CASE OfTool(e)
  <2>1. Len(h) + 1 \in DOMAIN g /\ OfTool(g[Len(h) + 1]) /\ Len(h) + 1 + 1 > Len(g)
    BY <1>1, <1>2
  <2>2. ~Settled(g)
    BY <1>1, <2>1 DEF Settled
  <2> QED BY <2>2 DEF g
<1>3. CASE ~Settled(h) /\ e.type # "tool_result"
  <2>1. PICK j \in DOMAIN h : OfTool(h[j]) /\ \A i \in j + 1 .. Len(h) : h[i].type # "tool_result"
    BY <1>3 DEF Settled
  <2>2. j \in DOMAIN g /\ OfTool(g[j]) /\ \A i \in j + 1 .. Len(g) : g[i].type # "tool_result"
    BY <1>1, <1>3, <2>1
  <2>3. ~Settled(g)
    BY <2>2 DEF Settled
  <2> QED BY <2>3 DEF g
<1> QED BY <1>2, <1>3

LEMMA PrefixItems ==
  ASSUME NEW S, NEW h \in Seq(S), NEW n \in 0 .. Len(h)
  PROVE  /\ SubSeq(h, 1, n) \in Seq(S) /\ DOMAIN SubSeq(h, 1, n) = 1 .. n
         /\ Len(SubSeq(h, 1, n)) = n
         /\ \A i \in 1 .. n : SubSeq(h, 1, n)[i] = h[i]
         /\ 1 .. n \subseteq DOMAIN h
<1>1. Len(h) \in Nat /\ DOMAIN h = 1 .. Len(h)
  BY LenProperties
<1>2. 1 .. n \subseteq DOMAIN h /\ \A i \in 1 .. n : h[i] \in S
  BY <1>1, ElementOfSeq
<1> QED BY <1>1, <1>2, SubSeqProperties

LEMMA PrefixKeeps ==
  ASSUME NEW S, NEW h \in Seq(S), NEW n \in 0 .. Len(h), Follows(h), Settles(h)
  PROVE  Follows(SubSeq(h, 1, n)) /\ Settles(SubSeq(h, 1, n))
<1> DEFINE g == SubSeq(h, 1, n)
<1>1. DOMAIN g = 1 .. n /\ (\A i \in 1 .. n : g[i] = h[i]) /\ 1 .. n \subseteq DOMAIN h /\ n \in Nat
  BY PrefixItems, LenProperties
<1> HIDE DEF g
<1>2. Follows(g)
  <2> SUFFICES ASSUME NEW k \in DOMAIN g, NEW j \in 1 .. k - 1, g[k].type = "tool_output",
                      OfTool(g[j]), \A i \in j + 1 .. k - 1 : g[i].type # "tool_call"
               PROVE  g[j].call = g[k].call
    BY DEF Follows
  <2>1. k \in DOMAIN h /\ h[k] = g[k] /\ h[j] = g[j]
    BY <1>1
  <2>2. \A i \in j + 1 .. k - 1 : h[i].type # "tool_call"
    BY <1>1
  <2> QED BY <2>1, <2>2 DEF Follows
<1>3. Settles(g)
  <2> SUFFICES ASSUME NEW k \in DOMAIN g, NEW j \in 1 .. k - 1,
                      g[k].type \in {"tool_call", "turn_done"}, OfTool(g[j])
               PROVE  \E i \in j + 1 .. k - 1 : g[i].type = "tool_result"
    BY DEF Settles
  <2>1. k \in DOMAIN h /\ h[k] = g[k] /\ h[j] = g[j]
    BY <1>1
  <2>2. PICK i \in j + 1 .. k - 1 : h[i].type = "tool_result"
    BY <2>1 DEF Settles
  <2>3. i \in 1 .. n
    BY <1>1, <2>2
  <2> QED BY <1>1, <2>2, <2>3
<1> QED BY <1>2, <1>3 DEF g

LEMMA NothingFollows == Follows(<<>>) /\ Settles(<<>>) /\ Settled(<<>>) /\ \A c : OnlyOf(<<>>, c)
BY DEF Follows, Settles, Settled, OnlyOf

(* A concatenation, closed to the provers.                                 *)
Joined(s, t) == s \o t

LEMMA JoinedItems ==
  ASSUME NEW S, NEW s \in Seq(S), NEW t \in Seq(S)
  PROVE  /\ Joined(s, t) \in Seq(S)
         /\ Len(Joined(s, t)) = Len(s) + Len(t)
         /\ \A i \in 1 .. Len(s) + Len(t) :
              Joined(s, t)[i] = IF i <= Len(s) THEN s[i] ELSE t[i - Len(s)]
BY ConcatProperties, Zenon DEF Joined

LEMMA JoinedTwice ==
  ASSUME NEW S, NEW s \in Seq(S), NEW t \in Seq(S), NEW u \in Seq(S)
  PROVE  Joined(Joined(s, t), u) = Joined(s, Joined(t, u))
<1>1. (s \o t) \o u = s \o (t \o u)
  BY ConcatAssociative
<1> QED BY <1>1, Zenon DEF Joined

LEMMA JoinedEmpty ==
  ASSUME NEW S, NEW s \in Seq(S)
  PROVE  Joined(s, <<>>) = s /\ Joined(<<>>, s) = s
BY ConcatEmptySeq, Zenon DEF Joined

LEMMA JoinedAppend ==
  ASSUME NEW S, NEW s \in Seq(S), NEW e \in S
  PROVE  Joined(s, <<e>>) = Append(s, e)
BY AppendIsConcat, Zenon DEF Joined

LEMMA MoveHead ==
  ASSUME NEW S, NEW a \in Seq(S), NEW b \in Seq(S), b # <<>>
  PROVE  Joined(Append(a, Head(b)), Tail(b)) = Joined(a, b)
<1> DEFINE f == <<Head(b)>>
           c == Joined(f, Tail(b))
<1>1. Head(b) \in S /\ Tail(b) \in Seq(S) /\ f \in Seq(S) /\ Len(b) \in Nat \ {0} /\ Head(b) = b[1]
  BY HeadTailProperties, EmptySeq, LenProperties
<1>2. Len(f) = 1 /\ f[1] = b[1]
  BY <1>1
<1>3. Append(a, Head(b)) = Joined(a, f)
  BY <1>1, JoinedAppend
<1> HIDE DEF f
<1>4. Len(Tail(b)) = Len(b) - 1 /\ \A i \in 1 .. Len(Tail(b)) : Tail(b)[i] = b[i + 1]
  BY HeadTailProperties
<1>5. c \in Seq(S) /\ Len(c) = Len(f) + Len(Tail(b))
      /\ \A i \in 1 .. Len(f) + Len(Tail(b)) : c[i] = IF i <= Len(f) THEN f[i] ELSE Tail(b)[i - Len(f)]
  BY <1>1, JoinedItems
<1> HIDE DEF c
<1>6. Len(c) = Len(b) /\ \A i \in 1 .. Len(b) : c[i] = b[i]
  BY <1>1, <1>2, <1>4, <1>5
<1>7. c = b
  BY <1>5, <1>6, SeqEqual
<1>8. Joined(Joined(a, f), Tail(b)) = Joined(a, Joined(f, Tail(b)))
  <2>1. \A t, u \in Seq(S) : Joined(Joined(a, t), u) = Joined(a, Joined(t, u))
    BY JoinedTwice
  <2> QED BY <1>1, <2>1
<1> QED BY <1>3, <1>7, <1>8 DEF c

LEMMA MoveOn ==
  ASSUME NEW S, NEW s \in Seq(S), NEW w \in Seq(S), NEW q \in Seq(S), q # <<>>
  PROVE  Joined(Joined(s, Append(w, Head(q))), Tail(q)) = Joined(Joined(s, w), q)
<1>1. Head(q) \in S /\ Tail(q) \in Seq(S) /\ Append(w, Head(q)) \in Seq(S)
  BY HeadTailProperties, AppendProperties
<1>2. Joined(Joined(s, Append(w, Head(q))), Tail(q)) = Joined(s, Joined(Append(w, Head(q)), Tail(q)))
  <2>1. \A t, u \in Seq(S) : Joined(Joined(s, t), u) = Joined(s, Joined(t, u))
    BY JoinedTwice
  <2> QED BY <1>1, <2>1
<1>3. Joined(Append(w, Head(q)), Tail(q)) = Joined(w, q)
  BY MoveHead
<1>4. Joined(s, Joined(w, q)) = Joined(Joined(s, w), q)
  BY JoinedTwice
<1> QED BY <1>2, <1>3, <1>4

LEMMA CutShort ==
  ASSUME NEW S, NEW s \in Seq(S), NEW w \in Seq(S), NEW q \in Seq(S), NEW n \in 0 .. Len(w)
  PROVE  \E m \in 0 .. Len(Joined(Joined(s, w), q)) :
           Joined(s, SubSeq(w, 1, n)) = SubSeq(Joined(Joined(s, w), q), 1, m)
<1> DEFINE sw == Joined(s, w)
           h == Joined(sw, q)
           v == SubSeq(w, 1, n)
           sv == Joined(s, v)
           m == Len(s) + n
           p == SubSeq(h, 1, m)
<1>1. v \in Seq(S) /\ Len(v) = n /\ \A i \in 1 .. n : v[i] = w[i]
  BY PrefixItems
<1> HIDE DEF v
<1>2. /\ sw \in Seq(S) /\ Len(sw) = Len(s) + Len(w)
      /\ \A i \in 1 .. Len(s) + Len(w) : sw[i] = IF i <= Len(s) THEN s[i] ELSE w[i - Len(s)]
  BY JoinedItems
<1> HIDE DEF sw
<1>3. /\ h \in Seq(S) /\ Len(h) = Len(sw) + Len(q)
      /\ \A i \in 1 .. Len(sw) + Len(q) : h[i] = IF i <= Len(sw) THEN sw[i] ELSE q[i - Len(sw)]
  <2>1. sw \in Seq(S)
    BY <1>2
  <2> QED BY <2>1, JoinedItems, Zenon
<1>4. Len(s) \in Nat /\ Len(w) \in Nat /\ Len(q) \in Nat /\ n \in Nat /\ n <= Len(w)
  BY LenProperties
<1>5. /\ sv \in Seq(S) /\ Len(sv) = Len(s) + Len(v)
      /\ \A i \in 1 .. Len(s) + Len(v) : sv[i] = IF i <= Len(s) THEN s[i] ELSE v[i - Len(s)]
  BY <1>1, JoinedItems
<1> HIDE DEF h, sv
<1>6. m \in 0 .. Len(h)
  BY <1>2, <1>3, <1>4
<1>7. p \in Seq(S) /\ Len(p) = m /\ \A i \in 1 .. m : p[i] = h[i]
  BY <1>3, <1>6, PrefixItems
<1> HIDE DEF p
<1>8. ASSUME NEW i \in 1 .. m PROVE p[i] = sv[i]
  <2>1. i \in 1 .. Len(s) + Len(w) /\ p[i] = sw[i]
    BY <1>2, <1>3, <1>4, <1>7
  <2>2. CASE i <= Len(s)
    BY <1>1, <1>2, <1>4, <1>5, <2>1, <2>2
  <2>3. CASE ~(i <= Len(s))
    <3>1. i - Len(s) \in 1 .. n
      BY <1>4, <2>3
    <3>2. sw[i] = w[i - Len(s)] /\ sv[i] = v[i - Len(s)]
      BY <1>1, <1>2, <1>4, <1>5, <2>1, <2>3
    <3> QED BY <1>1, <2>1, <3>1, <3>2
  <2> QED BY <2>2, <2>3
<1>9. sv = p
  BY <1>1, <1>5, <1>7, <1>8, SeqEqual
<1> QED BY <1>6, <1>9 DEF h, p, sv, sw, v

LEMMA CutLast ==
  ASSUME NEW S, NEW s \in Seq(S), NEW w \in Seq(S), NEW n \in 0 .. Len(w)
  PROVE  \E m \in 0 .. Len(Joined(s, w)) : Joined(s, SubSeq(w, 1, n)) = SubSeq(Joined(s, w), 1, m)
<1> DEFINE q == <<>>
<1>1. q \in Seq(S)
  BY EmptySeq
<1>2. Joined(Joined(s, w), q) = Joined(s, w)
  <2>1. Joined(s, w) \in Seq(S)
    BY JoinedItems
  <2> QED BY <2>1, JoinedEmpty
<1> HIDE DEF q
<1>3. \E m \in 0 .. Len(Joined(Joined(s, w), q)) :
        Joined(s, SubSeq(w, 1, n)) = SubSeq(Joined(Joined(s, w), q), 1, m)
  BY <1>1, CutShort
<1> QED BY <1>2, <1>3

----------------------------------------------------------------------------
(* What a step of a turn publishes.                                        *)

(* What the server publishes: a call and its output name the call, a       *)
(* result has a status.                                                    *)
GoodEvent == {e \in Event : /\ e.type \in {"tool_call", "tool_output"} => e.call # 0
                            /\ e.type = "tool_result" => e.status # "none"}

Locals(q) ==
  /\ tpc[q] = "running" => parsed[q]
  /\ tpc[q] = "result" => outcome[q] # "none"

(* A step of q that publishes nothing of a tool.                           *)
Plain(q) == tpc[q] \notin {"running", "result"} /\ tpc'[q] # "running"

(* A step of q that publishes e.                                           *)
Spoken(q, e) ==
  \/ e.type \in {"turn_started", "assistant", "approval_required", "turn_error"} /\ Plain(q)
  \/ e.type = "turn_done" /\ tpc[q] \in {"replied", "auditing"} /\ tpc'[q] = "finishing"
  \/ /\ e.type = "tool_call" /\ e.call = last[q] + 1
     /\ tpc[q] \in {"replied", "auditing"} /\ tpc'[q] = "running" /\ last'[q] = last[q]
  \/ /\ e.type = "tool_output" /\ e.call = last[q] + 1
     /\ tpc[q] = "running" /\ UNCHANGED <<tpc, last, parsed>>
  \/ e.type = "tool_result" /\ tpc[q] = "result" /\ tpc'[q] = "auditing"

Says(q, evs) ==
  /\ Writing(q)
  /\ \/ evs = <<>> /\ Plain(q)
     \/ \E e \in GoodEvent :
          /\ Spoken(q, e) /\ (Closing(e) => ~Writing(q)')
          /\ \/ evs = <<e>>
             \/ evs = <<Ev("assistant"), e>> /\ tpc[q] = "replied"

(* A step of q that publishes nothing.                                     *)
Hush(q) ==
  /\ tpc'[q] # "running"
  /\ tpc[q] = "running" => tpc'[q] = "result" /\ parsed'[q] = parsed[q]
  /\ tpc[q] = "result" => ~parsed[q]

LEMMA GoodEvents ==
  /\ \A t \in EventType \ {"tool_call", "tool_output", "tool_result"} : Ev(t) \in GoodEvent
  /\ \A t \in {"tool_call", "tool_output"}, c \in Nat : CallEv(t, c + 1) \in GoodEvent
  /\ \A c \in Nat, s \in {"completed", "failed"} : ResultEv(c, s) \in GoodEvent
BY DEF GoodEvent, Event, EventType, Outcome, Ev, CallEv, ResultEv

LEMMA EventFields ==
  /\ \A t : Ev(t).type = t
  /\ \A t, c : CallEv(t, c).type = t /\ CallEv(t, c).call = c
  /\ \A c, s : ResultEv(c, s).type = "tool_result"
BY DEF Ev, CallEv, ResultEv

LEMMA AfterAnother ==
  ASSUME NEW S, NEW a \in S, NEW e \in S
  PROVE  Append(<<a>>, e) = <<a, e>>
<1> DEFINE f == Append(<<a>>, e)
           g == <<a, e>>
<1>1. <<a>> \in Seq(S) /\ g \in Seq(S) /\ Len(g) = 2 /\ g[1] = a /\ g[2] = e
  OBVIOUS
<1>2. f \in Seq(S) /\ Len(f) = 2 /\ f[1] = a /\ f[2] = e
  BY <1>1, AppendItems
<1> HIDE DEF f, g
<1>3. f = g
  <2>1. \A i \in 1 .. Len(f) : f[i] = g[i]
    BY <1>1, <1>2
  <2> QED BY <1>1, <1>2, <2>1, SeqEqual
<1> QED BY <1>3 DEF f, g

LEMMA EnterSays ==
  ASSUME Types, NEW q \in Turn, NEW kind \in CallKind, NEW evs, Enter(q, kind, evs),
         tpc[q] \in {"replied", "auditing"}
  PROVE  /\ Locals(q)'
         /\ \/ Publish(evs) /\ Plain(q)
            \/ \E e \in GoodEvent :
                 Publish(Append(evs, e)) /\ Spoken(q, e) /\ ~Closing(e)
<1>0. /\ tpc \in [Turn -> TurnPC] /\ last \in [Turn -> Nat]
      /\ outcome \in [Turn -> Outcome] /\ parsed \in [Turn -> BOOLEAN]
  BY DEF Types, TurnTypeOK
<1>1. CASE kind = "run"
  <2> DEFINE e == CallEv("tool_call", last[q] + 1)
  <2>1. e \in GoodEvent /\ e.type = "tool_call" /\ e.call = last[q] + 1
    BY <1>0, GoodEvents, EventFields
  <2>2. Publish(Append(evs, e)) /\ tpc'[q] = "running" /\ last' = last /\ parsed'[q] = TRUE
    BY <1>0, <1>1 DEF Enter
  <2> HIDE DEF e
  <2>3. Spoken(q, e) /\ ~Closing(e)
    BY <2>1, <2>2 DEF Spoken, Closing
  <2> QED BY <2>1, <2>2, <2>3 DEF Locals
<1>2. CASE kind # "run"
  BY <1>0, <1>2 DEF Enter, CallKind, Locals, Plain
<1> QED BY <1>1, <1>2

LEMMA StepSays ==
  ASSUME Types, NEW q \in Turn, Locals(q), Begin(q) \/ TurnStep(q) \/ ToolOutput(q)
  PROVE  /\ Locals(q)'
         /\ \/ UNCHANGED busVars /\ Hush(q)
            \/ \E evs \in Seq(GoodEvent) : Publish(evs) /\ Says(q, evs)
<1> USE DEF Locals, Hush, Plain, Writing, Live, Over
<1>0. /\ tpc \in [Turn -> TurnPC] /\ last \in [Turn -> Nat] /\ todo \in [Turn -> Seq(CallKind)]
      /\ outcome \in [Turn -> Outcome] /\ parsed \in [Turn -> BOOLEAN]
  BY DEF Types, TurnTypeOK
<1>e. \A e \in GoodEvent : <<e>> \in Seq(GoodEvent)
  OBVIOUS
<1>f. \A e \in GoodEvent : <<Ev("assistant"), e>> \in Seq(GoodEvent)
  <2>1. Ev("assistant") \in GoodEvent
    BY GoodEvents DEF EventType
  <2> QED BY <2>1
<1>1. CASE Begin(q) \/ StoreUser(q) \/ ReadHistory(q)
  BY <1>0, <1>1 DEF Begin, StoreUser, ReadHistory
<1>2. CASE NoBackend(q) \/ Malformed(q) \/ ArgsUnbound(q) \/ Finish(q)
  BY <1>0, <1>2 DEF NoBackend, Malformed, ArgsUnbound, Finish, End
<1>3. CASE \E n \in 0 .. MaxCalls : \E kinds \in [1 .. n -> CallKind] : Reply(q, kinds)
  BY <1>0, <1>3 DEF Reply
<1>4. CASE ToolReturns(q)
  BY <1>0, <1>4 DEF ToolReturns
<1>5. CASE StartLoop(q)
  <2>1. Publish(<<Ev("turn_started")>>) /\ tpc[q] = "preparing" /\ tpc'[q] = "asking"
    BY <1>0, <1>5 DEF StartLoop
  <2>2. Ev("turn_started") \in GoodEvent /\ Ev("turn_started").type = "turn_started"
    BY GoodEvents, EventFields DEF EventType
  <2>3. Says(q, <<Ev("turn_started")>>)
    BY <2>1, <2>2 DEF Says, Spoken, Closing
  <2> QED BY <1>e, <2>1, <2>2, <2>3
<1>6. CASE ModelFails(q)
  <2>1. Publish(<<Ev("turn_error")>>) /\ tpc[q] = "asking" /\ tpc'[q] = "failed"
    BY <1>0, <1>6 DEF ModelFails, End
  <2>2. Ev("turn_error") \in GoodEvent /\ Ev("turn_error").type = "turn_error"
    BY GoodEvents, EventFields DEF EventType
  <2>3. Says(q, <<Ev("turn_error")>>)
    BY <2>1, <2>2 DEF Says, Spoken
  <2> QED BY <1>e, <2>1, <2>2, <2>3
<1>7. CASE StoreApproval(q)
  <2>1. /\ Publish(<<Ev("approval_required")>>) /\ tpc[q] = "approving" /\ tpc'[q] = "result"
        /\ outcome'[q] = "completed"
    BY <1>0, <1>7 DEF StoreApproval
  <2>2. Ev("approval_required") \in GoodEvent /\ Ev("approval_required").type = "approval_required"
    BY GoodEvents, EventFields DEF EventType
  <2>3. Says(q, <<Ev("approval_required")>>)
    BY <2>1, <2>2 DEF Says, Spoken, Closing
  <2> QED BY <1>e, <2>1, <2>2, <2>3
<1>8. CASE ToolOutput(q)
  <2> DEFINE e == CallEv("tool_output", last[q] + 1)
  <2>1. Publish(<<e>>) /\ tpc[q] = "running" /\ UNCHANGED <<tpc, last, parsed, outcome>>
    BY <1>8 DEF ToolOutput
  <2>2. e \in GoodEvent /\ e.type = "tool_output" /\ e.call = last[q] + 1
    BY <1>0, GoodEvents, EventFields
  <2> HIDE DEF e
  <2>3. Says(q, <<e>>)
    BY <2>1, <2>2 DEF Says, Spoken, Closing
  <2> QED BY <1>e, <2>1, <2>2, <2>3
<1>9. CASE StoreTool(q)
  <2> DEFINE e == ResultEv(last[q], outcome[q])
  <2>1. Publish(<<e>>) /\ tpc[q] = "result" /\ tpc'[q] = "auditing"
    BY <1>0, <1>9 DEF StoreTool
  <2>2. e \in GoodEvent /\ e.type = "tool_result"
    <3>1. outcome[q] \in {"completed", "failed"}
      BY <1>0, <2>1 DEF Outcome
    <3> QED BY <1>0, <3>1, GoodEvents, EventFields
  <2> HIDE DEF e
  <2>3. Says(q, <<e>>)
    BY <2>1, <2>2 DEF Says, Spoken, Closing
  <2> QED BY <1>e, <2>1, <2>2, <2>3
<1>10. CASE StoreAssistant(q)
  <2>0. tpc[q] = "replied"
    BY <1>10 DEF StoreAssistant
  <2>1. CASE todo[q] = <<>>
    <3>1. Publish(<<Ev("assistant"), Ev("turn_done")>>) /\ tpc'[q] = "finishing"
      BY <1>0, <1>10, <2>1 DEF StoreAssistant
    <3>2. Ev("turn_done") \in GoodEvent /\ Ev("turn_done").type = "turn_done"
      BY GoodEvents, EventFields DEF EventType
    <3>3. Says(q, <<Ev("assistant"), Ev("turn_done")>>)
      BY <2>0, <3>1, <3>2 DEF Says, Spoken
    <3> QED BY <1>f, <3>1, <3>2, <3>3
  <2>2. CASE todo[q] # <<>>
    <3>1. Enter(q, Head(todo[q]), <<Ev("assistant")>>) /\ Head(todo[q]) \in CallKind
      BY <1>0, <1>10, <2>2, HeadTailProperties DEF StoreAssistant
    <3>2. Locals(q)'
      BY <2>0, <3>1, EnterSays
    <3>3. Ev("assistant") \in GoodEvent /\ Ev("assistant").type = "assistant"
      BY GoodEvents, EventFields DEF EventType
    <3>4. CASE Publish(<<Ev("assistant")>>) /\ Plain(q)
      <4>1. Says(q, <<Ev("assistant")>>)
        BY <2>0, <3>3, <3>4 DEF Says, Spoken, Closing
      <4> QED BY <1>e, <3>2, <3>3, <3>4, <4>1
    <3>5. ASSUME NEW e \in GoodEvent, Publish(Append(<<Ev("assistant")>>, e)), Spoken(q, e), ~Closing(e)
          PROVE  \E evs \in Seq(GoodEvent) : Publish(evs) /\ Says(q, evs)
      <4>1. Append(<<Ev("assistant")>>, e) = <<Ev("assistant"), e>>
        BY <3>3, <3>5, AfterAnother
      <4>2. Says(q, <<Ev("assistant"), e>>)
        BY <2>0, <3>5 DEF Says
      <4> QED BY <1>f, <3>5, <4>1, <4>2
    <3> QED BY <2>0, <3>1, <3>2, <3>4, <3>5, EnterSays
  <2> QED BY <2>1, <2>2
<1>11. CASE StoreAudit(q)
  <2>0. tpc[q] = "auditing"
    BY <1>11 DEF StoreAudit
  <2>1. CASE Len(todo[q]) > 1
    <3>1. Enter(q, todo[q][2], <<>>) /\ todo[q][2] \in CallKind
      BY <1>0, <1>11, <2>1, TailProperties DEF StoreAudit, Advance
    <3>2. Locals(q)'
      BY <2>0, <3>1, EnterSays
    <3>3. CASE Publish(<<>>) /\ Plain(q)
      <4>1. Says(q, <<>>)
        BY <2>0, <3>3 DEF Says
      <4> QED BY <3>2, <3>3, <4>1, EmptySeq
    <3>4. ASSUME NEW e \in GoodEvent, Publish(Append(<<>>, e)), Spoken(q, e), ~Closing(e)
          PROVE  \E evs \in Seq(GoodEvent) : Publish(evs) /\ Says(q, evs)
      <4>1. Append(<<>>, e) = <<e>>
        OBVIOUS
      <4>2. Says(q, <<e>>)
        BY <2>0, <3>4 DEF Says
      <4> QED BY <1>e, <3>4, <4>1, <4>2
    <3> QED BY <2>0, <3>1, <3>2, <3>3, <3>4, EnterSays
  <2>2. CASE ~(Len(todo[q]) > 1)
    <3>1. CASE steps[q] < MaxSteps
      BY <1>0, <1>11, <2>0, <2>2, <3>1 DEF StoreAudit, Advance
    <3>2. CASE ~(steps[q] < MaxSteps)
      <4>1. Publish(<<Ev("turn_done")>>) /\ tpc'[q] = "finishing"
        BY <1>0, <1>11, <2>2, <3>2 DEF StoreAudit, Advance
      <4>2. Ev("turn_done") \in GoodEvent /\ Ev("turn_done").type = "turn_done"
        BY GoodEvents, EventFields DEF EventType
      <4>3. Says(q, <<Ev("turn_done")>>)
        BY <2>0, <4>1, <4>2 DEF Says, Spoken
      <4> QED BY <1>e, <4>1, <4>2, <4>3
    <3> QED BY <3>1, <3>2
  <2> QED BY <2>1, <2>2
<1> QED
  BY <1>1, <1>2, <1>3, <1>4, <1>5, <1>6, <1>7, <1>8, <1>9, <1>10, <1>11 DEF TurnStep

----------------------------------------------------------------------------
(* Where handler, socket and page are with one message, and the path of its*)
(* events: those seen, those on the socket, those in its queue.            *)

(* The events of r on the socket, without the frame that says "subscribed",*)
(* those still in its queue, and all the open stream has given or will.    *)
Frames(r) == IF post[r] = "none" /\ wire[r] # <<>> THEN Tail(wire[r]) ELSE wire[r]
Pending(r) == IF Connected(r) THEN queue[r] ELSE <<>>
Path(r) == Joined(Joined(seen[r], Frames(r)), Pending(r))

Frame == GoodEvent \cup {Subscribed}

View == [status : {"none", "streaming", "done", "error"}, panels : Seq(Panel)]

PageTypes ==
  /\ hand \in [Turn -> {"none", "checking", "serving", "closed", "dead"}]
  /\ subs \subseteq Turn
  /\ queue \in [Turn -> Seq(GoodEvent)]
  /\ due \in [Turn -> Seq(GoodEvent)]
  /\ seen \in [Turn -> Seq(GoodEvent)]
  /\ full \in [Turn -> BOOLEAN]
  /\ conn \in [Turn -> {"new", "up", "live", "down"}]
  /\ wire \in [Turn -> Seq(Frame)]
  /\ sending \in BOOLEAN
  /\ post \in [Turn -> {"none", "sync", "async", "back"}]
  /\ stream \in [Turn -> {"none", "open", "closed", "lost"}]
  /\ view \in View
  /\ cuts \in 0 .. MaxCuts
  /\ crossed \in BOOLEAN

(* Where the handler, the socket and the page are with one message.        *)
Stage(r) ==
  /\ conn[r] = "new" <=> hand[r] = "none"
  /\ conn[r] = "new" => wire[r] = <<>> /\ post[r] = "none"
  /\ hand[r] \in {"none", "checking"} => queue[r] = <<>>
  /\ conn[r] = "up" => /\ post[r] = "none" /\ hand[r] \in {"checking", "serving"}
                       /\ hand[r] = "serving" => r \in subs
                       /\ wire[r] = <<>> <=> hand[r] = "checking"
  /\ conn[r] = "live" => hand[r] = "serving" /\ r \in subs /\ stream[r] = "open"
  /\ conn[r] # "live" => due[r] = <<>>
  /\ stream[r] # "open" => seen[r] = <<>>
  /\ post[r] \in {"none", "sync"} => stream[r] = "none"
  /\ tpc[r] # "idle" => post[r] # "none"

(* The answer to "subscribe" comes before all events.                      *)
AckFirst(r) ==
  /\ post[r] = "none" /\ wire[r] # <<>> => Head(wire[r]) = Subscribed
  /\ Frames(r) \in Seq(GoodEvent)

Shape == PageTypes /\ \A r \in Turn : Stage(r) /\ AckFirst(r)

(* What a step that publishes nothing does to the path of r.               *)
Moves(r) ==
  \/ Path(r)' = Path(r) /\ (Connected(r)' => Connected(r))
  \/ ~Connected(r)' /\ \E n \in 0 .. Len(Path(r)) : Path(r)' = SubSeq(Path(r), 1, n)
  \/ Path(r)' = <<>> /\ conn'[r] # "live"

(* A step leaves q alone.                                                  *)
Spares(q) ==
  /\ hand'[q] = hand[q] /\ queue'[q] = queue[q] /\ conn'[q] = conn[q] /\ wire'[q] = wire[q]
  /\ due'[q] = due[q] /\ full'[q] = full[q] /\ post'[q] = post[q] /\ stream'[q] = stream[q]
  /\ seen'[q] = seen[q] /\ tpc'[q] = tpc[q] /\ (q \in subs' <=> q \in subs)

LEMMA GoodIsFrame == GoodEvent \subseteq Frame /\ Subscribed \in Frame /\ Subscribed \notin GoodEvent
BY DEF Frame, GoodEvent, Event, EventType, Subscribed

LEMMA SparedShape ==
  ASSUME NEW q \in Turn, Spares(q), Stage(q), AckFirst(q)
  PROVE  Stage(q)' /\ AckFirst(q)' /\ Moves(q)
BY DEF Spares, Stage, AckFirst, Moves, Path, Frames, Pending, Connected

LEMMA NoEvents == <<>> \in Seq(GoodEvent) /\ <<>> \in Seq(Frame) /\ Joined(Joined(<<>>, <<>>), <<>>) = <<>>
<1>1. <<>> \in Seq(GoodEvent) /\ <<>> \in Seq(Frame)
  BY EmptySeq
<1> QED BY <1>1, JoinedEmpty

LEMMA TailAppend ==
  ASSUME NEW S, NEW w \in Seq(S), w # <<>>, NEW e \in S
  PROVE  /\ Tail(Append(w, e)) = Append(Tail(w), e) /\ Append(w, e) # <<>>
         /\ Head(Append(w, e)) = Head(w)
<1> DEFINE g == Append(w, e)
           a == Tail(g)
           b == Append(Tail(w), e)
<1>1. /\ g \in Seq(S) /\ Len(g) = Len(w) + 1 /\ Len(w) \in Nat \ {0}
      /\ \A i \in 1 .. Len(w) : g[i] = w[i]
      /\ g[Len(w) + 1] = e
  BY AppendItems, EmptySeq
<1> HIDE DEF g
<1>2. g # <<>> /\ Head(g) = Head(w)
  <2>1. g # <<>>
    BY <1>1
  <2>2. Head(g) = g[1] /\ Head(w) = w[1]
    BY <1>1, <2>1, HeadTailProperties
  <2> QED BY <1>1, <2>1, <2>2
<1>3. /\ a \in Seq(S) /\ Len(a) = Len(w) /\ \A i \in 1 .. Len(w) : a[i] = g[i + 1]
  BY <1>1, <1>2, HeadTailProperties
<1>4. /\ Tail(w) \in Seq(S) /\ Len(Tail(w)) = Len(w) - 1
      /\ \A i \in 1 .. Len(w) - 1 : Tail(w)[i] = w[i + 1]
  BY HeadTailProperties
<1>5. /\ b \in Seq(S) /\ Len(b) = Len(w) /\ \A i \in 1 .. Len(w) - 1 : b[i] = Tail(w)[i]
      /\ b[Len(w)] = e
  BY <1>1, <1>4, AppendItems
<1> HIDE DEF a, b
<1>6. ASSUME NEW i \in 1 .. Len(a) PROVE a[i] = b[i]
  <2>1. CASE i \in 1 .. Len(w) - 1
    BY <1>1, <1>3, <1>4, <1>5, <2>1
  <2>2. CASE i = Len(w)
    BY <1>1, <1>3, <1>5, <2>2
  <2> QED BY <1>1, <1>3, <2>1, <2>2
<1>7. a = b
  BY <1>3, <1>5, <1>6, SeqEqual
<1> QED BY <1>2, <1>7 DEF a, b, g

LEMMA TailPrefix ==
  ASSUME NEW S, NEW w \in Seq(S), w # <<>>, NEW n \in 0 .. Len(w), n # 0
  PROVE  /\ SubSeq(w, 1, n) # <<>> /\ Head(SubSeq(w, 1, n)) = Head(w)
         /\ n - 1 \in 0 .. Len(Tail(w))
         /\ Tail(SubSeq(w, 1, n)) = SubSeq(Tail(w), 1, n - 1)
<1> DEFINE g == SubSeq(w, 1, n)
           a == Tail(g)
           b == SubSeq(Tail(w), 1, n - 1)
<1>1. /\ g \in Seq(S) /\ Len(g) = n /\ Len(w) \in Nat \ {0} /\ n \in Nat \ {0} /\ n <= Len(w)
      /\ \A i \in 1 .. n : g[i] = w[i]
  BY PrefixItems, EmptySeq, LenProperties
<1> HIDE DEF g
<1>2. g # <<>> /\ Head(g) = Head(w)
  <2>1. g # <<>>
    BY <1>1
  <2>2. Head(g) = g[1] /\ Head(w) = w[1]
    BY <1>1, <2>1, HeadTailProperties
  <2> QED BY <1>1, <2>1, <2>2
<1>3. /\ a \in Seq(S) /\ Len(a) = n - 1 /\ \A i \in 1 .. n - 1 : a[i] = g[i + 1]
  BY <1>1, <1>2, HeadTailProperties
<1>4. /\ Tail(w) \in Seq(S) /\ Len(Tail(w)) = Len(w) - 1
      /\ \A i \in 1 .. Len(w) - 1 : Tail(w)[i] = w[i + 1]
  BY HeadTailProperties
<1>0. n - 1 \in 0 .. Len(Tail(w))
  BY <1>1, <1>4
<1>5. /\ b \in Seq(S) /\ Len(b) = n - 1 /\ \A i \in 1 .. n - 1 : b[i] = Tail(w)[i]
  BY <1>0, <1>4, PrefixItems
<1> HIDE DEF a, b
<1>6. ASSUME NEW i \in 1 .. Len(a) PROVE a[i] = b[i]
  <2>1. i + 1 \in 1 .. n /\ i \in 1 .. Len(w) - 1 /\ i \in 1 .. n - 1
    BY <1>1, <1>3
  <2> QED BY <1>1, <1>3, <1>4, <1>5, <2>1
<1>7. a = b
  BY <1>3, <1>5, <1>6, SeqEqual
<1> QED BY <1>0, <1>2, <1>7 DEF a, b, g

----------------------------------------------------------------------------
(* The reducer keeps the view's type.                                      *)

(* The panel that output goes to is one of its task, else the last.        *)
LEMMA LatestIsOne ==
  ASSUME NEW ps \in Seq(Panel), ps # <<>>, NEW c
  PROVE  /\ LatestTool(ps, c) \in DOMAIN ps
         /\ \/ ps[LatestTool(ps, c)].task = c
            \/ LatestTool(ps, c) = Len(ps) /\ \A i \in DOMAIN ps : ps[i].task # c
<1> DEFINE own == {i \in DOMAIN ps : ps[i].task = c}
<1>1. Len(ps) \in Nat \ {0} /\ DOMAIN ps = 1 .. Len(ps)
  BY LenProperties, EmptySeq
<1>2. own \subseteq Nat
  BY <1>1
<1>3. CASE own # {}
  <2>1. \E i \in own : \A j \in own : i <= j
    <3>1. PICK i \in own : \A j \in own : <<j, i>> \notin OpToRel(<, Nat)
      BY <1>2, <1>3, NatLessThanWellFounded, WFMin
    <3>2. \A j \in own : ~(j < i)
      BY <1>2, <3>1 DEF OpToRel
    <3> QED BY <1>2, <3>2
  <2>2. LatestTool(ps, c) = CHOOSE i \in own : \A j \in own : i <= j
    BY <1>3 DEF LatestTool
  <2>3. LatestTool(ps, c) \in own
    BY <2>1, <2>2
  <2> QED BY <2>3
<1>4. CASE own = {}
  <2>1. LatestTool(ps, c) = Len(ps)
    BY <1>4 DEF LatestTool
  <2>2. Len(ps) \in DOMAIN ps /\ \A i \in DOMAIN ps : ps[i].task # c
    BY <1>1, <1>4
  <2> QED BY <2>1, <2>2
<1> QED BY <1>3, <1>4

LEMMA NoneLatest == \A c : LatestTool(<<>>, c) = 0
BY DEF LatestTool

LEMMA PanelSet ==
  ASSUME NEW ps \in Seq(Panel), NEW i \in DOMAIN ps, NEW p \in Panel
  PROVE  /\ [ps EXCEPT ![i] = p] \in Seq(Panel)
         /\ Len([ps EXCEPT ![i] = p]) = Len(ps) /\ DOMAIN [ps EXCEPT ![i] = p] = DOMAIN ps
         /\ [ps EXCEPT ![i] = p][i] = p /\ \A j \in DOMAIN ps \ {i} : [ps EXCEPT ![i] = p][j] = ps[j]
<1>1. DOMAIN ps = 1 .. Len(ps)
  BY LenProperties
<1> QED BY <1>1, ExceptSeq

(* What output and a result do to the panel they go to.                    *)
WithOutput(p, c) == [p EXCEPT !.outs = @ \cup {c}, !.task = IF @ = 0 THEN c ELSE @]
WithResult(p, e) == [p EXCEPT !.status = e.status, !.by = e.call]

LEMMA OutputPanels ==
  ASSUME NEW ps \in Seq(Panel), ps # <<>>, NEW c \in Nat
  PROVE  /\ LatestTool(ps, c) \in DOMAIN ps /\ ps[LatestTool(ps, c)] \in Panel
         /\ WithOutput(ps[LatestTool(ps, c)], c) \in Panel
         /\ AddOutput(ps, c) = [ps EXCEPT ![LatestTool(ps, c)] = WithOutput(ps[LatestTool(ps, c)], c)]
<1> DEFINE i == LatestTool(ps, c)
<1>1. i \in DOMAIN ps
  BY LatestIsOne
<1> HIDE DEF i
<1>2. DOMAIN ps = 1 .. Len(ps) /\ Len(ps) \in Nat
  BY LenProperties
<1>3. ps[i] \in Panel
  BY <1>1, <1>2, ElementOfSeq
<1>4. WithOutput(ps[i], c) \in Panel
  BY <1>3 DEF Panel, WithOutput
<1>5. AddOutput(ps, c) = [ps EXCEPT ![i] = WithOutput(ps[i], c)]
  <2>1. AddOutput(ps, c)
          = [ps EXCEPT ![i].outs = @ \cup {c}, ![i].task = IF @ = 0 THEN c ELSE @]
    BY <1>1, <1>2 DEF AddOutput, i
  <2>2. DOMAIN ps[i] = {"call", "task", "outs", "status", "by"}
    BY <1>3 DEF Panel
  <2> QED BY <1>1, <1>2, <2>1, <2>2 DEF WithOutput
<1> QED BY <1>1, <1>3, <1>4, <1>5 DEF i

LEMMA ResultPanels ==
  ASSUME NEW ps \in Seq(Panel), ps # <<>>, NEW e \in GoodEvent, e.type = "tool_result"
  PROVE  /\ Len(ps) \in DOMAIN ps /\ ps[Len(ps)] \in Panel /\ WithResult(ps[Len(ps)], e) \in Panel
         /\ AddResult(ps, e) = [ps EXCEPT ![Len(ps)] = WithResult(ps[Len(ps)], e)]
<1> DEFINE i == Len(ps)
<1>0. e.call \in Nat /\ e.status \in {"completed", "failed"}
  BY DEF GoodEvent, Event, Outcome
<1>1. DOMAIN ps = 1 .. Len(ps) /\ Len(ps) \in Nat \ {0}
  BY LenProperties, EmptySeq
<1>2. i \in DOMAIN ps /\ ps[i] \in Panel
  BY <1>1, ElementOfSeq
<1>3. WithResult(ps[i], e) \in Panel
  BY <1>0, <1>2 DEF Panel, WithResult
<1>4. AddResult(ps, e) = [ps EXCEPT ![i] = WithResult(ps[i], e)]
  BY <1>1, <1>2 DEF AddResult, Panel, WithResult
<1> QED BY <1>2, <1>3, <1>4

LEMMA ApplyTypes ==
  ASSUME NEW v \in View, NEW e \in GoodEvent
  PROVE  Apply(v, e) \in View
<1>0. /\ e.type \in EventType /\ e.call \in Nat /\ e.status \in Outcome
      /\ e.type = "tool_result" => e.status \in {"completed", "failed"}
      /\ v.panels \in Seq(Panel) /\ v.status \in {"none", "streaming", "done", "error"}
  BY DEF GoodEvent, Event, View, Outcome
<1>p. ASSUME NEW ps \in Seq(Panel) PROVE [v EXCEPT !.panels = ps] \in View
  BY DEF View
<1>s. ASSUME NEW s \in {"none", "streaming", "done", "error"} PROVE [v EXCEPT !.status = s] \in View
  BY DEF View
<1>1. CASE e.type \notin {"tool_call", "tool_output", "tool_result"}
  BY <1>1, <1>s DEF Apply
<1>2. CASE e.type = "tool_call"
  <2>1. NewPanel(e.call, 0, {}) \in Panel
    BY <1>0 DEF NewPanel, Panel
  <2>2. Append(v.panels, NewPanel(e.call, 0, {})) \in Seq(Panel)
    BY <1>0, <2>1, AppendProperties
  <2> QED BY <1>2, <1>p, <2>2 DEF Apply
<1>3. CASE e.type = "tool_output"
  <2> DEFINE ps == v.panels
             i == LatestTool(ps, e.call)
  <2>1. AddOutput(ps, e.call) \in Seq(Panel)
    <3>1. CASE ps = <<>>
      <4>1. NewPanel(0, e.call, {e.call}) \in Panel
        BY <1>0 DEF NewPanel, Panel
      <4>2. AddOutput(ps, e.call) = <<NewPanel(0, e.call, {e.call})>>
        BY <3>1, NoneLatest DEF AddOutput
      <4> QED BY <4>1, <4>2
    <3>2. CASE ps # <<>>
      <4>1. i \in DOMAIN ps /\ WithOutput(ps[i], e.call) \in Panel
            /\ AddOutput(ps, e.call) = [ps EXCEPT ![i] = WithOutput(ps[i], e.call)]
        BY <1>0, <3>2, OutputPanels
      <4> HIDE DEF i
      <4> QED BY <1>0, <4>1, PanelSet
    <3> QED BY <3>1, <3>2
  <2> QED BY <1>3, <1>p, <2>1 DEF Apply
<1>4. CASE e.type = "tool_result"
  <2> DEFINE ps == v.panels
             i == Len(ps)
  <2>1. AddResult(ps, e) \in Seq(Panel)
    <3>1. CASE ps = <<>>
      BY <1>0, <3>1 DEF AddResult
    <3>2. CASE ps # <<>>
      <4>1. i \in DOMAIN ps /\ WithResult(ps[i], e) \in Panel
            /\ AddResult(ps, e) = [ps EXCEPT ![i] = WithResult(ps[i], e)]
        BY <1>0, <1>4, <3>2, ResultPanels
      <4> HIDE DEF i
      <4> QED BY <1>0, <4>1, PanelSet
    <3> QED BY <3>1, <3>2
  <2> QED BY <1>4, <1>p, <2>1 DEF Apply
<1> QED BY <1>1, <1>2, <1>3, <1>4

----------------------------------------------------------------------------
(* The steps with one message: types.                                      *)

(* A step of the page, of the handler or of the network with message r.    *)
Mine(r) ==
  /\ Send(r) \/ PageStep(r) \/ PostCut(r) \/ StreamCut(r) \/ (HandlerStep(r) /\ UNCHANGED pageVars)
  /\ UNCHANGED turnVars

LEMMA HeadTailOf ==
  ASSUME NEW S, NEW w \in Seq(S), w # <<>>
  PROVE  Head(w) \in S /\ Tail(w) \in Seq(S)
BY HeadTailProperties

(* What an open stream gives to the page is an event.                      *)
LEMMA AckOfOpen ==
  ASSUME NEW r \in Turn, Stage(r), AckFirst(r), stream[r] = "open", wire[r] # <<>>
  PROVE  Head(wire[r]) \in GoodEvent /\ Tail(wire[r]) \in Seq(GoodEvent)
<1>1. wire[r] \in Seq(GoodEvent)
  BY DEF Stage, AckFirst, Frames
<1> QED BY <1>1, HeadTailOf

(* The variables of the bus have their types.                              *)
LanesOK ==
  /\ hand \in [Turn -> {"none", "checking", "serving", "closed", "dead"}]
  /\ subs \subseteq Turn
  /\ queue \in [Turn -> Seq(GoodEvent)]
  /\ due \in [Turn -> Seq(GoodEvent)]
  /\ full \in [Turn -> BOOLEAN]
  /\ conn \in [Turn -> {"new", "up", "live", "down"}]
  /\ wire \in [Turn -> Seq(Frame)]

LEMMA CloseLanes ==
  ASSUME LanesOK, NEW r \in Turn, Close(r)
  PROVE  LanesOK'
<1>0. <<>> \in Seq(GoodEvent) /\ <<>> \in Seq(Frame)
  BY NoEvents
<1>1. conn' \in [Turn -> {"new", "up", "live", "down"}]
  BY DEF LanesOK, Close
<1>2. wire' \in [Turn -> Seq(Frame)]
  BY <1>0 DEF LanesOK, Close
<1>3. due' \in [Turn -> Seq(GoodEvent)]
  BY <1>0 DEF LanesOK, Close
<1> QED BY <1>1, <1>2, <1>3 DEF LanesOK, Close

LEMMA HandlerLanes ==
  ASSUME LanesOK, NEW r \in Turn, HandlerStep(r)
  PROVE  LanesOK'
<1>0. queue[r] \in Seq(GoodEvent) /\ wire[r] \in Seq(Frame) /\ <<>> \in Seq(GoodEvent)
  BY NoEvents DEF LanesOK
<1>t. queue[r] # <<>> => Tail(queue[r]) \in Seq(GoodEvent) /\ Head(queue[r]) \in Frame
  BY <1>0, HeadTailOf, GoodIsFrame
<1>a. Subscribed \in Frame /\ \A e \in Frame : Append(wire[r], e) \in Seq(Frame)
  BY <1>0, AppendProperties, GoodIsFrame
<1>1. hand' \in [Turn -> {"none", "checking", "serving", "closed", "dead"}]
  BY DEF HandlerStep, Join, JoinFails, Forward, Forsake, LanesOK
<1>2. subs' \subseteq Turn
  BY DEF HandlerStep, Join, JoinFails, Forward, Forsake, LanesOK
<1>3. queue' \in [Turn -> Seq(GoodEvent)]
  BY <1>0, <1>t DEF HandlerStep, Join, JoinFails, Forward, Forsake, LanesOK
<1>4. wire' \in [Turn -> Seq(Frame)]
  <2>0. wire \in [Turn -> Seq(Frame)]
    BY DEF LanesOK
  <2>1. CASE Join(r)
    BY <1>a, <2>0, <2>1 DEF Join
  <2>2. CASE JoinFails(r) \/ Forsake(r)
    BY <2>0, <2>2 DEF JoinFails, Forsake
  <2>3. CASE Forward(r)
    <3>1. Append(wire[r], Head(queue[r])) \in Seq(Frame)
      BY <1>t, <1>a, <2>3 DEF Forward
    <3>2. wire' = wire \/ wire' = [wire EXCEPT ![r] = Append(@, Head(queue[r]))]
      BY <2>3 DEF Forward
    <3> QED BY <2>0, <3>1, <3>2
  <2> QED BY <2>1, <2>2, <2>3 DEF HandlerStep
<1>5. UNCHANGED <<conn, due, full>>
  BY DEF HandlerStep, Join, JoinFails, Forward, Forsake
<1> QED BY <1>1, <1>2, <1>3, <1>4, <1>5 DEF LanesOK

LEMMA MineTypes ==
  ASSUME PageTypes, NEW r \in Turn, Stage(r), AckFirst(r), Mine(r)
  PROVE  PageTypes'
<1> USE PageAssumption
<1>0. /\ queue[r] \in Seq(GoodEvent) /\ wire[r] \in Seq(Frame) /\ seen[r] \in Seq(GoodEvent)
      /\ <<>> \in Seq(GoodEvent) /\ <<>> \in Seq(Frame) /\ Subscribed \in Frame
  BY NoEvents, GoodIsFrame DEF PageTypes
<1>l. LanesOK
  BY DEF PageTypes, LanesOK
<1>w. wire[r] # <<>> => Tail(wire[r]) \in Seq(Frame)
  BY <1>0, HeadTailOf
<1>v. NoView \in View /\ NewView \in View
  BY EmptySeq DEF NoView, NewView, View
<1>1. CASE Send(r)
  BY <1>0, <1>1, <1>v DEF Mine, Send, Open, PageTypes, View
<1>2. CASE Subscribe(r)
  BY <1>w, <1>2 DEF Mine, Subscribe, ReadAck, PageTypes
<1>3. CASE FallBack(r)
  BY <1>0, <1>3 DEF Mine, FallBack, Close, PageTypes
<1>5. CASE StreamEnds(r)
  BY <1>0, <1>5 DEF Mine, StreamEnds, busVars, PageTypes
<1>6. CASE AsyncReply(r)
  BY <1>6 DEF Mine, AsyncReply, busVars, PageTypes
<1>7. CASE SyncReply(r)
  BY <1>v, <1>7 DEF Mine, SyncReply, busVars, PageTypes, View
<1>8. ASSUME Rejected(r), cuts' \in 0 .. MaxCuts PROVE PageTypes'
  <2>1. (Close(r) \/ UNCHANGED busVars) /\ view' \in {view, NoView}
    BY <1>8 DEF Rejected
  <2>2. LanesOK'
    BY <2>1, <1>l, CloseLanes DEF busVars, LanesOK
  <2> QED BY <1>0, <1>8, <1>v, <2>1, <2>2 DEF Rejected, PageTypes, LanesOK
<1>9. CASE TurnFailed(r) \/ PostCut(r)
  <2>1. cuts' \in 0 .. MaxCuts
    BY <1>9 DEF TurnFailed, PostCut, PageTypes
  <2> QED BY <1>8, <1>9, <2>1 DEF TurnFailed, PostCut
<1>10. CASE StreamCut(r)
  <2>1. \A n \in 0 .. Len(wire[r]) : SubSeq(wire[r], 1, n) \in Seq(Frame)
    BY <1>0, PrefixItems
  <2> QED BY <1>0, <1>10, <2>1 DEF StreamCut, Cut, PageTypes
<1>11. CASE OnEvent(r)
  <2> DEFINE e == Head(wire[r])
  <2>0. /\ wire[r] # <<>> /\ UNCHANGED <<post, cuts, crossed>> /\ view' = Apply(view, e)
        /\ seen' = [seen EXCEPT ![r] = IF Closing(e) THEN <<>> ELSE Append(@, e)]
    BY <1>11 DEF OnEvent
  <2>1. e \in GoodEvent
    BY <1>11, AckOfOpen DEF OnEvent
  <2>2. view' \in View
    BY <2>0, <2>1, ApplyTypes DEF PageTypes
  <2>3. seen' \in [Turn -> Seq(GoodEvent)]
    <3>1. Append(seen[r], e) \in Seq(GoodEvent)
      BY <1>0, <2>1, AppendProperties
    <3> QED BY <1>0, <2>0, <3>1 DEF PageTypes
  <2> HIDE DEF e
  <2>4. CASE Closing(e)
    <3>1. LanesOK' /\ stream' = [stream EXCEPT ![r] = "closed"] /\ sending' = FALSE
      BY <1>11, <1>l, <2>4, CloseLanes DEF OnEvent, e
    <3> QED BY <2>0, <2>2, <2>3, <3>1 DEF PageTypes, LanesOK
  <2>5. CASE ~Closing(e)
    <3>1. wire' = [wire EXCEPT ![r] = Tail(@)] /\ UNCHANGED <<hand, subs, queue, conn, due, full, sending, stream>>
      BY <1>11, <2>5 DEF OnEvent, e
    <3> QED BY <1>w, <2>0, <2>2, <2>3, <3>1 DEF PageTypes
  <2> QED BY <2>4, <2>5
<1>12. CASE HandlerStep(r) /\ UNCHANGED pageVars
  <2>1. LanesOK'
    BY <1>12, <1>l, HandlerLanes
  <2> QED BY <1>12, <2>1 DEF pageVars, PageTypes, LanesOK
<1> QED
  BY <1>1, <1>2, <1>3, <1>5, <1>6, <1>7, <1>9, <1>10, <1>11, <1>12 DEF Mine, PageStep

----------------------------------------------------------------------------
(* The steps of the page: shape, and what becomes of the path.             *)

LEMMA OthersSpared ==
  ASSUME PageTypes, NEW r \in Turn, Mine(r), NEW q \in Turn \ {r}
  PROVE  Spares(q)
<1> USE PageAssumption DEF Spares, Mine, PageTypes, turnVars
<1>1. CASE Send(r) \/ Subscribe(r) \/ FallBack(r)
  BY <1>1 DEF Send, Open, Subscribe, ReadAck, FallBack, Close
<1>2. CASE StreamEnds(r) \/ AsyncReply(r) \/ SyncReply(r)
  BY <1>2 DEF StreamEnds, AsyncReply, SyncReply, busVars
<1>3. CASE Rejected(r)
  <2>1. CASE Close(r)
    BY <1>3, <2>1 DEF Rejected, Close
  <2>2. CASE UNCHANGED busVars
    BY <1>3, <2>2 DEF Rejected, busVars
  <2> QED BY <1>3, <2>1, <2>2 DEF Rejected
<1>4. CASE StreamCut(r)
  BY <1>4 DEF StreamCut, Cut
<1>5. CASE OnEvent(r)
  <2>1. CASE Closing(Head(wire[r]))
    BY <1>5, <2>1 DEF OnEvent, Close
  <2>2. CASE ~Closing(Head(wire[r]))
    BY <1>5, <2>2 DEF OnEvent
  <2> QED BY <2>1, <2>2
<1>6. CASE HandlerStep(r) /\ UNCHANGED pageVars
  BY <1>6 DEF HandlerStep, Join, JoinFails, Forward, Forsake, pageVars
<1> QED BY <1>1, <1>2, <1>3, <1>4, <1>5, <1>6 DEF PageStep, TurnFailed, PostCut

(* Where nothing is on its way the path is empty.                          *)
LEMMA EmptyPath ==
  ASSUME NEW r \in Turn, seen'[r] = <<>>, wire'[r] = <<>>, Connected(r)' => queue'[r] = <<>>
  PROVE  Path(r)' = <<>>
BY NoEvents DEF Path, Frames, Pending

LEMMA SendMoves ==
  ASSUME Shape, PageTypes', NEW r \in Turn, Mine(r), Send(r)
  PROVE  Stage(r)' /\ AckFirst(r)' /\ Moves(r)
<1> USE PageAssumption
<1>0. Stage(r) /\ AckFirst(r) /\ PageTypes
  BY DEF Shape
<1>1. /\ conn[r] = "new" /\ UNCHANGED <<post, stream, seen, tpc, wire, queue, due>>
      /\ \/ hand'[r] = "checking" /\ conn'[r] = "up"
         \/ hand'[r] = "closed" /\ conn'[r] = "down"
  BY <1>0 DEF Mine, Send, Open, PageTypes, turnVars
<1>2. Stage(r)'
  BY <1>0, <1>1 DEF Stage
<1>3. wire'[r] = <<>> /\ seen'[r] = <<>> /\ queue'[r] = <<>>
  BY <1>0, <1>1 DEF Stage
<1>4. AckFirst(r)'
  BY <1>3, NoEvents DEF AckFirst, Frames
<1>5. Path(r)' = <<>>
  BY <1>3, EmptyPath
<1> QED BY <1>1, <1>2, <1>4, <1>5 DEF Moves

LEMMA SubscribeMoves ==
  ASSUME Shape, PageTypes', NEW r \in Turn, Mine(r), Subscribe(r)
  PROVE  Stage(r)' /\ AckFirst(r)' /\ Moves(r)
<1> USE PageAssumption
<1>0. Stage(r) /\ AckFirst(r) /\ PageTypes
  BY DEF Shape
<1>1. /\ post[r] = "none" /\ wire[r] # <<>> /\ wire'[r] = Tail(wire[r]) /\ post'[r] = "async"
      /\ stream'[r] = "open" /\ UNCHANGED <<hand, subs, queue, due, tpc, seen>>
      /\ conn'[r] = IF conn[r] = "up" THEN "live" ELSE conn[r]
  BY <1>0 DEF Mine, Subscribe, ReadAck, PageTypes, turnVars
<1>2. conn[r] \in {"up", "down"} /\ (conn[r] = "up" => hand[r] = "serving" /\ r \in subs)
  BY <1>0, <1>1 DEF Stage, PageTypes
<1>3. Stage(r)'
  BY <1>0, <1>1, <1>2 DEF Stage
<1>4. Frames(r) = Tail(wire[r]) /\ Frames(r)' = Tail(wire[r])
  BY <1>1 DEF Frames
<1>5. AckFirst(r)'
  BY <1>0, <1>1, <1>4 DEF AckFirst
<1>6. Path(r)' = Path(r) /\ (Connected(r)' => Connected(r))
  BY <1>1, <1>2, <1>4 DEF Path, Pending, Connected
<1> QED BY <1>3, <1>5, <1>6 DEF Moves

LEMMA FallBackMoves ==
  ASSUME Shape, PageTypes', NEW r \in Turn, Mine(r), FallBack(r)
  PROVE  Stage(r)' /\ AckFirst(r)' /\ Moves(r)
<1> USE PageAssumption
<1>0. Stage(r) /\ AckFirst(r) /\ PageTypes
  BY DEF Shape
<1>1. /\ conn[r] # "new" /\ post[r] = "none" /\ wire'[r] = <<>> /\ post'[r] = "sync" /\ conn'[r] = "down"
      /\ due'[r] = <<>> /\ UNCHANGED <<hand, subs, queue, tpc, seen, stream>>
  BY <1>0 DEF Mine, FallBack, Close, PageTypes, turnVars
<1>2. Stage(r)'
  BY <1>0, <1>1 DEF Stage
<1>3. seen'[r] = <<>> /\ ~Connected(r)'
  BY <1>0, <1>1 DEF Stage, Connected
<1>4. AckFirst(r)'
  BY <1>1, NoEvents DEF AckFirst, Frames
<1>5. Path(r)' = <<>>
  BY <1>1, <1>3, EmptyPath
<1> QED BY <1>1, <1>2, <1>4, <1>5 DEF Moves

LEMMA EventMoves ==
  ASSUME Shape, PageTypes', NEW r \in Turn, Mine(r), OnEvent(r)
  PROVE  Stage(r)' /\ AckFirst(r)' /\ Moves(r)
<1> USE PageAssumption
<1> DEFINE e == Head(wire[r])
<1>0. Stage(r) /\ AckFirst(r) /\ PageTypes
  BY DEF Shape
<1>1. /\ stream[r] = "open" /\ wire[r] # <<>> /\ UNCHANGED <<hand, subs, queue, post, tpc>>
      /\ seen'[r] = IF Closing(e) THEN <<>> ELSE Append(seen[r], e)
  <2>1. UNCHANGED <<hand, subs, queue>>
    BY DEF OnEvent, Close
  <2> QED BY <1>0, <2>1 DEF Mine, OnEvent, PageTypes, turnVars
<1>2. post[r] \notin {"none", "sync"}
  BY <1>0, <1>1 DEF Stage
<1> HIDE DEF e
<1>3. CASE Closing(e)
  <2>1. /\ wire'[r] = <<>> /\ conn'[r] = "down" /\ due'[r] = <<>> /\ stream'[r] = "closed"
        /\ seen'[r] = <<>>
    BY <1>0, <1>1, <1>3 DEF OnEvent, Close, PageTypes, e
  <2>2. Stage(r)'
    BY <1>0, <1>1, <2>1 DEF Stage
  <2>3. AckFirst(r)'
    BY <2>1, NoEvents DEF AckFirst, Frames
  <2>4. Path(r)' = <<>>
    BY <2>1, EmptyPath DEF Connected
  <2> QED BY <2>1, <2>2, <2>3, <2>4 DEF Moves
<1>4. CASE ~Closing(e)
  <2>1. wire'[r] = Tail(wire[r]) /\ UNCHANGED <<conn, due, stream>> /\ seen'[r] = Append(seen[r], e)
    BY <1>0, <1>1, <1>4 DEF OnEvent, PageTypes, e
  <2>2. Stage(r)'
    BY <1>0, <1>1, <1>2, <2>1 DEF Stage
  <2>3. Frames(r) = wire[r] /\ Frames(r)' = Tail(wire[r])
    BY <1>1, <1>2, <2>1 DEF Frames
  <2>4. AckFirst(r)'
    BY <1>0, <1>1, <1>2, <2>3, AckOfOpen DEF AckFirst
  <2>5. Joined(seen'[r], Frames(r)') = Joined(seen[r], Frames(r))
    <3>1. seen[r] \in Seq(GoodEvent) /\ wire[r] \in Seq(GoodEvent)
      BY <1>0, <2>3 DEF PageTypes, AckFirst
    <3> QED BY <1>1, <2>1, <2>3, <3>1, MoveHead DEF e
  <2>6. Path(r)' = Path(r) /\ (Connected(r)' => Connected(r))
    BY <1>1, <2>1, <2>5 DEF Path, Pending, Connected
  <2> QED BY <2>2, <2>4, <2>6 DEF Moves
<1> QED BY <1>3, <1>4

LEMMA QuietMoves ==
  ASSUME Shape, PageTypes', NEW r \in Turn, Mine(r), StreamEnds(r) \/ AsyncReply(r) \/ SyncReply(r)
  PROVE  Stage(r)' /\ AckFirst(r)' /\ Moves(r)
<1>0. Stage(r) /\ AckFirst(r) /\ PageTypes
  BY DEF Shape
<1>1. UNCHANGED <<hand, subs, queue, conn, wire, due, tpc>>
  BY DEF Mine, StreamEnds, AsyncReply, SyncReply, busVars, turnVars
<1>2. CASE StreamEnds(r)
  <2>1. /\ stream[r] = "open" /\ conn[r] = "down" /\ wire[r] = <<>> /\ stream'[r] = "lost"
        /\ seen'[r] = <<>> /\ post' = post
    BY <1>0, <1>2 DEF StreamEnds, PageTypes
  <2>2. Stage(r)'
    BY <1>0, <1>1, <2>1 DEF Stage
  <2>3. AckFirst(r)'
    BY <1>1, <2>1, NoEvents DEF AckFirst, Frames
  <2>4. Path(r)' = <<>>
    BY <1>1, <2>1, EmptyPath DEF Connected
  <2> QED BY <1>1, <2>1, <2>2, <2>3, <2>4 DEF Moves
<1>3. CASE AsyncReply(r) \/ SyncReply(r)
  <2>1. post[r] # "none" /\ post'[r] = "back" /\ UNCHANGED <<stream, seen>>
    BY <1>0, <1>3 DEF AsyncReply, SyncReply, PageTypes
  <2>2. Stage(r)'
    BY <1>0, <1>1, <2>1 DEF Stage
  <2>3. AckFirst(r)' /\ Path(r)' = Path(r) /\ (Connected(r)' => Connected(r))
    BY <1>0, <1>1, <2>1 DEF AckFirst, Frames, Path, Pending, Connected
  <2> QED BY <2>2, <2>3 DEF Moves
<1> QED BY <1>2, <1>3

LEMMA RejectedMoves ==
  ASSUME Shape, PageTypes', NEW r \in Turn, UNCHANGED turnVars, Rejected(r)
  PROVE  Stage(r)' /\ AckFirst(r)' /\ Moves(r)
<1> USE PageAssumption
<1>0. Stage(r) /\ AckFirst(r) /\ PageTypes
  BY DEF Shape
<1>1. /\ post[r] \in {"sync", "async"} /\ post'[r] = "back" /\ UNCHANGED <<hand, subs, queue, tpc>>
      /\ seen'[r] = <<>>
  BY <1>0 DEF Rejected, Close, busVars, PageTypes, turnVars
<1>2. CASE post[r] = "async"
  <2>1. /\ wire'[r] = <<>> /\ conn'[r] = "down" /\ due'[r] = <<>> /\ stream'[r] = "closed"
    BY <1>0, <1>2 DEF Rejected, Close, PageTypes
  <2>2. Stage(r)'
    BY <1>0, <1>1, <2>1 DEF Stage
  <2>3. AckFirst(r)'
    BY <2>1, NoEvents DEF AckFirst, Frames
  <2>4. Path(r)' = <<>>
    BY <1>1, <2>1, EmptyPath DEF Connected
  <2> QED BY <2>1, <2>2, <2>3, <2>4 DEF Moves
<1>3. CASE post[r] = "sync"
  <2>1. UNCHANGED <<conn, wire, due, stream>> /\ seen[r] = <<>>
    BY <1>0, <1>3 DEF Rejected, busVars, Stage
  <2>2. Stage(r)'
    BY <1>0, <1>1, <1>3, <2>1 DEF Stage
  <2>3. AckFirst(r)' /\ Path(r)' = Path(r) /\ (Connected(r)' => Connected(r))
    BY <1>0, <1>1, <2>1 DEF AckFirst, Frames, Path, Pending, Connected
  <2> QED BY <2>2, <2>3 DEF Moves
<1> QED BY <1>1, <1>2, <1>3

----------------------------------------------------------------------------
(* The steps of the network and of the handler.                            *)

LEMMA CutMoves ==
  ASSUME Shape, PageTypes', NEW r \in Turn, Mine(r), StreamCut(r)
  PROVE  Stage(r)' /\ AckFirst(r)' /\ Moves(r)
<1> USE PageAssumption
<1>0. Stage(r) /\ AckFirst(r) /\ PageTypes
  BY DEF Shape
<1>1. /\ Connected(r) /\ conn'[r] = "down" /\ due'[r] = <<>>
      /\ UNCHANGED <<hand, subs, queue, tpc, seen, post, stream>>
  BY <1>0 DEF Mine, StreamCut, Cut, PageTypes, turnVars
<1>2. PICK n \in 0 .. Len(wire[r]) : wire'[r] = SubSeq(wire[r], 1, n)
  BY <1>0 DEF StreamCut, Cut, PageTypes
<1>3. Stage(r)'
  BY <1>0, <1>1 DEF Stage, Connected
<1>4. /\ wire[r] \in Seq(Frame) /\ seen[r] \in Seq(GoodEvent) /\ queue[r] \in Seq(GoodEvent)
      /\ Frames(r) \in Seq(GoodEvent)
  BY <1>0 DEF PageTypes, AckFirst
<1>5. \E m \in 0 .. Len(Frames(r)) : Frames(r)' = SubSeq(Frames(r), 1, m)
  <2>1. CASE n = 0
    <3>1. wire'[r] = <<>>
      BY <1>2, <1>4, <2>1, PrefixItems, EmptySeq
    <3>2. Frames(r)' = <<>>
      BY <3>1 DEF Frames
    <3>3. 0 \in 0 .. Len(Frames(r)) /\ SubSeq(Frames(r), 1, 0) = <<>>
      BY <1>4, LenProperties, PrefixItems, EmptySeq
    <3> QED BY <3>2, <3>3
  <2>2. CASE n # 0 /\ post[r] = "none"
    <3>1. wire[r] # <<>>
      BY <1>2, <2>2
    <3>2. /\ wire'[r] # <<>> /\ n - 1 \in 0 .. Len(Tail(wire[r]))
          /\ Tail(wire'[r]) = SubSeq(Tail(wire[r]), 1, n - 1)
      BY <1>2, <1>4, <2>2, <3>1, TailPrefix
    <3>3. Frames(r) = Tail(wire[r]) /\ Frames(r)' = Tail(wire'[r])
      BY <1>1, <2>2, <3>1, <3>2 DEF Frames
    <3> QED BY <3>2, <3>3
  <2>3. CASE post[r] # "none"
    BY <1>1, <1>2, <2>3 DEF Frames
  <2> QED BY <2>1, <2>2, <2>3
<1>6. AckFirst(r)'
  <2>1. Frames(r)' \in Seq(GoodEvent)
    BY <1>4, <1>5, PrefixItems
  <2>2. post'[r] = "none" /\ wire'[r] # <<>> => Head(wire'[r]) = Subscribed
    <3>1. CASE n = 0
      BY <1>2, <1>4, <3>1, PrefixItems, EmptySeq
    <3>2. CASE n # 0
      <4>1. wire[r] # <<>>
        BY <1>2, <3>2
      <4> QED BY <1>0, <1>1, <1>2, <1>4, <3>2, <4>1, TailPrefix DEF AckFirst
    <3> QED BY <3>1, <3>2
  <2> QED BY <2>1, <2>2 DEF AckFirst
<1>7. Path(r) = Joined(Joined(seen[r], Frames(r)), queue[r])
  BY <1>1 DEF Path, Pending
<1>8. ~Connected(r)' /\ Path(r)' = Joined(seen[r], Frames(r)')
  <2>1. ~Connected(r)'
    BY <1>1 DEF Connected
  <2>2. Joined(seen[r], Frames(r)') \in Seq(GoodEvent)
    BY <1>4, <1>6, JoinedItems DEF AckFirst
  <2> QED BY <1>1, <2>1, <2>2, JoinedEmpty DEF Path, Pending
<1>9. \E n1 \in 0 .. Len(Path(r)) : Path(r)' = SubSeq(Path(r), 1, n1)
  <2>1. PICK k \in 0 .. Len(Frames(r)) : Frames(r)' = SubSeq(Frames(r), 1, k)
    BY <1>5
  <2>2. \E m \in 0 .. Len(Joined(Joined(seen[r], Frames(r)), queue[r])) :
          Joined(seen[r], SubSeq(Frames(r), 1, k)) = SubSeq(Joined(Joined(seen[r], Frames(r)), queue[r]), 1, m)
    <3> DEFINE s == seen[r]
               w == Frames(r)
               q == queue[r]
    <3>1. s \in Seq(GoodEvent) /\ w \in Seq(GoodEvent) /\ q \in Seq(GoodEvent) /\ k \in 0 .. Len(w)
      BY <1>4
    <3> HIDE DEF s, w, q
    <3>2. \E m \in 0 .. Len(Joined(Joined(s, w), q)) :
            Joined(s, SubSeq(w, 1, k)) = SubSeq(Joined(Joined(s, w), q), 1, m)
      BY <3>1, CutShort, SMTT(30)
    <3> QED BY <3>2, Zenon DEF s, w, q
  <2> QED BY <1>7, <1>8, <2>1, <2>2
<1> QED BY <1>3, <1>6, <1>8, <1>9 DEF Moves

LEMMA HandlerMoves ==
  ASSUME Shape, PageTypes', NEW r \in Turn, Mine(r), HandlerStep(r), UNCHANGED pageVars
  PROVE  Stage(r)' /\ AckFirst(r)' /\ Moves(r)
<1> USE PageAssumption
<1>0. Stage(r) /\ AckFirst(r) /\ PageTypes
  BY DEF Shape
<1>1. UNCHANGED <<tpc, seen, post, stream>>
  BY DEF Mine, turnVars, pageVars
<1>2. /\ wire[r] \in Seq(Frame) /\ seen[r] \in Seq(GoodEvent) /\ queue[r] \in Seq(GoodEvent)
      /\ Frames(r) \in Seq(GoodEvent)
  BY <1>0 DEF PageTypes, AckFirst
<1>3. CASE Join(r)
  <2>1. /\ hand[r] = "checking" /\ conn[r] = "up" /\ r \in subs' /\ hand'[r] = "serving"
        /\ wire'[r] = Append(wire[r], Subscribed) /\ UNCHANGED <<queue, conn, due>>
    BY <1>0, <1>3 DEF Join, PageTypes
  <2>2. wire[r] = <<>> /\ post[r] = "none"
    BY <1>0, <2>1 DEF Stage
  <2>3. wire'[r] = <<Subscribed>>
    BY <2>1, <2>2
  <2>4. wire'[r] # <<>> /\ Head(wire'[r]) = Subscribed /\ Tail(wire'[r]) = <<>>
    BY <2>3
  <2>5. Stage(r)'
    BY <1>0, <1>1, <2>1, <2>4 DEF Stage
  <2>6. Frames(r) = <<>> /\ Frames(r)' = <<>>
    BY <1>1, <2>2, <2>4 DEF Frames
  <2>7. AckFirst(r)'
    BY <2>4, <2>6, NoEvents DEF AckFirst
  <2>8. Path(r)' = Path(r) /\ (Connected(r)' => Connected(r))
    BY <1>1, <2>1, <2>6 DEF Path, Pending, Connected
  <2> QED BY <2>5, <2>7, <2>8 DEF Moves
<1>4. CASE JoinFails(r)
  <2>1. /\ hand[r] = "checking" /\ conn[r] = "down" /\ hand'[r] \in {"serving", "dead"}
        /\ UNCHANGED <<queue, conn, wire, due>>
    BY <1>0, <1>4 DEF JoinFails, PageTypes
  <2>2. Stage(r)'
    BY <1>0, <1>1, <2>1 DEF Stage
  <2>3. AckFirst(r)' /\ Path(r)' = Path(r) /\ (Connected(r)' => Connected(r))
    BY <1>0, <1>1, <2>1 DEF AckFirst, Frames, Path, Pending, Connected
  <2> QED BY <2>2, <2>3 DEF Moves
<1>5. CASE Forward(r) /\ ~Connected(r)
  <2>1. /\ hand[r] = "serving" /\ UNCHANGED <<hand, subs, conn, wire, due>>
    BY <1>0, <1>5 DEF Forward, PageTypes
  <2>2. Stage(r)'
    BY <1>0, <1>1, <1>5, <2>1 DEF Stage, Connected
  <2>3. AckFirst(r)' /\ Path(r)' = Path(r) /\ (Connected(r)' => Connected(r))
    BY <1>0, <1>1, <1>5, <2>1 DEF AckFirst, Frames, Path, Pending, Connected
  <2> QED BY <2>2, <2>3 DEF Moves
<1>6. CASE Forward(r) /\ Connected(r)
  <2> DEFINE e == Head(queue[r])
  <2>1. /\ hand[r] = "serving" /\ queue[r] # <<>> /\ UNCHANGED <<hand, subs, conn, due>>
        /\ queue'[r] = Tail(queue[r]) /\ wire'[r] = Append(wire[r], e)
    BY <1>0, <1>6 DEF Forward, PageTypes
  <2>2. e \in GoodEvent /\ e \in Frame
    BY <1>2, <2>1, HeadTailOf, GoodIsFrame
  <2> HIDE DEF e
  <2>3. wire'[r] # <<>>
    <3>1. Len(wire'[r]) = Len(wire[r]) + 1 /\ Len(wire[r]) \in Nat
      BY <1>2, <2>1, <2>2, AppendItems
    <3> QED BY <3>1
  <2>4. /\ Frames(r)' = Append(Frames(r), e)
        /\ post'[r] = "none" => Head(wire'[r]) = Subscribed
    <3>1. CASE post[r] = "none"
      <4>1. wire[r] # <<>>
        BY <1>0, <1>6, <2>1, <3>1 DEF Stage, Connected
      <4>2. Tail(wire'[r]) = Append(Tail(wire[r]), e) /\ Head(wire'[r]) = Head(wire[r])
        BY <1>2, <2>1, <2>2, <4>1, TailAppend
      <4> QED BY <1>0, <1>1, <2>3, <3>1, <4>1, <4>2 DEF Frames, AckFirst
    <3>2. CASE post[r] # "none"
      BY <1>1, <2>1, <3>2 DEF Frames
    <3> QED BY <3>1, <3>2
  <2>5. Stage(r)'
    BY <1>0, <1>1, <1>6, <2>1, <2>3 DEF Stage, Connected
  <2>6. AckFirst(r)'
    <3>1. Frames(r)' \in Seq(GoodEvent)
      BY <1>2, <2>2, <2>4, AppendItems
    <3> QED BY <2>4, <3>1 DEF AckFirst
  <2>7. Path(r)' = Path(r) /\ (Connected(r)' => Connected(r))
    <3>1. Joined(Joined(seen[r], Append(Frames(r), Head(queue[r]))), Tail(queue[r]))
            = Joined(Joined(seen[r], Frames(r)), queue[r])
      BY <1>2, <2>1, MoveOn
    <3>2. Connected(r)' /\ Path(r)' = Joined(Joined(seen[r], Frames(r)'), Tail(queue[r]))
      BY <1>1, <1>6, <2>1 DEF Path, Pending, Connected
    <3> QED BY <1>6, <2>4, <3>1, <3>2 DEF Path, Pending, e
  <2> QED BY <2>5, <2>6, <2>7 DEF Moves
<1>7. CASE Forsake(r)
  <2>1. /\ hand[r] = "serving" /\ conn[r] = "down" /\ hand'[r] = "closed" /\ queue'[r] = <<>>
        /\ UNCHANGED <<conn, wire, due>>
    BY <1>0, <1>7 DEF Forsake, PageTypes
  <2>2. Stage(r)'
    BY <1>0, <1>1, <2>1 DEF Stage
  <2>3. AckFirst(r)' /\ Path(r)' = Path(r) /\ (Connected(r)' => Connected(r))
    BY <1>0, <1>1, <2>1 DEF AckFirst, Frames, Path, Pending, Connected
  <2> QED BY <2>2, <2>3 DEF Moves
<1> QED BY <1>3, <1>4, <1>5, <1>6, <1>7 DEF HandlerStep

LEMMA MineShape ==
  ASSUME Shape, NEW r \in Turn, Mine(r)
  PROVE  Shape' /\ \A q \in Turn : Moves(q)
<1>0. PageTypes /\ \A q \in Turn : Stage(q) /\ AckFirst(q)
  BY DEF Shape
<1>1. PageTypes'
  BY <1>0, MineTypes
<1>2. Stage(r)' /\ AckFirst(r)' /\ Moves(r)
  <2>1. UNCHANGED turnVars
    BY DEF Mine
  <2>2. CASE TurnFailed(r) \/ PostCut(r)
    BY <1>1, <2>1, <2>2, RejectedMoves DEF TurnFailed, PostCut
  <2> QED
    BY <1>1, <2>2, SendMoves, SubscribeMoves, FallBackMoves, EventMoves, QuietMoves, CutMoves,
       HandlerMoves DEF Mine, PageStep
<1>3. ASSUME NEW q \in Turn \ {r} PROVE Stage(q)' /\ AckFirst(q)' /\ Moves(q)
  BY <1>0, <1>3, OthersSpared, SparedShape
<1> QED BY <1>1, <1>2, <1>3 DEF Shape

----------------------------------------------------------------------------
(* What is published, and the restart.                                     *)

(* What the events evs, once published, do to the path of r: a full queue  *)
(* drops the last of them.                                                 *)
Hears(r, evs) ==
  /\ Connected(r)' = Connected(r)
  /\ \/ Path(r)' = Path(r) /\ ~Connected(r)
     \/ Path(r)' = <<>> /\ conn'[r] # "live"
     \/ /\ Connected(r)
        /\ \E n \in 0 .. Len(Joined(Path(r), evs)) : Path(r)' = SubSeq(Joined(Path(r), evs), 1, n)
        /\ ~full'[r] => Path(r)' = Joined(Path(r), evs)

LEMMA Clipped ==
  ASSUME NEW q \in Seq(GoodEvent)
  PROVE  \E k \in 0 .. Len(q) : Clip(q) = SubSeq(q, 1, k) /\ (Len(q) <= QueueCap => Clip(q) = q)
<1>1. Len(q) \in Nat /\ QueueCap \in Nat \ {0}
  BY LenProperties, BusAssumption
<1>2. CASE Len(q) > QueueCap
  BY <1>1, <1>2 DEF Clip
<1>3. CASE ~(Len(q) > QueueCap)
  <2>1. Clip(q) = SubSeq(q, 1, Len(q)) /\ Len(q) \in 0 .. Len(q)
    BY <1>1, <1>3 DEF Clip
  <2>2. SubSeq(q, 1, Len(q)) = q
    BY SubSeqFull
  <2> QED BY <2>1, <2>2
<1> QED BY <1>2, <1>3

LEMMA PublishTypes ==
  ASSUME PageTypes, NEW evs \in Seq(GoodEvent), Publish(evs), UNCHANGED pageVars
  PROVE  /\ PageTypes'
         /\ \A r \in Turn : Joined(queue[r], evs) \in Seq(GoodEvent) /\ Joined(due[r], evs) \in Seq(GoodEvent)
         /\ \A r \in Turn :
              /\ queue'[r] = IF hand[r] = "serving" /\ r \in subs THEN Clip(Joined(queue[r], evs)) ELSE queue[r]
              /\ due'[r] = IF conn[r] = "live" THEN Joined(due[r], evs) ELSE due[r]
              /\ full'[r] = (full[r] \/ (hand[r] = "serving" /\ r \in subs
                                          /\ Len(Joined(queue[r], evs)) > QueueCap))
<1> USE PageAssumption
<1>1. /\ queue' = [s \in Turn |-> IF hand[s] = "serving" /\ s \in subs THEN Clip(Joined(queue[s], evs))
                                  ELSE queue[s]]
      /\ due' = [s \in Turn |-> IF conn[s] = "live" THEN Joined(due[s], evs) ELSE due[s]]
      /\ full' = [s \in Turn |-> full[s] \/ (hand[s] = "serving" /\ s \in subs
                                              /\ Len(Joined(queue[s], evs)) > QueueCap)]
      /\ UNCHANGED <<hand, subs, conn, wire>>
  BY Zenon DEF Publish, Joined
<1>2. ASSUME NEW r \in Turn
      PROVE  Joined(queue[r], evs) \in Seq(GoodEvent) /\ Joined(due[r], evs) \in Seq(GoodEvent)
  <2>1. queue[r] \in Seq(GoodEvent) /\ due[r] \in Seq(GoodEvent)
    BY DEF PageTypes
  <2> QED BY <2>1, JoinedItems
<1>3. ASSUME NEW r \in Turn PROVE Clip(Joined(queue[r], evs)) \in Seq(GoodEvent)
  <2> DEFINE q == Joined(queue[r], evs)
  <2>1. q \in Seq(GoodEvent)
    BY <1>2
  <2> HIDE DEF q
  <2>2. Clip(q) \in Seq(GoodEvent)
    BY <2>1, Clipped, PrefixItems
  <2> QED BY <2>2 DEF q
<1>4. queue' \in [Turn -> Seq(GoodEvent)]
  BY <1>1, <1>3 DEF PageTypes
<1>5. due' \in [Turn -> Seq(GoodEvent)] /\ full' \in [Turn -> BOOLEAN]
  BY <1>1, <1>2 DEF PageTypes
<1>6. PageTypes'
  BY <1>1, <1>4, <1>5 DEF PageTypes, pageVars
<1> QED BY <1>1, <1>2, <1>6

LEMMA PublishHears ==
  ASSUME Shape, NEW evs \in Seq(GoodEvent), Publish(evs), UNCHANGED pageVars,
         NEW r \in Turn, tpc'[r] # "idle" => post[r] # "none"
  PROVE  Stage(r)' /\ AckFirst(r)' /\ Hears(r, evs)
<1>0. Stage(r) /\ AckFirst(r) /\ PageTypes
  BY DEF Shape
<1>1. UNCHANGED <<hand, subs, conn, wire, post, stream, seen>>
  BY DEF Publish, pageVars
<1>2. /\ queue'[r] = IF hand[r] = "serving" /\ r \in subs THEN Clip(Joined(queue[r], evs)) ELSE queue[r]
      /\ due'[r] = IF conn[r] = "live" THEN Joined(due[r], evs) ELSE due[r]
      /\ full'[r] = (full[r] \/ (hand[r] = "serving" /\ r \in subs
                                  /\ Len(Joined(queue[r], evs)) > QueueCap))
      /\ Joined(queue[r], evs) \in Seq(GoodEvent)
  BY <1>0, PublishTypes
<1>3. Stage(r)'
  BY <1>0, <1>1, <1>2 DEF Stage
<1>4. AckFirst(r)'
  BY <1>0, <1>1 DEF AckFirst, Frames
<1>5. Connected(r)' = Connected(r) /\ Frames(r)' = Frames(r)
  BY <1>1 DEF Connected, Frames
<1>6. CASE ~Connected(r)
  BY <1>1, <1>3, <1>4, <1>5, <1>6 DEF Hears, Path, Pending
<1>7. CASE Connected(r) /\ hand[r] = "checking"
  <2>1. conn[r] = "up" /\ wire[r] = <<>> /\ seen[r] = <<>> /\ queue'[r] = <<>>
    BY <1>0, <1>2, <1>7 DEF Connected, Stage
  <2>2. Path(r)' = <<>> /\ conn'[r] # "live"
    BY <1>1, <2>1, EmptyPath
  <2> QED BY <1>3, <1>4, <1>5, <2>2 DEF Hears
<1>8. CASE Connected(r) /\ hand[r] = "serving" /\ r \in subs
  <2> DEFINE s == seen[r]
             w == Frames(r)
             q == queue[r]
             j == Joined(q, evs)
             sw == Joined(s, w)
  <2>1. s \in Seq(GoodEvent) /\ w \in Seq(GoodEvent) /\ q \in Seq(GoodEvent) /\ j \in Seq(GoodEvent)
    BY <1>0, <1>2 DEF PageTypes, AckFirst
  <2>2. Path(r) = Joined(sw, q) /\ Path(r)' = Joined(sw, queue'[r]) /\ queue'[r] = Clip(j)
    BY <1>1, <1>2, <1>5, <1>8 DEF Path, Pending
  <2>3. full'[r] = (full[r] \/ Len(j) > QueueCap)
    BY <1>2, <1>8
  <2>t. full[r] \in BOOLEAN
    BY <1>0 DEF PageTypes
  <2> HIDE DEF s, w, q, sw
  <2>4. sw \in Seq(GoodEvent)
    BY <2>1, JoinedItems DEF sw
  <2>5. Joined(Joined(sw, q), evs) = Joined(sw, j)
    BY <2>1, <2>4, JoinedTwice
  <2> HIDE DEF j
  <2>6. PICK k \in 0 .. Len(j) : Clip(j) = SubSeq(j, 1, k) /\ (Len(j) <= QueueCap => Clip(j) = j)
    BY <2>1, Clipped
  <2>7. \E m \in 0 .. Len(Joined(sw, j)) : Joined(sw, SubSeq(j, 1, k)) = SubSeq(Joined(sw, j), 1, m)
    <3>1. sw \in Seq(GoodEvent) /\ j \in Seq(GoodEvent) /\ k \in 0 .. Len(j)
      BY <2>1, <2>4, <2>6
    <3> QED BY <3>1, CutLast
  <2>8. Joined(Path(r), evs) = Joined(sw, j)
    BY <2>2, <2>5
  <2>9. \E m \in 0 .. Len(Joined(Path(r), evs)) : Path(r)' = SubSeq(Joined(Path(r), evs), 1, m)
    BY <2>2, <2>6, <2>7, <2>8
  <2>10. ASSUME ~full'[r] PROVE Path(r)' = Joined(Path(r), evs)
    <3>1. Len(j) <= QueueCap
      <4>1. Len(j) \in Nat /\ QueueCap \in Nat /\ ~(Len(j) > QueueCap)
        BY <2>1, <2>3, <2>t, <2>10, LenProperties, BusAssumption
      <4> QED BY <4>1
    <3> QED BY <2>2, <2>6, <2>8, <3>1
  <2> QED BY <1>3, <1>4, <1>5, <1>8, <2>9, <2>10 DEF Hears
<1> QED BY <1>0, <1>6, <1>7, <1>8 DEF Stage, Connected

(* The process dies: what was not on the sockets is lost.                  *)
LEMMA RestartMoves ==
  ASSUME Shape, BusRestart, UNCHANGED pageVars, NEW r \in Turn, tpc'[r] # "idle" => tpc[r] # "idle"
  PROVE  Stage(r)' /\ AckFirst(r)' /\ Moves(r) /\ (Connected(r)' => Path(r)' = <<>>)
<1> USE PageAssumption
<1>0. Stage(r) /\ AckFirst(r) /\ PageTypes
  BY DEF Shape
<1>1. /\ hand'[r] = (IF conn[r] = "new" THEN "none" ELSE "closed") /\ queue'[r] = <<>> /\ due'[r] = <<>>
      /\ conn'[r] = (IF conn[r] = "new" THEN "new" ELSE "down")
      /\ UNCHANGED <<wire, post, stream, seen>>
  BY DEF BusRestart, pageVars
<1>2. Stage(r)'
  BY <1>0, <1>1 DEF Stage
<1>3. AckFirst(r)' /\ ~Connected(r)' /\ Frames(r)' = Frames(r)
  BY <1>0, <1>1 DEF AckFirst, Frames, Connected
<1> DEFINE s == seen[r]
           w == Frames(r)
           q == Pending(r)
<1>4. s \in Seq(GoodEvent) /\ w \in Seq(GoodEvent) /\ q \in Seq(GoodEvent)
  BY <1>0, NoEvents DEF PageTypes, AckFirst, Pending
<1>5. Path(r) = Joined(Joined(s, w), q) /\ Path(r)' = Joined(Joined(s, w), <<>>)
  BY <1>1, <1>3 DEF Path, Pending
<1> HIDE DEF s, w, q
<1>6. \E m \in 0 .. Len(Joined(Joined(s, w), q)) :
        Joined(s, SubSeq(w, 1, Len(w))) = SubSeq(Joined(Joined(s, w), q), 1, m)
  <2> DEFINE k == Len(w)
  <2>1. k \in 0 .. Len(w)
    BY <1>4, LenProperties
  <2> HIDE DEF k
  <2>2. \E m \in 0 .. Len(Joined(Joined(s, w), q)) :
          Joined(s, SubSeq(w, 1, k)) = SubSeq(Joined(Joined(s, w), q), 1, m)
    BY <1>4, <2>1, CutShort, SMTT(30)
  <2> QED BY <2>2 DEF k
<1>7. SubSeq(w, 1, Len(w)) = w /\ Joined(Joined(s, w), <<>>) = Joined(s, w)
  BY <1>4, SubSeqFull, JoinedItems, JoinedEmpty
<1> QED BY <1>2, <1>3, <1>5, <1>6, <1>7 DEF Moves

----------------------------------------------------------------------------
(* All steps together.                                                     *)

Steps(q) == Begin(q) \/ TurnStep(q) \/ ToolOutput(q)
PageShape == Shape /\ \A q \in Turn : Locals(q)

(* The four ways of a step: with one message, with a turn and no event,    *)
(* with a turn that publishes, and the restart.                            *)
Mines == \E r \in Turn : Mine(r) /\ \A q \in Turn : Moves(q)
Hushes ==
  \E q \in Turn :
    /\ Steps(q) /\ Hush(q) /\ UNCHANGED <<busVars, pageVars>>
    /\ tpc[q] = "idle" => Posted(q)
    /\ \A r \in Turn : Path(r)' = Path(r) /\ Connected(r)' = Connected(r)
Speaks ==
  \E q \in Turn, evs \in Seq(GoodEvent) :
    /\ Steps(q) /\ Says(q, evs) /\ Publish(evs) /\ UNCHANGED pageVars
    /\ \A r \in Turn : Hears(r, evs)
Restarts ==
  /\ ServerRestart /\ UNCHANGED pageVars
  /\ \A r \in Turn : Moves(r) /\ (Connected(r)' => Path(r)' = <<>>)

LEMMA NextShape ==
  ASSUME TurnInv, PageShape, Next
  PROVE  PageShape' /\ (Mines \/ Hushes \/ Speaks \/ Restarts)
<1>0. Shape /\ Types /\ PageTypes /\ \A r \in Turn : Stage(r) /\ AckFirst(r) /\ Locals(r)
  BY DEF PageShape, Shape, TurnInv
<1>1. ASSUME NEW r \in Turn, Mine(r) PROVE PageShape' /\ Mines
  <2>1. Shape' /\ \A q \in Turn : Moves(q)
    BY <1>0, <1>1, MineShape
  <2>2. \A q \in Turn : Locals(q)'
    BY <1>0, <1>1 DEF Mine, turnVars, Locals
  <2> QED BY <1>1, <2>1, <2>2 DEF PageShape, Mines
<1>2. ASSUME NEW q \in Turn, Steps(q), tpc[q] = "idle" => Posted(q), UNCHANGED pageVars
      PROVE  PageShape' /\ (Hushes \/ Speaks)
  <2>1. Only(q)
    BY <1>0, <1>2, StepOnly DEF Steps
  <2>2. ASSUME NEW r \in Turn PROVE tpc'[r] # "idle" => post[r] # "none"
    <3>1. CASE r = q
      BY <1>0, <1>2, <3>1 DEF Stage, Posted
    <3>2. CASE r # q
      BY <1>0, <2>1, <3>2 DEF Only, Stage
    <3> QED BY <3>1, <3>2
  <2>3. /\ Locals(q)'
        /\ \/ UNCHANGED busVars /\ Hush(q)
           \/ \E evs \in Seq(GoodEvent) : Publish(evs) /\ Says(q, evs)
    BY <1>0, <1>2, StepSays DEF Steps
  <2>4. \A r \in Turn : Locals(r)'
    BY <1>0, <2>1, <2>3 DEF Only, Locals
  <2>5. CASE UNCHANGED busVars /\ Hush(q)
    <3>1. ASSUME NEW r \in Turn
          PROVE  Stage(r)' /\ AckFirst(r)' /\ Path(r)' = Path(r) /\ Connected(r)' = Connected(r)
      BY <1>0, <1>2, <2>2, <2>5
      DEF busVars, pageVars, Stage, AckFirst, Path, Frames, Pending, Connected
    <3>2. PageTypes'
      BY <1>0, <1>2, <2>5 DEF busVars, pageVars, PageTypes
    <3> QED BY <1>2, <2>4, <2>5, <3>1, <3>2 DEF PageShape, Shape, Hushes
  <2>6. ASSUME NEW evs \in Seq(GoodEvent), Publish(evs), Says(q, evs) PROVE PageShape' /\ Speaks
    <3>1. PageTypes'
      BY <1>0, <1>2, <2>6, PublishTypes
    <3>2. \A r \in Turn : Stage(r)' /\ AckFirst(r)' /\ Hears(r, evs)
      BY <1>0, <1>2, <2>2, <2>6, PublishHears
    <3> QED BY <1>2, <2>4, <2>6, <3>1, <3>2 DEF PageShape, Shape, Speaks
  <2> QED BY <2>3, <2>5, <2>6
<1>3. ASSUME ServerRestart, UNCHANGED pageVars PROVE PageShape' /\ Restarts
  <2>1. BusRestart /\ tpc' = [r \in Turn |-> IF Live(r) THEN "killed" ELSE tpc[r]]
        /\ tpc \in [Turn -> TurnPC]
    BY <1>0, <1>3 DEF ServerRestart, Types, TurnTypeOK
  <2>2. \A r \in Turn : (tpc'[r] # "idle" => tpc[r] # "idle") /\ tpc'[r] \notin {"running", "result"}
    BY <2>1 DEF Live, Over
  <2>3. \A r \in Turn : Stage(r)' /\ AckFirst(r)' /\ Moves(r) /\ (Connected(r)' => Path(r)' = <<>>)
    BY <1>0, <1>3, <2>1, <2>2, RestartMoves
  <2>4. PageTypes'
    BY <1>0, <1>3, <2>1, NoEvents, PageAssumption DEF BusRestart, pageVars, PageTypes
  <2> QED BY <1>3, <2>2, <2>3, <2>4 DEF PageShape, Shape, Locals, Restarts
<1>4. ASSUME NEW r \in Turn, Deliver(r) PROVE Mine(r)
  BY <1>4 DEF Deliver, Mine
<1>5. ASSUME NEW r \in Turn, TurnStep(r) \/ ToolOutput(r) PROVE tpc[r] # "idle"
  BY <1>5 DEF TurnStep, ToolOutput, StoreUser, ReadHistory, StartLoop, NoBackend, Reply, ModelFails,
              Malformed, StoreAssistant, StoreApproval, ToolReturns, StoreTool, ArgsUnbound,
              StoreAudit, Finish
<1>6. ASSUME NEW r \in Turn, ServerStep(r) \/ ToolOutput(r)
      PROVE  Steps(r) /\ (tpc[r] = "idle" => Posted(r))
  <2>1. CASE Posted(r) /\ Begin(r)
    BY <2>1 DEF Steps
  <2>2. CASE TurnStep(r) \/ ToolOutput(r)
    BY <1>5, <2>2 DEF Steps
  <2> QED BY <1>6, <2>1, <2>2 DEF ServerStep
<1>7. CASE \E r \in Turn : (Send(r) \/ PageStep(r) \/ PostCut(r) \/ StreamCut(r)) /\ UNCHANGED turnVars
  BY <1>1, <1>7 DEF Mine
<1>8. CASE \E r \in Turn : (ServerStep(r) \/ ToolOutput(r)) /\ UNCHANGED pageVars
  BY <1>2, <1>6, <1>8
<1> QED BY <1>1, <1>3, <1>4, <1>7, <1>8 DEF Next

----------------------------------------------------------------------------
(* Types.                                                                  *)

LEMMA NextTurns ==
  ASSUME Next
  PROVE  TurnNext \/ UNCHANGED turnVars
BY DEF Next, TurnNext, ServerStep, Deliver

LEMMA InitShape == Init => PageShape
<1> SUFFICES ASSUME Init PROVE PageShape
  OBVIOUS
<1> USE PageAssumption, NoEvents
<1>1. PageTypes
  <2>1. NoView \in View /\ 0 \in 0 .. MaxCuts
    BY EmptySeq DEF NoView, View
  <2> QED BY <2>1 DEF Init, BusInit, PageInit, PageTypes
<1>2. ASSUME NEW r \in Turn PROVE Stage(r) /\ AckFirst(r) /\ Locals(r)
  BY DEF Init, BusInit, PageInit, TurnInit, Stage, AckFirst, Frames, Locals
<1> QED BY <1>1, <1>2 DEF PageShape, Shape

LEMMA SameShape ==
  ASSUME PageShape, UNCHANGED vars
  PROVE  PageShape'
<1>1. ASSUME NEW r \in Turn PROVE Stage(r)' /\ AckFirst(r)' /\ Locals(r)'
  BY DEF PageShape, Shape, vars, busVars, turnVars, pageVars, Stage, AckFirst, Frames, Locals
<1>2. PageTypes'
  BY DEF PageShape, Shape, vars, busVars, pageVars, PageTypes
<1> QED BY <1>1, <1>2 DEF PageShape, Shape

LEMMA NextOrdered ==
  ASSUME TurnInv, Ordered, [Next]_vars
  PROVE  TurnInv' /\ Ordered'
<1>1. CASE UNCHANGED turnVars
  BY <1>1, SameTurnInv, SameOrdered
<1>2. CASE TurnNext
  <2>1. TurnInv'
    BY <1>2, StepTurnInv
  <2> QED BY <1>2, <2>1, StepOrdered, BeginOrdered, RestartOrdered DEF TurnNext
<1> QED BY <1>1, <1>2, NextTurns DEF vars

PageBase == TurnInv /\ Ordered /\ PageShape

LEMMA BaseHolds == Spec => []PageBase
<1>1. Init => PageBase
  BY InitTurns, InitOrdered, InitShape DEF Init, PageBase
<1>2. PageBase /\ [Next]_vars => PageBase'
  BY NextOrdered, NextShape, SameShape DEF PageBase
<1> QED BY <1>1, <1>2, PTL DEF Spec

(* Whatever breaks or is rejected, each variable of the page keeps its     *)
(* type: a panel is given output and a status only where there is one      *)
(* (chat-stream.ts, latestToolIndex).                                      *)
THEOREM PageTyped == Spec => []TypeOK
<1>1. ASSUME PageBase PROVE TypeOK
  <2>0. TurnTypeOK /\ PageTypes
    BY <1>1 DEF PageBase, TurnInv, Types, PageShape, Shape
  <2>1. GoodEvent \subseteq Event /\ Frame \subseteq Event \cup {Subscribed}
    BY DEF GoodEvent, Frame
  <2>2. Seq(GoodEvent) \subseteq Seq(Event) /\ Seq(Frame) \subseteq Seq(Event \cup {Subscribed})
    BY <2>1, SeqMonotonic
  <2>3. BusTypeOK
    BY <2>0, <2>2, PageAssumption DEF PageTypes, BusTypeOK
  <2>4. seen \in [Turn -> Seq(Event)]
    BY <2>0, <2>2 DEF PageTypes
  <2> QED BY <2>0, <2>3, <2>4 DEF TypeOK, PageTypes, View
<1> QED BY <1>1, BaseHolds, PTL

----------------------------------------------------------------------------
(* Nothing is missed.                                                      *)

(* d is what h ends with.                                                  *)
EndsWith(h, d) ==
  /\ Len(d) <= Len(h)
  /\ \A i \in 1 .. Len(d) : d[i] = h[Len(h) - Len(d) + i]

LEMMA EndsWithNothing ==
  ASSUME NEW S, NEW h \in Seq(S)
  PROVE  EndsWith(h, <<>>)
<1>1. Len(h) \in Nat /\ Len(<<>>) = 0
  BY LenProperties
<1> QED BY <1>1 DEF EndsWith

LEMMA EndsWithMore ==
  ASSUME NEW S, NEW h \in Seq(S), NEW d \in Seq(S), NEW t \in Seq(S), EndsWith(h, d)
  PROVE  EndsWith(Joined(h, t), Joined(d, t))
<1> DEFINE g == Joined(h, t)
           c == Joined(d, t)
<1>1. /\ Len(h) \in Nat /\ Len(d) \in Nat /\ Len(t) \in Nat /\ Len(d) <= Len(h)
      /\ \A i \in 1 .. Len(d) : d[i] = h[Len(h) - Len(d) + i]
  BY LenProperties DEF EndsWith
<1>2. /\ Len(g) = Len(h) + Len(t)
      /\ \A i \in 1 .. Len(h) + Len(t) : g[i] = IF i <= Len(h) THEN h[i] ELSE t[i - Len(h)]
  BY JoinedItems
<1>3. /\ Len(c) = Len(d) + Len(t)
      /\ \A i \in 1 .. Len(d) + Len(t) : c[i] = IF i <= Len(d) THEN d[i] ELSE t[i - Len(d)]
  BY JoinedItems
<1> HIDE DEF g, c
<1>4. ASSUME NEW i \in 1 .. Len(c) PROVE c[i] = g[Len(g) - Len(c) + i]
  <2> DEFINE k == Len(g) - Len(c) + i
  <2>1. k = Len(h) - Len(d) + i /\ k \in 1 .. Len(h) + Len(t)
    BY <1>1, <1>2, <1>3
  <2> HIDE DEF k
  <2>2. CASE i <= Len(d)
    <3>1. k <= Len(h) /\ i \in 1 .. Len(d)
      BY <1>1, <1>3, <2>1, <2>2
    <3>2. c[i] = d[i] /\ g[k] = h[k] /\ d[i] = h[k]
      BY <1>1, <1>2, <1>3, <2>1, <2>2, <3>1
    <3> QED BY <3>2 DEF k
  <2>3. CASE ~(i <= Len(d))
    <3>1. ~(k <= Len(h)) /\ k - Len(h) = i - Len(d)
      BY <1>1, <1>3, <2>1, <2>3
    <3>2. c[i] = t[i - Len(d)] /\ g[k] = t[k - Len(h)]
      BY <1>1, <1>2, <1>3, <2>1, <2>3, <3>1
    <3> QED BY <3>1, <3>2 DEF k
  <2> QED BY <2>2, <2>3
<1>5. Len(c) <= Len(g)
  BY <1>1, <1>2, <1>3
<1> QED BY <1>4, <1>5 DEF EndsWith, g, c

LEMMA ReverseItems ==
  ASSUME NEW S, NEW h \in Seq(S)
  PROVE  /\ Reverse(h) \in Seq(S) /\ Len(Reverse(h)) = Len(h)
         /\ \A i \in 1 .. Len(h) : Reverse(h)[i] = h[Len(h) - i + 1]
<1>1. Len(h) \in Nat /\ DOMAIN h = 1 .. Len(h) /\ \A i \in 1 .. Len(h) : h[i] \in S
  BY LenProperties, ElementOfSeq
<1>2. \A i \in 1 .. Len(h) : Len(h) - i + 1 \in 1 .. Len(h)
  BY <1>1
<1>3. Reverse(h) \in [1 .. Len(h) -> S]
  BY <1>1, <1>2 DEF Reverse
<1>4. Reverse(h) \in Seq(S) /\ Len(Reverse(h)) = Len(h)
  <2>1. Reverse(h) \in Seq(S)
    BY <1>1, <1>3, SeqDef
  <2>2. DOMAIN Reverse(h) = 1 .. Len(h)
    BY <1>3
  <2> QED BY <1>1, <2>1, <2>2, LenProperties
<1> QED BY <1>4 DEF Reverse

LEMMA EndIsSuffix ==
  ASSUME NEW S, NEW h \in Seq(S), NEW d \in Seq(S), EndsWith(h, d)
  PROVE  IsSuffix(d, h)
<1> DEFINE p == Reverse(d)
           g == Reverse(h)
<1>1. /\ Len(h) \in Nat /\ Len(d) \in Nat /\ Len(d) <= Len(h)
      /\ \A i \in 1 .. Len(d) : d[i] = h[Len(h) - Len(d) + i]
  BY LenProperties DEF EndsWith
<1>2. /\ p \in Seq(S) /\ Len(p) = Len(d) /\ \A i \in 1 .. Len(d) : p[i] = d[Len(d) - i + 1]
  BY ReverseItems
<1>3. /\ g \in Seq(S) /\ Len(g) = Len(h) /\ \A i \in 1 .. Len(h) : g[i] = h[Len(h) - i + 1]
  BY ReverseItems
<1> HIDE DEF p, g
<1>4. ASSUME NEW i \in 1 .. Len(d) PROVE p[i] = g[i]
  <2>1. Len(d) - i + 1 \in 1 .. Len(d) /\ i \in 1 .. Len(h)
    BY <1>1
  <2>2. d[Len(d) - i + 1] = h[Len(h) - Len(d) + (Len(d) - i + 1)]
    BY <1>1, <2>1
  <2>3. Len(h) - Len(d) + (Len(d) - i + 1) = Len(h) - i + 1
    BY <1>1
  <2> QED BY <1>2, <1>3, <2>1, <2>2, <2>3
<1> DEFINE a == SubSeq(p, 1, Len(d))
           b == SubSeq(g, 1, Len(d))
<1>5. /\ a \in Seq(S) /\ Len(a) = Len(d) /\ \A i \in 1 .. Len(d) : a[i] = p[i]
      /\ b \in Seq(S) /\ Len(b) = Len(d) /\ \A i \in 1 .. Len(d) : b[i] = g[i]
  <2>1. Len(d) \in 0 .. Len(p) /\ Len(d) \in 0 .. Len(g)
    BY <1>1, <1>2, <1>3
  <2> QED BY <1>2, <1>3, <2>1, PrefixItems
<1> HIDE DEF a, b
<1>6. a = b
  BY <1>4, <1>5, SeqEqual
<1>7. Len(p) <= Len(g) /\ SubSeq(p, 1, Len(p)) = SubSeq(g, 1, Len(p))
  BY <1>1, <1>2, <1>3, <1>6 DEF a, b
<1> QED BY <1>7 DEF IsSuffix, IsPrefix, p, g

(* A stream that is up and has dropped nothing will end with all that was  *)
(* published since it was.                                                 *)
Owed(r) == conn[r] = "live" /\ ~full[r] => EndsWith(Path(r), due[r])

LEMMA PathEvents ==
  ASSUME Shape, NEW r \in Turn
  PROVE  Path(r) \in Seq(GoodEvent)
<1>1. /\ seen[r] \in Seq(GoodEvent) /\ Frames(r) \in Seq(GoodEvent) /\ Pending(r) \in Seq(GoodEvent)
  BY NoEvents DEF Shape, PageTypes, AckFirst, Pending
<1>2. Joined(seen[r], Frames(r)) \in Seq(GoodEvent)
  BY <1>1, JoinedItems
<1> QED BY <1>1, <1>2, JoinedItems DEF Path

(* A stream that comes up is owed nothing yet.                             *)
LEMMA MineDue ==
  ASSUME Shape, NEW r \in Turn, Mine(r), conn'[r] = "live"
  PROVE  /\ full'[r] = full[r]
         /\ due'[r] = <<>> \/ (due'[r] = due[r] /\ conn[r] = "live")
<1> USE PageAssumption
<1>0. PageTypes /\ Stage(r)
  BY DEF Shape
<1>1. CASE Send(r) \/ FallBack(r) \/ StreamCut(r)
  BY <1>0, <1>1 DEF Send, Open, FallBack, Close, StreamCut, Cut, PageTypes
<1>2. CASE Subscribe(r)
  BY <1>0, <1>2 DEF Subscribe, ReadAck, PageTypes, Stage
<1>3. CASE OnEvent(r)
  <2>1. CASE Closing(Head(wire[r]))
    BY <1>0, <1>3, <2>1 DEF OnEvent, Close, PageTypes
  <2>2. CASE ~Closing(Head(wire[r]))
    BY <1>3, <2>2 DEF OnEvent
  <2> QED BY <2>1, <2>2
<1>4. CASE StreamEnds(r) \/ AsyncReply(r) \/ SyncReply(r)
  BY <1>4 DEF StreamEnds, AsyncReply, SyncReply, busVars
<1>5. CASE Rejected(r)
  <2>1. CASE Close(r)
    BY <1>0, <2>1 DEF Close, PageTypes
  <2>2. CASE UNCHANGED busVars
    BY <2>2 DEF busVars
  <2> QED BY <1>5, <2>1, <2>2 DEF Rejected
<1>6. CASE HandlerStep(r)
  BY <1>6 DEF HandlerStep, Join, JoinFails, Forward, Forsake
<1> QED BY <1>1, <1>2, <1>3, <1>4, <1>5, <1>6 DEF Mine, PageStep, TurnFailed, PostCut

LEMMA OwedStep ==
  ASSUME PageBase, \A r \in Turn : Owed(r), PageShape', [Next]_vars
  PROVE  \A r \in Turn : Owed(r)'
<1>0. Shape /\ PageTypes /\ TurnInv /\ PageShape /\ Shape'
  BY DEF PageBase, PageShape, Shape
<1> SUFFICES ASSUME NEW q \in Turn, conn'[q] = "live", ~full'[q]
             PROVE  EndsWith(Path(q)', due'[q])
  BY DEF Owed
<1>e. Path(q) \in Seq(GoodEvent) /\ due[q] \in Seq(GoodEvent)
  BY <1>0, PathEvents DEF PageTypes
<1>1. CASE Mines
  <2>1. PICK r \in Turn : Mine(r) /\ Moves(q)
    BY <1>1 DEF Mines
  <2>2. Path(q)' = Path(q)
    <3>1. Connected(q)'
      BY DEF Connected
    <3> QED BY <2>1, <3>1 DEF Moves
  <2>3. full'[q] = full[q] /\ (due'[q] = <<>> \/ (due'[q] = due[q] /\ conn[q] = "live"))
    <3>1. CASE q = r
      BY <1>0, <2>1, <3>1, MineDue
    <3>2. CASE q # r
      <4>1. Spares(q)
        BY <1>0, <2>1, <3>2, OthersSpared
      <4> QED BY <4>1 DEF Spares
    <3> QED BY <3>1, <3>2
  <2> QED BY <1>e, <2>2, <2>3, EndsWithNothing DEF Owed
<1>2. CASE Hushes
  BY <1>2 DEF Hushes, busVars, Owed
<1>3. CASE Speaks
  <2>1. PICK r \in Turn, evs \in Seq(GoodEvent) : Publish(evs) /\ UNCHANGED pageVars /\ Hears(q, evs)
    BY <1>3 DEF Speaks
  <2>2. conn[q] = "live" /\ due'[q] = Joined(due[q], evs) /\ ~full[q]
    <3>1. conn' = conn
      BY <2>1 DEF Publish
    <3>2. /\ due'[q] = IF conn[q] = "live" THEN Joined(due[q], evs) ELSE due[q]
          /\ full'[q] = (full[q] \/ (hand[q] = "serving" /\ q \in subs
                                        /\ Len(Joined(queue[q], evs)) > QueueCap))
      BY <1>0, <2>1, PublishTypes
    <3> QED BY <3>1, <3>2
  <2>3. Path(q)' = Joined(Path(q), evs)
    BY <2>1, <2>2 DEF Hears, Connected
  <2>4. EndsWith(Joined(Path(q), evs), Joined(due[q], evs))
    BY <1>e, <2>2, EndsWithMore DEF Owed
  <2> QED BY <2>2, <2>3, <2>4
<1>4. CASE Restarts
  BY <1>4, PageAssumption DEF Restarts, ServerRestart, BusRestart
<1>5. CASE UNCHANGED vars
  BY <1>5 DEF vars, busVars, turnVars, pageVars, Owed, Path, Frames, Pending, Connected
<1> QED BY <1>0, <1>1, <1>2, <1>3, <1>4, <1>5, NextShape

LEMMA OwedHolds == Spec => [](\A r \in Turn : Owed(r))
<1>1. Init => \A r \in Turn : Owed(r)
  BY PageAssumption DEF Init, BusInit, Owed
<1>2. PageBase /\ PageBase' /\ (\A r \in Turn : Owed(r)) /\ [Next]_vars => (\A r \in Turn : Owed(r))'
  BY OwedStep DEF PageBase
<1> QED BY <1>1, <1>2, BaseHolds, PTL DEF Spec

(* Once a stream is up, and while it is, the page gets every event there   *)
(* is, once and in order, for any number of messages and of events, unless *)
(* its queue was full (client_ws.py: subscribe before "subscribed").       *)
THEOREM EventsArrive == Spec => []NothingMissed
<1>1. ASSUME PageBase, \A r \in Turn : Owed(r) PROVE NothingMissed
  <2> SUFFICES ASSUME NEW r \in Turn, stream[r] = "open", conn[r] = "live", ~full[r]
               PROVE  IsSuffix(due[r], seen[r] \o wire[r] \o queue[r])
    BY DEF NothingMissed
  <2>1. Shape /\ Stage(r) /\ PageTypes
    BY <1>1 DEF PageBase, PageShape, Shape
  <2>2. Path(r) = Joined(Joined(seen[r], wire[r]), queue[r])
    BY <2>1 DEF Path, Frames, Pending, Connected, Stage
  <2>3. Path(r) \in Seq(GoodEvent) /\ due[r] \in Seq(GoodEvent) /\ EndsWith(Path(r), due[r])
    BY <1>1, <2>1, PathEvents DEF PageTypes, Owed
  <2>4. IsSuffix(due[r], Path(r))
    BY <2>3, EndIsSuffix
  <2> QED BY <2>2, <2>4 DEF Joined
<1> QED BY <1>1, BaseHolds, OwedHolds, PTL

----------------------------------------------------------------------------
(* The page is at work on one message.                                     *)

(* The page is at work on one message at a time, and then its button is    *)
(* disabled and its view says so.                                          *)
Busy == sending /\ view.status = "streaming"
OneAtWork ==
  ~crossed => /\ \A q, r \in Turn : AtWork(q) /\ AtWork(r) => q = r
              /\ \A r \in Turn : AtWork(r) => Busy

LEMMA SparedWork ==
  ASSUME NEW q \in Turn, Spares(q)
  PROVE  AtWork(q)' = AtWork(q) /\ Path(q)' = Path(q)
BY DEF Spares, AtWork, Path, Frames, Pending, Connected

(* How a step changes what the page is at work on.                         *)
LEMMA MineWork ==
  ASSUME Shape, NEW r \in Turn, Mine(r)
  PROVE  /\ crossed => crossed'
         /\ \/ Send(r) /\ ~sending /\ Busy'
            \/ (AtWork(r)' => AtWork(r)) /\ (Busy => Busy')
            \/ AtWork(r) /\ ~AtWork(r)'
            \/ ~AtWork(r)' /\ (~crossed' => \A q \in Turn \ {r} : ~AtWork(q))
<1> USE PageAssumption
<1>0. PageTypes /\ Stage(r) /\ AckFirst(r)
  BY DEF Shape
<1>1. CASE Send(r)
  BY <1>1 DEF Send, Busy, NewView
<1>2. CASE Subscribe(r) \/ FallBack(r) \/ StreamCut(r)
  <2>1. UNCHANGED <<sending, view, crossed>>
    BY <1>2 DEF Subscribe, FallBack, StreamCut
  <2>2. AtWork(r)' => AtWork(r)
    BY <1>0, <1>2 DEF Subscribe, FallBack, StreamCut, ReadAck, Close, Cut, Connected, AtWork, PageTypes, Stage
  <2> QED BY <2>1, <2>2 DEF Busy
<1>3. CASE OnEvent(r)
  <2> DEFINE e == Head(wire[r])
  <2>1. /\ stream[r] = "open" /\ UNCHANGED <<post, crossed>> /\ view' = Apply(view, e) /\ wire[r] # <<>>
    BY <1>3 DEF OnEvent
  <2>2. post[r] \notin {"none", "sync"} /\ e \in GoodEvent /\ AtWork(r)
    BY <1>0, <2>1, AckOfOpen DEF Stage, AtWork
  <2> HIDE DEF e
  <2>3. CASE Closing(e)
    <3>1. stream'[r] = "closed"
      BY <1>0, <1>3, <2>3 DEF OnEvent, e, PageTypes
    <3> QED BY <2>1, <2>2, <3>1 DEF AtWork
  <2>4. CASE ~Closing(e)
    <3>1. UNCHANGED <<sending, conn, stream>>
      BY <1>3, <2>4 DEF OnEvent, e
    <3>2. view.status = "streaming" => view'.status = "streaming"
      BY <1>0, <2>1, <2>2, <2>4 DEF Apply, Closing, View, PageTypes
    <3> QED BY <2>1, <2>2, <3>1, <3>2 DEF Busy
  <2> QED BY <2>3, <2>4
<1>4. CASE StreamEnds(r)
  BY <1>0, <1>4 DEF StreamEnds, busVars, AtWork, PageTypes, Stage
<1>5. CASE AsyncReply(r)
  BY <1>0, <1>5 DEF AsyncReply, busVars, AtWork, PageTypes, Busy
<1>6. CASE SyncReply(r)
  BY <1>0, <1>6 DEF SyncReply, busVars, AtWork, PageTypes, Stage
<1>7. CASE Rejected(r)
  <2>1. post'[r] = "back" /\ stream'[r] # "open"
    BY <1>0, <1>7 DEF Rejected, PageTypes, Stage
  <2>2. ~AtWork(r)'
    BY <2>1 DEF AtWork
  <2>3. crossed' = (crossed \/ \E q \in Turn \ {r} : AtWork(q))
    BY <1>7 DEF Rejected
  <2> QED BY <2>2, <2>3
<1>8. CASE HandlerStep(r) /\ UNCHANGED pageVars
  <2>1. conn' = conn
    BY <1>8 DEF HandlerStep, Join, JoinFails, Forward, Forsake
  <2> QED BY <1>8, <2>1 DEF pageVars, AtWork, Busy
<1> QED BY <1>1, <1>2, <1>3, <1>4, <1>5, <1>6, <1>7, <1>8 DEF Mine, PageStep, TurnFailed, PostCut

LEMMA SameWork ==
  ASSUME Shape, UNCHANGED pageVars,
         UNCHANGED conn \/ BusRestart
  PROVE  \A r \in Turn : AtWork(r)' = AtWork(r)
<1> SUFFICES ASSUME NEW r \in Turn PROVE AtWork(r)' = AtWork(r)
  OBVIOUS
<1>1. (conn'[r] = "new") = (conn[r] = "new")
  BY PageAssumption DEF BusRestart
<1> QED BY <1>1 DEF AtWork, pageVars

(* No step of the server changes what the page is at work on.              *)
LEMMA NotMine ==
  ASSUME Shape, Hushes \/ Speaks \/ Restarts \/ UNCHANGED vars
  PROVE  UNCHANGED pageVars /\ \A r \in Turn : AtWork(r)' = AtWork(r)
<1>1. UNCHANGED pageVars
  BY DEF Hushes, Speaks, Restarts, vars
<1>2. UNCHANGED conn \/ BusRestart
  BY DEF Hushes, Speaks, Restarts, vars, busVars, Publish, ServerRestart
<1> QED BY <1>1, <1>2, SameWork

LEMMA WorkStep ==
  ASSUME PageBase, OneAtWork, [Next]_vars
  PROVE  OneAtWork'
<1>0. Shape /\ PageTypes /\ TurnInv /\ PageShape
  BY DEF PageBase, PageShape, Shape
<1>1. CASE Mines
  <2> SUFFICES ASSUME ~crossed'
               PROVE  /\ \A p, q \in Turn : AtWork(p)' /\ AtWork(q)' => p = q
                      /\ \A q \in Turn : AtWork(q)' => Busy'
    BY DEF OneAtWork
  <2>1. PICK r \in Turn : Mine(r)
    BY <1>1 DEF Mines
  <2>2. \A q \in Turn \ {r} : AtWork(q)' = AtWork(q)
    BY <1>0, <2>1, OthersSpared, SparedWork
  <2>3. /\ ~crossed
        /\ \/ Send(r) /\ ~sending /\ Busy'
           \/ (AtWork(r)' => AtWork(r)) /\ (Busy => Busy')
           \/ AtWork(r) /\ ~AtWork(r)'
           \/ ~AtWork(r)' /\ \A q \in Turn \ {r} : ~AtWork(q)
    BY <1>0, <2>1, MineWork
  <2>4. /\ \A p, q \in Turn : AtWork(p) /\ AtWork(q) => p = q
        /\ \A q \in Turn : AtWork(q) => Busy
    BY <2>3 DEF OneAtWork
  <2>5. CASE ~sending /\ Busy'
    <3>1. \A q \in Turn : ~AtWork(q)
      BY <2>4, <2>5 DEF Busy
    <3> QED BY <2>2, <2>5, <3>1
  <2> HIDE DEF AtWork, Busy
  <2>6. CASE (AtWork(r)' => AtWork(r)) /\ (Busy => Busy')
    BY <2>2, <2>4, <2>6
  <2>7. CASE ~AtWork(r)' /\ \A q \in Turn \ {r} : ~AtWork(q)
    BY <2>2, <2>7
  <2>8. CASE AtWork(r) /\ ~AtWork(r)'
    BY <2>2, <2>4, <2>8
  <2> QED BY <2>3, <2>5, <2>6, <2>7, <2>8
<1>2. CASE Hushes \/ Speaks \/ Restarts \/ UNCHANGED vars
  <2>1. UNCHANGED <<crossed, sending, view>> /\ \A r \in Turn : AtWork(r)' = AtWork(r)
    BY <1>0, <1>2, NotMine DEF pageVars
  <2> QED BY <2>1 DEF OneAtWork, Busy
<1> QED BY <1>0, <1>1, <1>2, NextShape

LEMMA WorkHolds == Spec => []OneAtWork
<1>1. Init => OneAtWork
  BY PageAssumption DEF Init, BusInit, PageInit, OneAtWork, AtWork
<1>2. PageBase /\ OneAtWork /\ [Next]_vars => OneAtWork'
  BY WorkStep
<1> QED BY <1>1, <1>2, BaseHolds, PTL DEF Spec

----------------------------------------------------------------------------
(* The page's turns never overlap: one message.                            *)

(* The end of the turn is in the sequence.                                 *)
Ends(h) == \E i \in DOMAIN h : Closing(h[i])

LEMMA EndsOfPrefix ==
  ASSUME NEW S, NEW h \in Seq(S), NEW n \in 0 .. Len(h), Ends(SubSeq(h, 1, n))
  PROVE  Ends(h)
<1>1. /\ DOMAIN SubSeq(h, 1, n) = 1 .. n /\ 1 .. n \subseteq DOMAIN h
      /\ \A i \in 1 .. n : SubSeq(h, 1, n)[i] = h[i]
  BY PrefixItems
<1> QED BY <1>1 DEF Ends

LEMMA EndsOfJoined ==
  ASSUME NEW S, NEW h \in Seq(S), NEW t \in Seq(S)
  PROVE  Ends(Joined(h, t)) <=> Ends(h) \/ Ends(t)
<1> DEFINE g == Joined(h, t)
<1>1. /\ g \in Seq(S) /\ Len(g) = Len(h) + Len(t)
      /\ \A i \in 1 .. Len(h) + Len(t) : g[i] = IF i <= Len(h) THEN h[i] ELSE t[i - Len(h)]
  BY JoinedItems
<1> HIDE DEF g
<1>2. /\ Len(h) \in Nat /\ Len(t) \in Nat /\ DOMAIN h = 1 .. Len(h) /\ DOMAIN t = 1 .. Len(t)
      /\ DOMAIN g = 1 .. Len(h) + Len(t)
  BY <1>1, LenProperties
<1>3. ASSUME NEW i \in DOMAIN g, Closing(g[i]) PROVE Ends(h) \/ Ends(t)
  <2>1. CASE i <= Len(h)
    BY <1>1, <1>2, <1>3, <2>1 DEF Ends
  <2>2. CASE ~(i <= Len(h))
    <3>1. i - Len(h) \in DOMAIN t /\ g[i] = t[i - Len(h)]
      BY <1>1, <1>2, <2>2
    <3> QED BY <1>3, <3>1 DEF Ends
  <2> QED BY <2>1, <2>2
<1>4. ASSUME NEW i \in DOMAIN h, Closing(h[i]) PROVE Ends(g)
  <2>1. i \in DOMAIN g /\ g[i] = h[i]
    BY <1>1, <1>2
  <2> QED BY <1>4, <2>1 DEF Ends
<1>5. ASSUME NEW i \in DOMAIN t, Closing(t[i]) PROVE Ends(g)
  <2>1. i + Len(h) \in DOMAIN g /\ g[i + Len(h)] = t[i]
    <3>1. i + Len(h) \in 1 .. Len(h) + Len(t) /\ ~(i + Len(h) <= Len(h)) /\ i + Len(h) - Len(h) = i
      BY <1>2
    <3> QED BY <1>1, <1>2, <3>1
  <2> QED BY <1>5, <2>1 DEF Ends
<1> QED BY <1>3, <1>4, <1>5 DEF Ends, g

LEMMA NoEnds == ~Ends(<<>>)
BY DEF Ends

(* A turn that writes on has not said that it is over.                     *)
LEMMA SaysOn ==
  ASSUME NEW q \in Turn, NEW evs \in Seq(GoodEvent), Says(q, evs), Writing(q)'
  PROVE  ~Ends(evs)
<1>1. CASE evs = <<>>
  BY <1>1, NoEnds
<1>2. ASSUME NEW e \in GoodEvent, ~Closing(e), evs = <<e>> PROVE ~Ends(evs)
  BY <1>2 DEF Ends
<1>3. ASSUME NEW e \in GoodEvent, ~Closing(e), evs = <<Ev("assistant"), e>> PROVE ~Ends(evs)
  <2>1. ~Closing(Ev("assistant"))
    BY EventFields DEF Closing
  <2> QED BY <1>3, <2>1 DEF Ends
<1> QED BY <1>1, <1>2, <1>3 DEF Says

LEMMA MovesOn ==
  ASSUME Shape, NEW r \in Turn, Moves(r), Ends(Path(r)')
  PROVE  Ends(Path(r))
<1>1. Path(r) \in Seq(GoodEvent)
  BY PathEvents
<1> QED BY <1>1, EndsOfPrefix, NoEnds DEF Moves

LEMMA HearsOn ==
  ASSUME Shape, NEW r \in Turn, NEW evs \in Seq(GoodEvent), Hears(r, evs), Ends(Path(r)')
  PROVE  Ends(Path(r)) \/ Ends(evs)
<1>1. Path(r) \in Seq(GoodEvent) /\ Joined(Path(r), evs) \in Seq(GoodEvent)
  BY PathEvents, JoinedItems
<1>2. CASE Ends(Joined(Path(r), evs))
  BY <1>1, <1>2, EndsOfJoined
<1> QED BY <1>1, <1>2, EndsOfPrefix, NoEnds DEF Hears

(* The event an open stream gives to the page is on its path.              *)
LEMMA HeadEnds ==
  ASSUME Shape, NEW r \in Turn, stream[r] = "open", wire[r] # <<>>, Closing(Head(wire[r]))
  PROVE  Ends(Path(r))
<1>0. Stage(r) /\ AckFirst(r) /\ PageTypes
  BY DEF Shape
<1>1. /\ Frames(r) = wire[r] /\ wire[r] \in Seq(GoodEvent) /\ seen[r] \in Seq(GoodEvent)
      /\ Pending(r) \in Seq(GoodEvent)
  BY <1>0, NoEvents DEF Stage, AckFirst, Frames, PageTypes, Pending
<1>2. Ends(wire[r])
  <2>1. Len(wire[r]) \in Nat \ {0} /\ DOMAIN wire[r] = 1 .. Len(wire[r]) /\ Head(wire[r]) = wire[r][1]
    BY <1>1, EmptySeq, LenProperties, HeadTailProperties
  <2> QED BY <2>1 DEF Ends
<1>3. Joined(seen[r], wire[r]) \in Seq(GoodEvent) /\ Ends(Joined(seen[r], wire[r]))
  BY <1>1, <1>2, JoinedItems, EndsOfJoined
<1> QED BY <1>1, <1>3, EndsOfJoined DEF Path

LEMMA StepFrom ==
  ASSUME Types, NEW q \in Turn, Steps(q)
  PROVE  /\ tpc'[q] # "idle"
         /\ \/ tpc[q] = "idle" /\ Begin(q)
            \/ Writing(q) /\ tangled' = tangled
            \/ tpc[q] = "finishing" /\ tpc'[q] = "done" /\ tangled' = tangled
<1>0. tpc \in [Turn -> TurnPC] /\ last \in [Turn -> Nat] /\ todo \in [Turn -> Seq(CallKind)]
  BY DEF Types, TurnTypeOK
<1>1. CASE Begin(q)
  BY <1>0, <1>1 DEF Begin
<1>2. CASE Finish(q)
  BY <1>0, <1>2 DEF Finish, End
<1>3. CASE StoreUser(q) \/ ReadHistory(q) \/ StartLoop(q) \/ NoBackend(q)
  BY <1>0, <1>3 DEF StoreUser, ReadHistory, StartLoop, NoBackend, End, Writing, Live, Over
<1>4. CASE (\E n \in 0 .. MaxCalls : \E kinds \in [1 .. n -> CallKind] : Reply(q, kinds))
           \/ ModelFails(q) \/ Malformed(q) \/ StoreApproval(q) \/ ToolReturns(q)
  BY <1>0, <1>4 DEF Reply, ModelFails, Malformed, StoreApproval, ToolReturns, End, Writing, Live, Over
<1>5. CASE StoreTool(q) \/ ArgsUnbound(q) \/ ToolOutput(q)
  BY <1>0, <1>5 DEF StoreTool, ArgsUnbound, ToolOutput, End, Writing, Live, Over
<1>6. CASE StoreAssistant(q)
  <2>1. tpc[q] = "replied" /\ tangled' = tangled
    BY <1>6 DEF StoreAssistant
  <2>2. CASE todo[q] = <<>>
    BY <1>0, <1>6, <2>1, <2>2 DEF StoreAssistant, Writing, Live, Over
  <2>3. CASE todo[q] # <<>>
    <3>1. tpc'[q] # "idle"
      <4>1. Enter(q, Head(todo[q]), <<Ev("assistant")>>) /\ Head(todo[q]) \in CallKind
        BY <1>0, <1>6, <2>3, HeadTailProperties DEF StoreAssistant
      <4> QED BY <1>0, <4>1, EnterCases
    <3> QED BY <2>1, <3>1 DEF Writing, Live, Over
  <2> QED BY <2>2, <2>3
<1>7. CASE StoreAudit(q)
  <2>1. tpc[q] = "auditing" /\ tangled' = tangled
    BY <1>7 DEF StoreAudit, Advance
  <2>2. tpc'[q] # "idle"
    <3>1. CASE Len(todo[q]) > 1
      <4>1. Enter(q, todo[q][2], <<>>) /\ todo[q][2] \in CallKind
        BY <1>0, <1>7, <3>1, TailProperties DEF StoreAudit, Advance
      <4> QED BY <1>0, <4>1, EnterCases
    <3>2. CASE ~(Len(todo[q]) > 1)
      BY <1>0, <1>7, <3>2 DEF StoreAudit, Advance
    <3> QED BY <3>1, <3>2
  <2> QED BY <2>1, <2>2 DEF Writing, Live, Over
<1> QED BY <1>1, <1>2, <1>3, <1>4, <1>5, <1>6, <1>7 DEF Steps, TurnStep

Held == cuts = 0 /\ restarts = 0 /\ ~crossed

(* While nothing breaks, the page is at work on any message whose turn may *)
(* still write, and has not been told otherwise.                           *)
Attends(r) ==
  /\ Writing(r) \/ (Posted(r) /\ tpc[r] = "idle") => AtWork(r)
  /\ AtWork(r) /\ (tpc[r] = "idle" \/ Writing(r)) => ~Ends(Path(r))
  /\ stream[r] = "open" => conn[r] = "live"
  /\ post[r] = "none" /\ conn[r] = "down" => wire[r] = <<>>

Attended == Held => ~tangled /\ \A r \in Turn : Attends(r)

LEMMA MineAttends ==
  ASSUME Shape, Types, NEW r \in Turn, Mine(r), Moves(r), Attends(r), cuts' = cuts
  PROVE  Attends(r)'
<1> USE PageAssumption
<1>0. PageTypes /\ Stage(r) /\ AckFirst(r)
  BY DEF Shape
<1>1. tpc'[r] = tpc[r] /\ Writing(r)' = Writing(r)
  BY DEF Mine, turnVars, Writing, Live
<1>2. CASE Send(r)
  <2>1. /\ conn[r] = "new" /\ UNCHANGED <<post, stream, seen, wire, queue>> /\ conn'[r] # "new"
    BY <1>0, <1>2 DEF Send, Open, PageTypes
  <2>2. wire'[r] = <<>> /\ post'[r] = "none" /\ stream'[r] = "none" /\ seen'[r] = <<>> /\ queue'[r] = <<>>
    BY <1>0, <2>1 DEF Stage
  <2>3. Path(r)' = <<>>
    BY <2>2, EmptyPath
  <2>4. AtWork(r)'
    BY <2>1, <2>2 DEF AtWork
  <2> QED BY <2>2, <2>3, <2>4, NoEnds DEF Attends
<1>3. ASSUME AtWork(r)' => AtWork(r) PROVE AtWork(r)' /\ (tpc'[r] = "idle" \/ Writing(r)') => ~Ends(Path(r)')
  BY <1>1, <1>3, MovesOn DEF Attends
<1>4. CASE Subscribe(r)
  <2>1. /\ post[r] = "none" /\ wire[r] # <<>> /\ post'[r] = "async" /\ stream'[r] = "open"
        /\ conn'[r] = IF conn[r] = "up" THEN "live" ELSE conn[r]
    BY <1>0, <1>4 DEF Subscribe, ReadAck, PageTypes
  <2>2. conn[r] = "up"
    BY <1>0, <2>1 DEF Attends, Stage, PageTypes
  <2>3. AtWork(r) /\ AtWork(r)'
    BY <2>1, <2>2 DEF AtWork
  <2> QED BY <1>3, <2>1, <2>2, <2>3 DEF Attends
<1>5. CASE FallBack(r)
  <2>1. /\ conn[r] # "new" /\ post[r] = "none" /\ post'[r] = "sync" /\ stream' = stream
    BY <1>0, <1>5 DEF FallBack, PageTypes
  <2>2. AtWork(r) /\ AtWork(r)' /\ stream[r] = "none"
    BY <1>0, <2>1 DEF AtWork, Stage
  <2> QED BY <1>3, <2>1, <2>2 DEF Attends
<1>6. CASE OnEvent(r)
  <2>1. stream[r] = "open" /\ wire[r] # <<>> /\ post' = post
    BY <1>6 DEF OnEvent
  <2>2. post[r] \notin {"none", "sync"} /\ AtWork(r)
    BY <1>0, <2>1 DEF Stage, AtWork
  <2>3. CASE Closing(Head(wire[r]))
    <3>1. stream'[r] = "closed"
      BY <1>0, <1>6, <2>3 DEF OnEvent, PageTypes
    <3>2. tpc[r] # "idle" /\ ~Writing(r)
      BY <2>1, <2>2, <2>3, HeadEnds DEF Attends
    <3> QED BY <1>1, <2>1, <2>2, <3>1, <3>2 DEF Attends
  <2>4. CASE ~Closing(Head(wire[r]))
    <3>1. UNCHANGED <<conn, stream>>
      BY <1>6, <2>4 DEF OnEvent
    <3>2. AtWork(r)'
      BY <2>1, <3>1 DEF AtWork
    <3> QED BY <1>3, <2>1, <2>2, <3>1, <3>2 DEF Attends
  <2> QED BY <2>3, <2>4
<1>7. CASE StreamEnds(r)
  BY <1>7 DEF StreamEnds, Attends
<1>8. CASE AsyncReply(r) \/ SyncReply(r) \/ TurnFailed(r)
  <2>1. tpc[r] # "idle" /\ ~Writing(r) /\ post'[r] # "none"
    BY <1>0, <1>8 DEF AsyncReply, SyncReply, TurnFailed, Rejected, Writing, Live, Over, PageTypes
  <2>2. stream'[r] = "open" => stream[r] = "open" /\ conn'[r] = conn[r]
    <3>1. CASE AsyncReply(r) \/ SyncReply(r)
      BY <3>1 DEF AsyncReply, SyncReply, busVars
    <3>2. CASE Rejected(r)
      BY <1>0, <3>2 DEF Rejected, busVars, PageTypes
    <3> QED BY <1>8, <3>1, <3>2 DEF TurnFailed
  <2> QED BY <1>1, <2>1, <2>2 DEF Attends
<1>9. CASE PostCut(r) \/ StreamCut(r)
  <2>1. cuts \in Nat
    BY <1>0 DEF PageTypes
  <2> QED BY <1>9, <2>1 DEF PostCut, StreamCut
<1>10. CASE HandlerStep(r) /\ UNCHANGED pageVars
  <2>1. UNCHANGED conn /\ (conn[r] = "down" => wire'[r] = wire[r])
    BY <1>10 DEF HandlerStep, Join, JoinFails, Forward, Forsake, Connected
  <2>2. AtWork(r)' = AtWork(r) /\ UNCHANGED <<post, stream>>
    BY <1>10, <2>1 DEF pageVars, AtWork
  <2> QED BY <1>1, <1>3, <2>1, <2>2 DEF Attends, Posted
<1> QED
  BY <1>2, <1>4, <1>5, <1>6, <1>7, <1>8, <1>9, <1>10 DEF Mine, PageStep

----------------------------------------------------------------------------
(* The page's turns never overlap: all messages.                           *)

LEMMA SparedAttends ==
  ASSUME NEW q \in Turn, Spares(q), Attends(q)
  PROVE  Attends(q)'
<1>1. AtWork(q)' = AtWork(q) /\ Path(q)' = Path(q)
  BY SparedWork
<1> QED BY <1>1 DEF Spares, Attends, Writing, Live, Posted

(* Begin and the steps of a turn that goes on keep the session's turns     *)
(* apart: the page is at work on their message.                            *)
LEMMA AloneAtWork ==
  ASSUME Types, OneAtWork, Held, Attended, NEW q \in Turn, Steps(q), tpc[q] = "idle" => Posted(q)
  PROVE  /\ ~tangled'
         /\ tpc'[q] # "idle"
         /\ tpc[q] = "finishing" => ~Writing(q)'
         /\ tpc[q] # "finishing" =>
              /\ AtWork(q) /\ \A p \in Turn : AtWork(p) => p = q
              /\ tpc[q] = "idle" \/ Writing(q)
<1>1. ~tangled /\ (\A p \in Turn : Attends(p)) /\ \A p, r \in Turn : AtWork(p) /\ AtWork(r) => p = r
  BY DEF Attended, OneAtWork, Held
<1>2. CASE tpc[q] = "idle" /\ Begin(q)
  <2>1. AtWork(q) /\ ~Writing(q)
    BY <1>1, <1>2 DEF Attends, Writing, Live
  <2>2. \A p \in Turn : ~Writing(p)
    BY <1>1, <2>1 DEF Attends
  <2>3. ~tangled'
    BY <1>1, <1>2, <2>2 DEF Begin
  <2> QED BY <1>1, <1>2, <2>1, <2>3, StepFrom
<1>3. CASE Writing(q) /\ tangled' = tangled
  <2>1. AtWork(q)
    BY <1>1, <1>3 DEF Attends
  <2> QED BY <1>1, <1>3, <2>1, StepFrom DEF Writing
<1>4. CASE tpc[q] = "finishing" /\ tpc'[q] = "done" /\ tangled' = tangled
  BY <1>1, <1>4 DEF Writing, Live, Over
<1> QED BY <1>2, <1>3, <1>4, StepFrom

LEMMA StepRestarts ==
  ASSUME NEW q \in Turn, Steps(q)
  PROVE  restarts' = restarts
BY DEF Steps, Begin, TurnStep, ToolOutput, StoreUser, ReadHistory, StartLoop, NoBackend, Reply, ModelFails,
       Malformed, StoreAssistant, StoreApproval, ToolReturns, StoreTool, ArgsUnbound, StoreAudit, Advance,
       Finish

LEMMA AttendedStep ==
  ASSUME PageBase, OneAtWork, Attended, [Next]_vars
  PROVE  Attended'
<1>0. Shape /\ PageTypes /\ TurnInv /\ Types /\ PageShape
  BY DEF PageBase, PageShape, Shape, TurnInv
<1> SUFFICES ASSUME Held' PROVE ~tangled' /\ \A r \in Turn : Attends(r)'
  BY DEF Attended
<1>1. CASE Mines
  <2>1. PICK r \in Turn : Mine(r) /\ \A q \in Turn : Moves(q)
    BY <1>1 DEF Mines
  <2>2. cuts' = cuts /\ restarts' = restarts
    <3>1. restarts' = restarts
      BY <2>1 DEF Mine, turnVars
    <3>2. cuts' = cuts \/ cuts' = cuts + 1
      BY <2>1 DEF Mine, Send, PageStep, Subscribe, FallBack, OnEvent, StreamEnds, AsyncReply,
                  SyncReply, TurnFailed, PostCut, StreamCut, pageVars
    <3>3. cuts \in Nat
      BY <1>0 DEF PageTypes
    <3> QED BY <3>1, <3>2, <3>3 DEF Held
  <2>3. ~crossed
    BY <1>0, <2>1, MineWork DEF Held
  <2>4. ~tangled /\ \A q \in Turn : Attends(q)
    BY <2>2, <2>3 DEF Held, Attended
  <2>5. ~tangled'
    BY <2>1, <2>4 DEF Mine, turnVars
  <2>6. Attends(r)'
    BY <1>0, <2>1, <2>2, <2>4, MineAttends
  <2>7. \A q \in Turn \ {r} : Attends(q)'
    BY <1>0, <2>1, <2>4, OthersSpared, SparedAttends
  <2> QED BY <2>5, <2>6, <2>7
<1>2. CASE Restarts
  <2>1. restarts \in Nat /\ restarts' = restarts + 1
    BY <1>0, <1>2 DEF Restarts, ServerRestart, Types, TurnTypeOK
  <2> QED BY <2>1 DEF Held
<1>3. ASSUME NEW q \in Turn, Steps(q), tpc[q] = "idle" => Posted(q), UNCHANGED pageVars,
             UNCHANGED <<conn, wire>>, \A r \in Turn : AtWork(r)' = AtWork(r),
             \A r \in Turn : Ends(Path(r)') => Ends(Path(r)) \/ (Writing(q) /\ (r = q => ~Writing(q)'))
      PROVE  ~tangled' /\ \A r \in Turn : Attends(r)'
  <2>1. Held
    <3>1. restarts' = restarts
      BY <1>3, StepRestarts
    <3> QED BY <1>3, <3>1 DEF Held, pageVars
  <2>2. /\ ~tangled' /\ tpc'[q] # "idle"
        /\ tpc[q] = "finishing" => ~Writing(q)'
        /\ tpc[q] # "finishing" =>
             /\ AtWork(q) /\ \A p \in Turn : AtWork(p) => p = q
             /\ tpc[q] = "idle" \/ Writing(q)
    BY <1>0, <1>3, <2>1, AloneAtWork
  <2>3. \A r \in Turn : Attends(r)
    BY <2>1 DEF Attended
  <2>w. Writing(q) => tpc[q] # "finishing"
    BY DEF Writing
  <2>4. \A r \in Turn \ {q} : tpc'[r] = tpc[r] /\ Writing(r)' = Writing(r)
    <3>1. \A r \in Turn \ {q} : tpc'[r] = tpc[r]
      BY <1>0, <1>3, StepOnly DEF Steps, Only
    <3> QED BY <3>1 DEF Writing, Live
  <2>5. ASSUME NEW r \in Turn \ {q} PROVE Attends(r)'
    <3>1. AtWork(r) /\ (tpc[r] = "idle" \/ Writing(r)) => ~Ends(Path(r)')
      BY <1>3, <2>2, <2>3, <2>w DEF Attends
    <3>2. post' = post /\ stream' = stream
      BY <1>3 DEF pageVars
    <3> QED BY <1>3, <2>3, <2>4, <3>1, <3>2 DEF Attends, Posted
  <2>6. Attends(q)'
    <3>1. AtWork(q) /\ Writing(q)' => ~Ends(Path(q)')
      BY <1>3, <2>2, <2>3 DEF Attends
    <3>2. post' = post /\ stream' = stream
      BY <1>3 DEF pageVars
    <3> QED BY <1>3, <2>2, <2>3, <3>1, <3>2 DEF Attends, Posted
  <2> QED BY <2>2, <2>5, <2>6
<1>4. CASE Hushes
  <2>1. PICK q \in Turn :
          /\ Steps(q) /\ UNCHANGED <<busVars, pageVars>>
          /\ tpc[q] = "idle" => Posted(q)
          /\ \A r \in Turn : Path(r)' = Path(r)
    BY <1>4 DEF Hushes
  <2>2. \A r \in Turn : AtWork(r)' = AtWork(r)
    BY <1>0, <1>4, NotMine
  <2> QED BY <1>3, <2>1, <2>2 DEF busVars
<1>5. CASE Speaks
  <2>1. PICK q \in Turn, evs \in Seq(GoodEvent) :
          /\ Steps(q) /\ Says(q, evs) /\ Publish(evs) /\ UNCHANGED pageVars
          /\ \A r \in Turn : Hears(r, evs)
    BY <1>5 DEF Speaks
  <2>2. \A r \in Turn : AtWork(r)' = AtWork(r)
    BY <1>0, <1>5, NotMine
  <2>3. Writing(q) /\ tpc[q] # "idle" /\ UNCHANGED <<conn, wire>>
    BY <2>1 DEF Says, Publish, Writing, Live
  <2>4. \A r \in Turn : Ends(Path(r)') => Ends(Path(r)) \/ (Writing(q) /\ (r = q => ~Writing(q)'))
    BY <1>0, <2>1, <2>3, HearsOn, SaysOn
  <2> QED BY <1>3, <2>1, <2>2, <2>3, <2>4
<1>6. CASE UNCHANGED vars
  <2>1. \A r \in Turn : Attends(r)' = Attends(r)
    BY <1>6 DEF vars, busVars, turnVars, pageVars, Attends, AtWork, Writing, Live, Posted, Path, Frames,
                Pending, Connected
  <2>2. Held /\ tangled' = tangled
    BY <1>6 DEF vars, turnVars, pageVars, Held
  <2> QED BY <2>1, <2>2 DEF Attended
<1> QED BY <1>0, <1>1, <1>2, <1>4, <1>5, <1>6, NextShape

LEMMA AttendedHolds == Spec => []Attended
<1>1. Init => Attended
  BY PageAssumption DEF Init, BusInit, PageInit, TurnInit, Attended, Attends, AtWork, Writing, Live, Posted
<1>2. PageBase /\ OneAtWork /\ Attended /\ [Next]_vars => Attended'
  BY AttendedStep
<1> QED BY <1>1, <1>2, BaseHolds, WorkHolds, PTL DEF Spec

(* While no connection breaks, the server stays up and no late rejection   *)
(* frees the button, the session's turns never overlap: the page lets the  *)
(* user send only when the turn before has said or answered that it is     *)
(* over (page.tsx, handleSendMessage).                                     *)
THEOREM TurnsTaken == Spec => []PageTakesTurns
<1>1. Attended => PageTakesTurns
  BY DEF Attended, Held, PageTakesTurns
<1> QED BY <1>1, AttendedHolds, PTL

----------------------------------------------------------------------------
(* What turns publish links up with what the page has seen.                *)

(* Turns took turns, no late rejection was crossed, no queue was full.     *)
Clean == ~tangled /\ ~crossed /\ NoneFull

(* What turn q leaves open at the end of the events h.                     *)
AtTool(q) == tpc[q] = "running" \/ (tpc[q] = "result" /\ parsed[q])
Expects(q, h) ==
  /\ tpc[q] = "running" => OnlyOf(h, last[q] + 1)
  /\ Settled(h) \/ AtTool(q)

Linked(r) ==
  /\ Follows(Path(r)) /\ Settles(Path(r))
  /\ Connected(r) => /\ \A q \in Turn : tpc[q] = "running" => OnlyOf(Path(r), last[q] + 1)
                     /\ Settled(Path(r)) \/ \E q \in Turn : AtTool(q)

AllLinked == Clean => \A r \in Turn : Linked(r)

LEMMA SpokenKeeps ==
  ASSUME Types, NEW q \in Turn, NEW h \in Seq(GoodEvent), Follows(h), Settles(h), Expects(q, h),
         NEW e \in GoodEvent, Spoken(q, e)
  PROVE  /\ Append(h, e) \in Seq(GoodEvent)
         /\ Follows(Append(h, e)) /\ Settles(Append(h, e))
         /\ tpc'[q] = "running" => OnlyOf(Append(h, e), last'[q] + 1)
         /\ Settled(Append(h, e)) \/ AtTool(q)'
<1> DEFINE g == Append(h, e)
<1>0. g \in Seq(GoodEvent)
  BY AppendItems
<1>1. CASE e.type \in {"turn_started", "assistant", "approval_required", "turn_error"} /\ Plain(q)
  <2>1. Settled(h) /\ ~OfTool(e) /\ tpc'[q] # "running"
    BY <1>1 DEF Expects, AtTool, Plain, OfTool
  <2>2. Follows(g) /\ Settles(g) /\ Settled(g)
    BY <1>1, <2>1, AppendFollows, AppendSettles, AppendSettled
  <2> QED BY <1>0, <2>1, <2>2
<1>2. CASE e.type = "turn_done" /\ tpc[q] \in {"replied", "auditing"} /\ tpc'[q] = "finishing"
  <2>1. Settled(h) /\ ~OfTool(e) /\ tpc'[q] # "running"
    BY <1>2 DEF Expects, AtTool, OfTool
  <2>2. Follows(g) /\ Settles(g) /\ Settled(g)
    BY <1>2, <2>1, AppendFollows, AppendSettles, AppendSettled
  <2> QED BY <1>0, <2>1, <2>2
<1>3. CASE /\ e.type = "tool_call" /\ e.call = last[q] + 1
           /\ tpc[q] \in {"replied", "auditing"} /\ tpc'[q] = "running" /\ last'[q] = last[q]
  <2>1. Settled(h) /\ e.call = last'[q] + 1 /\ AtTool(q)'
    BY <1>3 DEF Expects, AtTool
  <2>2. Follows(g) /\ Settles(g) /\ OnlyOf(g, e.call)
    BY <1>3, <2>1, AppendFollows, AppendSettles, AppendOnlyOf
  <2> QED BY <1>0, <2>1, <2>2
<1>4. CASE /\ e.type = "tool_output" /\ e.call = last[q] + 1
           /\ tpc[q] = "running" /\ UNCHANGED <<tpc, last, parsed>>
  <2>1. OnlyOf(h, e.call) /\ e.call = last'[q] + 1 /\ AtTool(q)'
    BY <1>4 DEF Expects, AtTool
  <2>2. Follows(g) /\ Settles(g) /\ OnlyOf(g, e.call)
    BY <1>4, <2>1, AppendFollows, AppendSettles, AppendOnlyOf
  <2> QED BY <1>0, <2>1, <2>2
<1>5. CASE e.type = "tool_result" /\ tpc[q] = "result" /\ tpc'[q] = "auditing"
  <2>1. Follows(g) /\ Settles(g) /\ Settled(g)
    BY <1>5, AppendFollows, AppendSettles, AppendSettled
  <2> QED BY <1>0, <1>5, <2>1
<1> QED BY <1>1, <1>2, <1>3, <1>4, <1>5 DEF Spoken

LEMMA JoinedOne ==
  ASSUME NEW S, NEW h \in Seq(S), NEW a \in S, NEW e \in S
  PROVE  Joined(h, <<a, e>>) = Append(Append(h, a), e)
<1> DEFINE f == <<a>>
           g == <<e>>
           k == Append(h, a)
<1>1. f \in Seq(S) /\ g \in Seq(S) /\ k \in Seq(S)
  BY AppendItems
<1>2. Joined(h, f) = k /\ Joined(f, g) = Append(f, e) /\ Joined(k, g) = Append(k, e)
  BY <1>1, JoinedAppend
<1>3. Append(f, e) = <<a, e>>
  BY AfterAnother
<1> HIDE DEF f, g, k
<1>4. Joined(Joined(h, f), g) = Joined(h, Joined(f, g))
  BY <1>1, JoinedTwice
<1> QED BY <1>2, <1>3, <1>4 DEF k

(* What a turn publishes links up with all it published before.            *)
LEMMA SaysKeeps ==
  ASSUME Types, NEW q \in Turn, NEW h \in Seq(GoodEvent), Follows(h), Settles(h), Expects(q, h),
         NEW evs, Says(q, evs)
  PROVE  /\ Follows(Joined(h, evs)) /\ Settles(Joined(h, evs))
         /\ tpc'[q] = "running" => OnlyOf(Joined(h, evs), last'[q] + 1)
         /\ Settled(Joined(h, evs)) \/ AtTool(q)'
<1>1. CASE evs = <<>> /\ Plain(q)
  <2>1. Joined(h, evs) = h /\ Settled(h) /\ tpc'[q] # "running"
    BY <1>1, JoinedEmpty DEF Expects, AtTool, Plain
  <2> QED BY <2>1
<1>2. ASSUME NEW e \in GoodEvent, Spoken(q, e), evs = <<e>> PROVE
         /\ Follows(Joined(h, evs)) /\ Settles(Joined(h, evs))
         /\ tpc'[q] = "running" => OnlyOf(Joined(h, evs), last'[q] + 1)
         /\ Settled(Joined(h, evs)) \/ AtTool(q)'
  <2>1. Joined(h, evs) = Append(h, e)
    BY <1>2, JoinedAppend
  <2> QED BY <1>2, <2>1, SpokenKeeps
<1>3. ASSUME NEW e \in GoodEvent, Spoken(q, e), evs = <<Ev("assistant"), e>>, tpc[q] = "replied" PROVE
         /\ Follows(Joined(h, evs)) /\ Settles(Joined(h, evs))
         /\ tpc'[q] = "running" => OnlyOf(Joined(h, evs), last'[q] + 1)
         /\ Settled(Joined(h, evs)) \/ AtTool(q)'
  <2> DEFINE a == Ev("assistant")
             k == Append(h, a)
  <2>1. a \in GoodEvent /\ a.type = "assistant" /\ ~OfTool(a)
    BY GoodEvents, EventFields DEF EventType, OfTool
  <2>2. Settled(h)
    BY <1>3 DEF Expects, AtTool
  <2>3. k \in Seq(GoodEvent) /\ Follows(k) /\ Settles(k) /\ Settled(k)
    <3> HIDE DEF a
    <3> QED BY <2>1, <2>2, AppendItems, AppendFollows, AppendSettles, AppendSettled
  <2>4. Joined(h, evs) = Append(k, e)
    BY <1>3, <2>1, JoinedOne
  <2> HIDE DEF k
  <2>5. Expects(q, k)
    BY <1>3, <2>3 DEF Expects
  <2> QED BY <1>3, <2>3, <2>4, <2>5, SpokenKeeps
<1> QED BY <1>1, <1>2, <1>3 DEF Says

LEMMA FullStays ==
  ASSUME NEW r \in Turn, Mine(r)
  PROVE  full' = full
<1>1. CASE Send(r) \/ FallBack(r) \/ StreamCut(r) \/ Subscribe(r)
  BY <1>1 DEF Send, Open, FallBack, Close, StreamCut, Cut, Subscribe, ReadAck
<1>2. CASE OnEvent(r)
  BY <1>2 DEF OnEvent, Close
<1>3. CASE StreamEnds(r) \/ AsyncReply(r) \/ SyncReply(r)
  BY <1>3 DEF StreamEnds, AsyncReply, SyncReply, busVars
<1>4. CASE Rejected(r)
  BY <1>4 DEF Rejected, Close, busVars
<1>5. CASE HandlerStep(r)
  BY <1>5 DEF HandlerStep, Join, JoinFails, Forward, Forsake
<1> QED BY <1>1, <1>2, <1>3, <1>4, <1>5 DEF Mine, PageStep, TurnFailed, PostCut

LEMMA StepTangled ==
  ASSUME Types, NEW q \in Turn, Steps(q), tangled
  PROVE  tangled'
BY DEF Types, TurnTypeOK, Steps, Begin, TurnStep, ToolOutput, StoreUser, ReadHistory, StartLoop, NoBackend,
       Reply, ModelFails, Malformed, StoreAssistant, StoreApproval, ToolReturns, StoreTool, ArgsUnbound,
       StoreAudit, Advance, Finish

LEMMA CleanBefore ==
  ASSUME PageBase, [Next]_vars, Clean'
  PROVE  Clean
<1>0. TurnInv /\ PageShape /\ Shape /\ PageTypes /\ Types
  BY DEF PageBase, PageShape, Shape, TurnInv
<1>1. CASE Mines
  <2>1. PICK r \in Turn : Mine(r)
    BY <1>1 DEF Mines
  <2>2. ~tangled /\ ~crossed
    BY <1>0, <2>1, MineWork DEF Clean, Mine, turnVars
  <2>3. full' = full
    BY <2>1, FullStays
  <2> QED BY <2>2, <2>3 DEF Clean, NoneFull
<1>2. CASE Hushes
  <2>1. PICK q \in Turn : Steps(q) /\ UNCHANGED <<busVars, pageVars>>
    BY <1>2 DEF Hushes
  <2>2. tangled => tangled'
    BY <1>0, <2>1, StepTangled
  <2> QED BY <2>1, <2>2 DEF Clean, NoneFull, busVars, pageVars
<1>3. CASE Speaks
  <2>1. PICK q \in Turn, evs \in Seq(GoodEvent) : Steps(q) /\ Publish(evs) /\ UNCHANGED pageVars
    BY <1>3 DEF Speaks
  <2>2. tangled => tangled'
    BY <1>0, <2>1, StepTangled
  <2>3. \A r \in Turn : full[r] => full'[r]
    BY <1>0, <2>1, PublishTypes
  <2> QED BY <2>1, <2>2, <2>3 DEF Clean, NoneFull, pageVars
<1>4. CASE Restarts
  BY <1>4 DEF Restarts, ServerRestart, BusRestart, Clean, NoneFull, pageVars
<1>5. CASE UNCHANGED vars
  BY <1>5 DEF vars, busVars, turnVars, pageVars, Clean, NoneFull
<1> QED BY <1>0, <1>1, <1>2, <1>3, <1>4, <1>5, NextShape

LEMMA EmptyLinked ==
  ASSUME NEW h, h = <<>>
  PROVE  /\ Follows(h) /\ Settles(h) /\ Settled(h) /\ \A c : OnlyOf(h, c)
BY NothingFollows

LEMMA MovesLink ==
  ASSUME Shape, NEW r \in Turn, Moves(r), Linked(r), UNCHANGED turnVars
  PROVE  Linked(r)'
<1>0. Path(r) \in Seq(GoodEvent)
  BY PathEvents
<1>1. CASE Path(r)' = Path(r) /\ (Connected(r)' => Connected(r))
  BY <1>1 DEF Linked, AtTool, turnVars
<1>2. CASE ~Connected(r)' /\ \E n \in 0 .. Len(Path(r)) : Path(r)' = SubSeq(Path(r), 1, n)
  <2>1. Follows(Path(r)') /\ Settles(Path(r)')
    BY <1>0, <1>2, PrefixKeeps DEF Linked
  <2> QED BY <1>2, <2>1 DEF Linked
<1>3. CASE Path(r)' = <<>>
  BY <1>3, EmptyLinked DEF Linked
<1> QED BY <1>1, <1>2, <1>3 DEF Moves

LEMMA HushLink ==
  ASSUME Types, NEW q \in Turn, Only(q), Hush(q), Locals(q), NEW r \in Turn, Linked(r),
         Path(r)' = Path(r), Connected(r)' = Connected(r)
  PROVE  Linked(r)'
<1>1. \A p \in Turn : tpc'[p] = "running" => tpc[p] = "running" /\ last'[p] = last[p]
  BY DEF Only, Hush
<1>2. \A p \in Turn : AtTool(p) => AtTool(p)'
  BY DEF Only, Hush, Locals, AtTool
<1> QED BY <1>1, <1>2 DEF Linked

LEMMA HearsLink ==
  ASSUME Shape, Types, OneWrites, NEW q \in Turn, NEW evs \in Seq(GoodEvent), Only(q), Says(q, evs),
         NEW r \in Turn, Linked(r), Hears(r, evs), ~full'[r]
  PROVE  Linked(r)'
<1>0. Path(r) \in Seq(GoodEvent)
  BY PathEvents
<1>1. CASE Path(r)' = Path(r) /\ ~Connected(r)
  BY <1>1 DEF Linked, Hears
<1>2. CASE Path(r)' = <<>>
  BY <1>2, EmptyLinked DEF Linked
<1>3. CASE Connected(r) /\ Path(r)' = Joined(Path(r), evs)
  <2>1. \A p \in Turn : AtTool(p) => p = q
    BY DEF OneWrites, Says, AtTool, Writing, Live, Over
  <2>2. Expects(q, Path(r)) /\ Follows(Path(r)) /\ Settles(Path(r))
    BY <1>3, <2>1 DEF Linked, Expects
  <2>3. /\ Follows(Path(r)') /\ Settles(Path(r)')
        /\ tpc'[q] = "running" => OnlyOf(Path(r)', last'[q] + 1)
        /\ Settled(Path(r)') \/ AtTool(q)'
    <3> DEFINE h == Path(r)
    <3>1. Path(r)' = Joined(h, evs) /\ h \in Seq(GoodEvent) /\ Expects(q, h) /\ Follows(h) /\ Settles(h)
      BY <1>0, <1>3, <2>2
    <3> HIDE DEF h
    <3> QED BY <3>1, SaysKeeps
  <2>4. \A p \in Turn : tpc'[p] = "running" => p = q
    <3>1. \A p \in Turn \ {q} : tpc'[p] = tpc[p]
      BY DEF Only
    <3>2. \A p \in Turn : tpc[p] = "running" => p = q
      BY <2>1 DEF AtTool
    <3> QED BY <3>1, <3>2
  <2> QED BY <2>3, <2>4 DEF Linked
<1> QED BY <1>1, <1>2, <1>3 DEF Hears

LEMMA LinkedStep ==
  ASSUME PageBase, AllLinked, [Next]_vars
  PROVE  AllLinked'
<1>0. /\ Shape /\ TurnInv /\ PageShape /\ Types /\ Ordered /\ \A q \in Turn : Locals(q)
  BY DEF PageBase, PageShape, TurnInv
<1> SUFFICES ASSUME Clean', NEW r \in Turn PROVE Linked(r)'
  BY DEF AllLinked
<1>1. Clean
  BY CleanBefore
<1>2. Linked(r) /\ OneWrites /\ ~full'[r]
  BY <1>0, <1>1 DEF AllLinked, Clean, NoneFull, Ordered
<1>3. CASE Mines
  <2>1. UNCHANGED turnVars /\ Moves(r)
    BY <1>3 DEF Mines, Mine
  <2> QED BY <1>0, <1>2, <2>1, MovesLink
<1>4. CASE Hushes
  <2>1. PICK q \in Turn : Steps(q) /\ Hush(q) /\ Path(r)' = Path(r) /\ Connected(r)' = Connected(r)
    BY <1>4 DEF Hushes
  <2>2. Only(q)
    BY <1>0, <2>1, StepOnly DEF Steps
  <2> QED BY <1>0, <1>2, <2>1, <2>2, HushLink
<1>5. CASE Speaks
  <2>1. PICK q \in Turn, evs \in Seq(GoodEvent) : Steps(q) /\ Says(q, evs) /\ Hears(r, evs)
    BY <1>5 DEF Speaks
  <2>2. Only(q)
    BY <1>0, <2>1, StepOnly DEF Steps
  <2> QED BY <1>0, <1>2, <2>1, <2>2, HearsLink
<1>6. CASE Restarts
  <2>1. Moves(r) /\ (Connected(r)' => Path(r)' = <<>>)
    BY <1>6 DEF Restarts
  <2>2. CASE Connected(r)'
    BY <2>1, <2>2, EmptyLinked DEF Linked
  <2>3. CASE ~Connected(r)'
    <3>1. Path(r) \in Seq(GoodEvent)
      BY <1>0, PathEvents
    <3>2. Follows(Path(r)') /\ Settles(Path(r)')
      BY <1>2, <2>1, <3>1, PrefixKeeps, EmptyLinked DEF Moves, Linked
    <3> QED BY <2>3, <3>2 DEF Linked
  <2> QED BY <2>2, <2>3
<1>7. CASE UNCHANGED vars
  BY <1>2, <1>7
  DEF vars, busVars, turnVars, pageVars, Linked, AtTool, Path, Frames, Pending, Connected
<1> QED BY <1>0, <1>3, <1>4, <1>5, <1>6, <1>7, NextShape

LEMMA LinkedHolds == Spec => []AllLinked
<1>1. Init => AllLinked
  <2> SUFFICES ASSUME Init, NEW r \in Turn PROVE Linked(r)
    BY DEF AllLinked
  <2>1. Path(r) = <<>>
    BY PageAssumption, NoEvents DEF Init, BusInit, PageInit, Path, Frames, Pending
  <2> QED BY <2>1, EmptyLinked DEF Linked
<1>2. PageBase /\ AllLinked /\ [Next]_vars => AllLinked'
  BY LinkedStep
<1> QED BY <1>1, <1>2, BaseHolds, PTL DEF Spec

----------------------------------------------------------------------------
(* What the panels show: the reducer.                                      *)

(* A panel shows the output of one task, that of its call if it knows it.  *)
WellPanel(p) ==
  /\ p.outs = IF p.task = 0 THEN {} ELSE {p.task}
  /\ p.call # 0 /\ p.task # 0 => p.call = p.task
  /\ p.call = 0 => p.task # 0
Names(p) == IF p.call # 0 THEN p.call ELSE p.task

Fit(ps) == \A i \in DOMAIN ps : WellPanel(ps[i])

(* The last panel is that of the last call of the events h, and the only   *)
(* one that may be running; it is, only until its result is among them.    *)
LastOf(p, h) ==
  \E j \in DOMAIN h : /\ OfTool(h[j]) /\ h[j].call = Names(p)
                      /\ \A i \in j + 1 .. Len(h) : h[i].type # "tool_call"
ShowsOf(ps, h) ==
  ps # <<>> =>
    /\ LastOf(ps[Len(ps)], h)
    /\ \A i \in 1 .. Len(ps) - 1 : ps[i].status # "running"
    /\ ps[Len(ps)].status = "running" => ~Settled(h)

LEMMA LastOfMore ==
  ASSUME NEW h \in Seq(GoodEvent), NEW e \in GoodEvent, NEW p, NEW n, Names(n) = Names(p),
         \/ LastOf(p, h) /\ e.type # "tool_call"
         \/ OfTool(e) /\ e.call = Names(p)
  PROVE  LastOf(n, Append(h, e))
<1> DEFINE g == Append(h, e)
<1>1. /\ Len(h) \in Nat /\ DOMAIN h = 1 .. Len(h) /\ Len(g) = Len(h) + 1 /\ DOMAIN g = 1 .. Len(h) + 1
      /\ \A i \in 1 .. Len(h) : g[i] = h[i]
      /\ g[Len(h) + 1] = e
  BY AppendItems
<1> HIDE DEF g
<1>2. CASE LastOf(p, h) /\ e.type # "tool_call"
  <2>1. PICK j \in DOMAIN h : /\ OfTool(h[j]) /\ h[j].call = Names(p)
                              /\ \A i \in j + 1 .. Len(h) : h[i].type # "tool_call"
    BY <1>2 DEF LastOf
  <2>2. j \in DOMAIN g /\ g[j] = h[j]
    BY <1>1
  <2>3. \A i \in j + 1 .. Len(g) : g[i].type # "tool_call"
    <3> TAKE i \in j + 1 .. Len(g)
    <3>1. CASE i \in j + 1 .. Len(h)
      BY <1>1, <2>1, <3>1
    <3>2. CASE i = Len(h) + 1
      BY <1>1, <1>2, <3>2
    <3> QED BY <1>1, <3>1, <3>2
  <2>4. LastOf(n, g)
    BY <2>1, <2>2, <2>3 DEF LastOf
  <2> QED BY <2>4 DEF g
<1>3. CASE OfTool(e) /\ e.call = Names(p)
  <2>1. Len(h) + 1 \in DOMAIN g /\ ~\E i \in Len(h) + 1 + 1 .. Len(g) : TRUE
    BY <1>1
  <2>2. LastOf(n, g)
    BY <1>1, <1>3, <2>1 DEF LastOf
  <2> QED BY <2>2 DEF g
<1> QED BY <1>2, <1>3

(* A panel is put in place of another, of the same name.                   *)
LEMMA PanelDrawn ==
  ASSUME NEW ps \in Seq(Panel), ps # <<>>, NEW h \in Seq(GoodEvent), Fit(ps), ShowsOf(ps, h),
         NEW e \in GoodEvent, e.type # "tool_call",
         NEW i \in DOMAIN ps, NEW p \in Panel, WellPanel(p), Names(p) = Names(ps[i]),
         \/ p.status = ps[i].status /\ e.type # "tool_result"
         \/ i = Len(ps) /\ p.status # "running"
  PROVE  Fit([ps EXCEPT ![i] = p]) /\ ShowsOf([ps EXCEPT ![i] = p], Append(h, e))
<1> DEFINE g == [ps EXCEPT ![i] = p]
<1>1. /\ g \in Seq(Panel) /\ Len(g) = Len(ps) /\ DOMAIN g = DOMAIN ps
      /\ g[i] = p /\ \A j \in DOMAIN ps \ {i} : g[j] = ps[j]
  BY PanelSet
<1>2. DOMAIN ps = 1 .. Len(ps) /\ Len(ps) \in Nat \ {0}
  BY LenProperties, EmptySeq
<1> HIDE DEF g
<1>3. Fit(g)
  BY <1>1 DEF Fit
<1>4. Names(g[Len(g)]) = Names(ps[Len(ps)]) /\ LastOf(ps[Len(ps)], h)
  BY <1>1, <1>2 DEF ShowsOf
<1>5. LastOf(g[Len(g)], Append(h, e))
  BY <1>4, LastOfMore
<1>6. \A j \in 1 .. Len(g) - 1 : g[j].status # "running"
  <2> TAKE j \in 1 .. Len(g) - 1
  <2>1. j \in 1 .. Len(ps) - 1
    BY <1>1
  <2>2. j \in DOMAIN ps /\ j # Len(ps) /\ ps[j].status # "running"
    <3>1. Len(ps) \in Nat /\ DOMAIN ps = 1 .. Len(ps)
      BY <1>2
    <3>2. ps[j].status # "running"
      BY <2>1 DEF ShowsOf
    <3> DEFINE n == Len(ps)
    <3>3. n \in Nat /\ j \in 1 .. n - 1
      BY <2>1, <3>1
    <3> HIDE DEF n
    <3>4. j \in 1 .. n /\ j # n
      BY <3>3
    <3> QED BY <3>1, <3>2, <3>4 DEF n
  <2>3. CASE j = i
    BY <1>1, <2>2, <2>3
  <2>4. CASE j # i
    BY <1>1, <2>2, <2>4
  <2> QED BY <2>3, <2>4
<1>7. g[Len(g)].status = "running" => ~Settled(Append(h, e))
  <2> HAVE g[Len(g)].status = "running"
  <2>1. ps[Len(ps)].status = "running" /\ e.type # "tool_result"
    BY <1>1, <1>2
  <2>2. ~Settled(h)
    BY <2>1 DEF ShowsOf
  <2> QED BY <2>1, <2>2, AppendUnsettled
<1>8. ShowsOf(g, Append(h, e))
  BY <1>5, <1>6, <1>7 DEF ShowsOf
<1> QED BY <1>3, <1>8 DEF g

LEMMA OutputDrawn ==
  ASSUME NEW ps \in Seq(Panel), NEW h \in Seq(GoodEvent), Fit(ps), ShowsOf(ps, h),
         NEW e \in GoodEvent, e.type = "tool_output", OnlyOf(h, e.call)
  PROVE  Fit(AddOutput(ps, e.call)) /\ ShowsOf(AddOutput(ps, e.call), Append(h, e))
<1> DEFINE c == e.call
<1>0. c \in Nat \ {0} /\ OfTool(e)
  BY DEF GoodEvent, Event, OfTool
<1>1. CASE ps = <<>>
  <2> DEFINE p == NewPanel(0, c, {c})
  <2>1. AddOutput(ps, c) = <<p>>
    BY <1>1, NoneLatest DEF AddOutput
  <2>2. WellPanel(p) /\ Names(p) = c
    BY <1>0 DEF NewPanel, WellPanel, Names
  <2> HIDE DEF p
  <2>3. LastOf(p, Append(h, e)) /\ ~Settled(Append(h, e))
    BY <1>0, <2>2, LastOfMore, AppendUnsettled
  <2> QED BY <2>1, <2>2, <2>3 DEF Fit, ShowsOf
<1>2. CASE ps # <<>>
  <2> DEFINE i == LatestTool(ps, c)
             p == WithOutput(ps[i], c)
  <2>1. i \in DOMAIN ps /\ ps[i] \in Panel /\ p \in Panel /\ AddOutput(ps, c) = [ps EXCEPT ![i] = p]
    BY <1>0, <1>2, OutputPanels
  <2>2. \/ ps[i].task = c
        \/ i = Len(ps) /\ ps[i].task # c
    BY <1>2, <2>1, LatestIsOne
  <2> HIDE DEF i
  <2>w. WellPanel(ps[i])
    BY <2>1 DEF Fit
  <2>f. /\ p.outs = ps[i].outs \cup {c} /\ p.task = (IF ps[i].task = 0 THEN c ELSE ps[i].task)
        /\ p.call = ps[i].call /\ p.status = ps[i].status
    BY <2>1 DEF WithOutput, Panel
  <2>3. ASSUME ps[i].task = c PROVE WellPanel(p) /\ Names(p) = Names(ps[i])
    <3>1. p.outs = {c} /\ p.task = c /\ Names(p) = Names(ps[i])
      BY <1>0, <2>f, <2>w, <2>3 DEF WellPanel, Names
    <3> QED BY <1>0, <2>f, <2>w, <2>3, <3>1 DEF WellPanel
  <2>4. ASSUME i = Len(ps) /\ ps[i].task # c PROVE WellPanel(p) /\ Names(p) = Names(ps[i])
    <3>1. PICK j \in DOMAIN h : /\ OfTool(h[j]) /\ h[j].call = Names(ps[i])
                                /\ \A k \in j + 1 .. Len(h) : h[k].type # "tool_call"
      BY <1>2, <2>4 DEF ShowsOf, LastOf
    <3>2. Names(ps[i]) = c
      BY <3>1 DEF OnlyOf
    <3>3. ps[i].call = c /\ ps[i].task = 0 /\ ps[i].outs = {}
      BY <1>0, <2>w, <2>4, <3>2 DEF Names, WellPanel
    <3> QED BY <1>0, <2>f, <3>2, <3>3 DEF Names, WellPanel
  <2>5. WellPanel(p) /\ Names(p) = Names(ps[i])
    BY <2>2, <2>3, <2>4
  <2>6. p.status = ps[i].status /\ e.type # "tool_result" /\ e.type # "tool_call"
    BY <2>f
  <2>7. i \in DOMAIN ps /\ p \in Panel
    BY <2>1
  <2> HIDE DEF p
  <2>8. Fit([ps EXCEPT ![i] = p]) /\ ShowsOf([ps EXCEPT ![i] = p], Append(h, e))
    BY <1>2, <2>5, <2>6, <2>7, PanelDrawn
  <2> QED BY <2>1, <2>8
<1> QED BY <1>1, <1>2

LEMMA ResultDrawn ==
  ASSUME NEW ps \in Seq(Panel), NEW h \in Seq(GoodEvent), Fit(ps), ShowsOf(ps, h),
         NEW e \in GoodEvent, e.type = "tool_result"
  PROVE  Fit(AddResult(ps, e)) /\ ShowsOf(AddResult(ps, e), Append(h, e))
<1>1. CASE ps = <<>>
  BY <1>1 DEF AddResult, ShowsOf
<1>2. CASE ps # <<>>
  <2> DEFINE i == Len(ps)
             p == WithResult(ps[i], e)
  <2>1. i \in DOMAIN ps /\ ps[i] \in Panel /\ p \in Panel /\ AddResult(ps, e) = [ps EXCEPT ![i] = p]
    BY <1>2, ResultPanels
  <2>2. /\ p.outs = ps[i].outs /\ p.task = ps[i].task /\ p.call = ps[i].call /\ p.status = e.status
        /\ e.status # "running"
    BY <2>1 DEF WithResult, Panel, GoodEvent, Event, Outcome
  <2>3. WellPanel(p) /\ Names(p) = Names(ps[i])
    BY <2>1, <2>2 DEF Fit, WellPanel, Names
  <2> HIDE DEF p
  <2> QED BY <1>2, <2>1, <2>2, <2>3, PanelDrawn
<1> QED BY <1>1, <1>2

LEMMA CallDrawn ==
  ASSUME NEW ps \in Seq(Panel), NEW h \in Seq(GoodEvent), Fit(ps), ShowsOf(ps, h),
         NEW e \in GoodEvent, e.type = "tool_call", Settled(h)
  PROVE  LET qs == Append(ps, NewPanel(e.call, 0, {}))
         IN  Fit(qs) /\ ShowsOf(qs, Append(h, e))
<1> DEFINE p == NewPanel(e.call, 0, {})
           g == Append(ps, p)
<1>0. e.call \in Nat \ {0} /\ OfTool(e)
  BY DEF GoodEvent, Event, OfTool
<1>1. p \in Panel /\ WellPanel(p) /\ Names(p) = e.call
  BY <1>0 DEF NewPanel, Panel, WellPanel, Names
<1> HIDE DEF p
<1>2. /\ g \in Seq(Panel) /\ Len(ps) \in Nat /\ DOMAIN ps = 1 .. Len(ps)
      /\ Len(g) = Len(ps) + 1 /\ DOMAIN g = 1 .. Len(ps) + 1
      /\ (\A i \in 1 .. Len(ps) : g[i] = ps[i]) /\ g[Len(ps) + 1] = p
  BY <1>1, AppendItems
<1> HIDE DEF g
<1>3. Fit(g)
  BY <1>1, <1>2 DEF Fit
<1>4. LastOf(p, Append(h, e)) /\ ~Settled(Append(h, e))
  BY <1>0, <1>1, LastOfMore, AppendUnsettled
<1>5. \A i \in 1 .. Len(ps) : ps[i].status # "running"
  <2>1. ps # <<>> => ps[Len(ps)].status # "running"
    BY DEF ShowsOf
  <2> TAKE i \in 1 .. Len(ps)
  <2>2. ps # <<>>
    BY <1>2
  <2>3. CASE i = Len(ps)
    BY <2>1, <2>2, <2>3
  <2>4. CASE i \in 1 .. Len(ps) - 1
    BY <2>2, <2>4 DEF ShowsOf
  <2>5. i = Len(ps) \/ i \in 1 .. Len(ps) - 1
    <3>1. Len(ps) \in Nat
      BY <1>2
    <3> QED BY <3>1
  <2> QED BY <2>3, <2>4, <2>5
<1>6. ShowsOf(g, Append(h, e))
  <2>1. \A i \in 1 .. Len(g) - 1 : g[i].status # "running"
    BY <1>2, <1>5
  <2>2. g[Len(g)] = p
    BY <1>2
  <2> QED BY <1>4, <2>1, <2>2 DEF ShowsOf
<1> QED BY <1>3, <1>6 DEF g, p

LEMMA PlainDrawn ==
  ASSUME NEW ps \in Seq(Panel), NEW h \in Seq(GoodEvent), ShowsOf(ps, h),
         NEW e \in GoodEvent, e.type \notin {"tool_call", "tool_result"}
  PROVE  ShowsOf(ps, Append(h, e))
<1>1. CASE ps # <<>>
  <2>1. LastOf(ps[Len(ps)], h)
    BY <1>1 DEF ShowsOf
  <2>2. LastOf(ps[Len(ps)], Append(h, e))
    BY <2>1, LastOfMore
  <2>3. ~Settled(h) => ~Settled(Append(h, e))
    BY AppendUnsettled
  <2> QED BY <2>2, <2>3 DEF ShowsOf
<1> QED BY <1>1 DEF ShowsOf

(* What comes next on the path fits what was seen of it.                   *)
LEMMA NextFits ==
  ASSUME NEW h \in Seq(GoodEvent), NEW w \in Seq(GoodEvent), NEW t \in Seq(GoodEvent), w # <<>>,
         Follows(Joined(Joined(h, w), t)), Settles(Joined(Joined(h, w), t))
  PROVE  /\ Head(w).type = "tool_output" => OnlyOf(h, Head(w).call)
         /\ Head(w).type \in {"tool_call", "turn_done"} => Settled(h)
<1> DEFINE a == Joined(h, w)
           g == Joined(a, t)
           k == Len(h) + 1
<1>1. /\ a \in Seq(GoodEvent) /\ Len(a) = Len(h) + Len(w)
      /\ \A i \in 1 .. Len(h) + Len(w) : a[i] = IF i <= Len(h) THEN h[i] ELSE w[i - Len(h)]
  BY JoinedItems
<1> HIDE DEF a
<1>a. a \in Seq(GoodEvent)
  BY <1>1
<1>2. /\ g \in Seq(GoodEvent) /\ Len(g) = Len(a) + Len(t)
      /\ \A i \in 1 .. Len(a) + Len(t) : g[i] = IF i <= Len(a) THEN a[i] ELSE t[i - Len(a)]
  BY <1>a, JoinedItems
<1> HIDE DEF g
<1>3. /\ Len(h) \in Nat /\ Len(w) \in Nat \ {0} /\ Len(t) \in Nat /\ DOMAIN h = 1 .. Len(h)
      /\ DOMAIN g = 1 .. Len(g) /\ Head(w) = w[1]
  BY <1>2, LenProperties, EmptySeq, HeadTailProperties
<1>4. k \in DOMAIN g /\ g[k] = Head(w) /\ \A i \in 1 .. k - 1 : i \in DOMAIN h /\ g[i] = h[i]
  <2>1. k \in DOMAIN g /\ k \in 1 .. Len(a) + Len(t) /\ k <= Len(a) /\ k \in 1 .. Len(h) + Len(w)
        /\ ~(k <= Len(h)) /\ k - Len(h) = 1
    BY <1>1, <1>2, <1>3
  <2>2. g[k] = Head(w)
    BY <1>1, <1>2, <1>3, <2>1
  <2>3. \A i \in 1 .. k - 1 : i \in DOMAIN h /\ g[i] = h[i]
    BY <1>1, <1>2, <1>3
  <2> QED BY <2>1, <2>2, <2>3
<1>5. Len(h) = k - 1 /\ DOMAIN h = 1 .. k - 1 /\ k \in Nat
  BY <1>3
<1>6. Follows(g) /\ Settles(g)
  BY DEF g, a
<1> HIDE DEF k
<1>7. ASSUME Head(w).type = "tool_output" PROVE OnlyOf(h, Head(w).call)
  <2> SUFFICES ASSUME NEW j \in DOMAIN h, OfTool(h[j]), \A i \in j + 1 .. Len(h) : h[i].type # "tool_call"
               PROVE  h[j].call = Head(w).call
    BY DEF OnlyOf
  <2>1. \A i \in j + 1 .. k - 1 : g[i].type # "tool_call"
    BY <1>4, <1>5
  <2> QED BY <1>4, <1>5, <1>6, <1>7, <2>1 DEF Follows
<1>8. ASSUME Head(w).type \in {"tool_call", "turn_done"} PROVE Settled(h)
  <2> SUFFICES ASSUME NEW j \in DOMAIN h, OfTool(h[j])
               PROVE  \E i \in j + 1 .. Len(h) : h[i].type = "tool_result"
    BY DEF Settled
  <2>1. PICK i \in j + 1 .. k - 1 : g[i].type = "tool_result"
    BY <1>4, <1>5, <1>6, <1>8 DEF Settles
  <2> QED BY <1>4, <1>5, <2>1
<1> QED BY <1>7, <1>8

----------------------------------------------------------------------------
(* What the panels show: the page.                                         *)

NoneRuns(ps) == \A i \in DOMAIN ps : ps[i].status # "running"

Drawn ==
  /\ Fit(view.panels)
  /\ \A r \in Turn : stream[r] = "open" => ShowsOf(view.panels, seen[r])
  /\ \A r \in Turn : conn[r] # "new" /\ post[r] = "none" => view.panels = <<>>
  /\ view.status = "done" => NoneRuns(view.panels)

CleanDrawn == Clean => Drawn

LEMMA ApplyDrawn ==
  ASSUME NEW v \in View, v.status # "done", NEW h \in Seq(GoodEvent), Fit(v.panels), ShowsOf(v.panels, h),
         NEW e \in GoodEvent, e.type = "tool_output" => OnlyOf(h, e.call),
         e.type \in {"tool_call", "turn_done"} => Settled(h)
  PROVE  /\ Fit(Apply(v, e).panels) /\ ShowsOf(Apply(v, e).panels, Append(h, e))
         /\ Apply(v, e).status = "done" => NoneRuns(Apply(v, e).panels)
<1> DEFINE ps == v.panels
           w == Apply(v, e)
<1>0. ps \in Seq(Panel) /\ e.type \in EventType /\ DOMAIN v = {"status", "panels"}
  BY DEF View, GoodEvent, Event
<1>1. CASE e.type \in {"turn_started", "assistant", "approval_required", "turn_error"}
  <2>1. w.panels = ps /\ w.status # "done"
    BY <1>0, <1>1 DEF Apply
  <2> HIDE DEF ps
  <2>2. ShowsOf(ps, Append(h, e))
    BY <1>0, <1>1, PlainDrawn DEF ps
  <2> QED BY <2>1, <2>2 DEF ps
<1>2. CASE e.type = "turn_done"
  <2>1. w.panels = ps
    BY <1>0, <1>2 DEF Apply
  <2>2. ShowsOf(ps, Append(h, e))
    BY <1>0, <1>2, PlainDrawn
  <2>3. NoneRuns(ps)
    <3> SUFFICES ASSUME NEW i \in DOMAIN ps PROVE ps[i].status # "running"
      BY DEF NoneRuns
    <3>1. DOMAIN ps = 1 .. Len(ps) /\ Len(ps) \in Nat
      BY <1>0, LenProperties
    <3>2. ps # <<>> /\ (i = Len(ps) \/ i \in 1 .. Len(ps) - 1)
      BY <3>1
    <3> QED BY <1>2, <3>2 DEF ShowsOf
  <2> QED BY <2>1, <2>2, <2>3
<1>3. CASE e.type = "tool_call"
  <2>1. w.panels = Append(ps, NewPanel(e.call, 0, {})) /\ w.status # "done"
    BY <1>0, <1>3 DEF Apply
  <2>2. Fit(Append(ps, NewPanel(e.call, 0, {}))) /\ ShowsOf(Append(ps, NewPanel(e.call, 0, {})), Append(h, e))
    BY <1>0, <1>3, CallDrawn
  <2> QED BY <2>1, <2>2
<1>4. CASE e.type = "tool_output"
  <2>1. w.panels = AddOutput(ps, e.call) /\ w.status # "done"
    BY <1>0, <1>4 DEF Apply
  <2>2. Fit(AddOutput(ps, e.call)) /\ ShowsOf(AddOutput(ps, e.call), Append(h, e))
    BY <1>0, <1>4, OutputDrawn
  <2> QED BY <2>1, <2>2
<1>5. CASE e.type = "tool_result"
  <2>1. w.panels = AddResult(ps, e) /\ w.status # "done"
    BY <1>0, <1>5 DEF Apply
  <2>2. Fit(AddResult(ps, e)) /\ ShowsOf(AddResult(ps, e), Append(h, e))
    BY <1>0, <1>5, ResultDrawn
  <2> QED BY <2>1, <2>2
<1> QED BY <1>0, <1>1, <1>2, <1>3, <1>4, <1>5 DEF EventType

LEMMA BlankDrawn ==
  ASSUME view'.panels = <<>>
  PROVE  Drawn'
BY DEF Drawn, Fit, ShowsOf, NoneRuns

LEMMA KeptDrawn ==
  ASSUME Drawn, view' = view,
         \A r \in Turn : /\ stream'[r] = "open" => stream[r] = "open" /\ seen'[r] = seen[r]
                         /\ conn'[r] # "new" /\ post'[r] = "none" => conn[r] # "new" /\ post[r] = "none"
  PROVE  Drawn'
BY DEF Drawn

LEMMA EventDrawn ==
  ASSUME Shape, OneAtWork, ~crossed, Drawn, NEW r \in Turn, Linked(r), Mine(r), OnEvent(r)
  PROVE  Drawn'
<1>0. Stage(r) /\ AckFirst(r) /\ PageTypes
  BY DEF Shape
<1> DEFINE e == Head(wire[r])
           h == seen[r]
           w == wire[r]
           t == Pending(r)
<1>1. /\ stream[r] = "open" /\ w # <<>> /\ view' = Apply(view, e) /\ post' = post
      /\ seen' = [seen EXCEPT ![r] = IF Closing(e) THEN <<>> ELSE Append(@, e)]
  BY DEF OnEvent
<1>2. AtWork(r) /\ post[r] # "none"
  BY <1>0, <1>1 DEF AtWork, Stage
<1>3. view.status = "streaming" /\ \A q \in Turn \ {r} : ~AtWork(q)
  BY <1>2 DEF OneAtWork, Busy
<1>4. /\ h \in Seq(GoodEvent) /\ w \in Seq(GoodEvent) /\ t \in Seq(GoodEvent) /\ e \in GoodEvent
      /\ Path(r) = Joined(Joined(h, w), t)
  BY <1>0, <1>1, <1>2, NoEvents, AckOfOpen DEF PageTypes, AckFirst, Frames, Pending, Path
<1>5. Follows(Path(r)) /\ Settles(Path(r))
  BY DEF Linked
<1>6. /\ e.type = "tool_output" => OnlyOf(h, e.call)
      /\ e.type \in {"tool_call", "turn_done"} => Settled(h)
  <2> HIDE DEF h, t
  <2> QED BY <1>1, <1>4, <1>5, NextFits
<1>7. view \in View /\ Fit(view.panels) /\ ShowsOf(view.panels, h)
  BY <1>0, <1>1 DEF PageTypes, Drawn
<1>8. /\ Fit(view'.panels) /\ ShowsOf(view'.panels, Append(h, e))
      /\ view'.status = "done" => NoneRuns(view'.panels)
  <2> HIDE DEF h, e
  <2> QED BY <1>1, <1>3, <1>4, <1>6, <1>7, ApplyDrawn
<1>9. \A q \in Turn \ {r} : stream'[q] # "open" /\ (conn'[q] = "new" \/ post'[q] # "none")
  <2>1. \A q \in Turn \ {r} : Spares(q)
    BY <1>0, OthersSpared
  <2> QED BY <1>3, <2>1 DEF Spares, AtWork
<1>10. stream'[r] = "open" => seen'[r] = Append(h, e)
  <2>1. CASE Closing(e)
    <3>1. stream' = [stream EXCEPT ![r] = "closed"]
      BY <2>1 DEF OnEvent
    <3>2. stream'[r] = "closed"
      BY <1>0, <3>1 DEF PageTypes
    <3> QED BY <3>2
  <2>2. CASE ~Closing(e)
    BY <1>0, <1>1, <2>2 DEF PageTypes
  <2> QED BY <2>1, <2>2
<1> HIDE DEF e, h
<1> QED BY <1>1, <1>2, <1>8, <1>9, <1>10 DEF Drawn

LEMMA MineDrawn ==
  ASSUME Shape, OneAtWork, ~crossed, Drawn, NEW r \in Turn, Linked(r), Mine(r)
  PROVE  Drawn'
<1> USE PageAssumption
<1>0. Stage(r) /\ AckFirst(r) /\ PageTypes
  BY DEF Shape
<1>k. ASSUME view' = view, stream'[r] = "open" => stream[r] = "open" /\ seen'[r] = seen[r],
             conn'[r] # "new" /\ post'[r] = "none" => conn[r] # "new" /\ post[r] = "none"
      PROVE  Drawn'
  <2>1. \A q \in Turn \ {r} : Spares(q)
    BY <1>0, OthersSpared
  <2>2. \A q \in Turn : /\ stream'[q] = "open" => stream[q] = "open" /\ seen'[q] = seen[q]
                        /\ conn'[q] # "new" /\ post'[q] = "none" => conn[q] # "new" /\ post[q] = "none"
    BY <1>k, <2>1 DEF Spares
  <2> QED BY <1>k, <2>2, KeptDrawn
<1>1. CASE Send(r) \/ SyncReply(r)
  <2>1. view'.panels = <<>>
    BY <1>1 DEF Send, NewView, SyncReply, NoView
  <2> QED BY <2>1, BlankDrawn
<1>2. CASE Subscribe(r)
  <2>1. post[r] = "none" /\ wire[r] # <<>> /\ view' = view
    BY <1>2 DEF Subscribe, ReadAck
  <2>2. view.panels = <<>>
    BY <1>0, <2>1 DEF Stage, Drawn
  <2> QED BY <2>1, <2>2, BlankDrawn
<1>3. CASE FallBack(r)
  <2>1. view' = view /\ stream' = stream /\ seen' = seen /\ post'[r] = "sync"
    BY <1>0, <1>3 DEF FallBack, PageTypes
  <2> QED BY <1>k, <2>1
<1>4. CASE StreamEnds(r) \/ AsyncReply(r)
  <2>1. /\ view' = view /\ conn' = conn /\ (stream'[r] = "open" => stream[r] = "open" /\ seen'[r] = seen[r])
        /\ (post'[r] = "none" => post[r] = "none")
    BY <1>0, <1>4 DEF StreamEnds, AsyncReply, busVars, PageTypes
  <2> QED BY <1>k, <2>1
<1>5. CASE StreamCut(r)
  <2>1. view' = view /\ stream' = stream /\ seen' = seen /\ post' = post /\ conn[r] # "new"
    BY <1>5 DEF StreamCut, Cut, Connected
  <2> QED BY <1>k, <2>1
<1>6. CASE Rejected(r)
  <2>1. post'[r] = "back" /\ stream'[r] # "open"
    BY <1>0, <1>6 DEF Rejected, PageTypes, Stage
  <2>2. view' = view \/ view' = NoView
    BY <1>6 DEF Rejected
  <2>3. CASE view' = NoView
    BY <2>3, BlankDrawn DEF NoView
  <2> QED BY <1>k, <2>1, <2>2, <2>3
<1>7. CASE HandlerStep(r) /\ UNCHANGED pageVars
  <2>1. conn' = conn
    BY <1>7 DEF HandlerStep, Join, JoinFails, Forward, Forsake
  <2> QED BY <1>k, <1>7, <2>1 DEF pageVars
<1>8. CASE OnEvent(r)
  BY <1>8, EventDrawn
<1> QED BY <1>1, <1>2, <1>3, <1>4, <1>5, <1>6, <1>7, <1>8 DEF Mine, PageStep, TurnFailed, PostCut

LEMMA DrawnStep ==
  ASSUME PageBase, OneAtWork, AllLinked, CleanDrawn, [Next]_vars
  PROVE  CleanDrawn'
<1>0. PageShape /\ TurnInv /\ Shape
  BY DEF PageBase, PageShape
<1> SUFFICES ASSUME Clean' PROVE Drawn'
  BY DEF CleanDrawn
<1>1. Clean /\ Drawn /\ ~crossed /\ \A r \in Turn : Linked(r)
  <2>1. Clean
    BY CleanBefore
  <2> QED BY <2>1 DEF Clean, CleanDrawn, AllLinked
<1>2. CASE Mines
  BY <1>0, <1>1, <1>2, MineDrawn DEF Mines
<1>3. CASE Hushes \/ Speaks \/ Restarts \/ UNCHANGED vars
  <2>1. UNCHANGED pageVars
    BY <1>0, <1>3, NotMine
  <2>2. \A r \in Turn : conn'[r] # "new" => conn[r] # "new"
    BY <1>3, PageAssumption DEF Hushes, Speaks, Restarts, vars, busVars, Publish, ServerRestart, BusRestart
  <2> QED BY <1>1, <2>1, <2>2, KeptDrawn DEF pageVars
<1> QED BY <1>0, <1>2, <1>3, NextShape

LEMMA DrawnHolds == Spec => []CleanDrawn
<1>1. Init => CleanDrawn
  BY PageAssumption DEF Init, BusInit, PageInit, NoView, CleanDrawn, Drawn, Fit, NoneRuns
<1>2. PageBase /\ OneAtWork /\ AllLinked /\ CleanDrawn /\ [Next]_vars => CleanDrawn'
  BY DrawnStep
<1> QED BY <1>1, <1>2, BaseHolds, WorkHolds, LinkedHolds, PTL DEF Spec

(* While turns take turns, no late rejection was crossed and no queue was  *)
(* full, a panel never shows the output of two calls, and never that of    *)
(* another call than its own (chat-stream.ts, latestToolIndex).            *)
THEOREM OutputStaysHome == Spec => []OutputInOwnPanel
<1>1. ASSUME CleanDrawn PROVE OutputInOwnPanel
  <2> SUFFICES ASSUME Clean, NEW i \in DOMAIN view.panels
               PROVE  /\ Cardinality(view.panels[i].outs) <= 1
                      /\ view.panels[i].call # 0 => view.panels[i].outs \subseteq {view.panels[i].call}
    BY DEF OutputInOwnPanel, Clean
  <2> DEFINE p == view.panels[i]
  <2>1. WellPanel(p)
    BY <1>1 DEF CleanDrawn, Drawn, Fit
  <2>2. p.outs = {} \/ p.outs = {p.task}
    BY <2>1 DEF WellPanel
  <2>3. Cardinality(p.outs) <= 1
    <3> HIDE DEF p
    <3>1. Cardinality({}) = 0 /\ Cardinality({p.task}) = 1
      BY FS_EmptySet, FS_Singleton
    <3> QED BY <2>2, <3>1
  <2>4. p.call # 0 => p.outs \subseteq {p.call}
    BY <2>1 DEF WellPanel
  <2> QED BY <2>3, <2>4
<1> QED BY <1>1, DrawnHolds, PTL

(* In the same runs, when the page says that the turn is done no tool is   *)
(* shown as running: each result came before the next call and before      *)
(* turn_done (agent.py, run_agent_turn).                                   *)
THEOREM DoneMeansSettled == Spec => []DoneIsSettled
<1>1. CleanDrawn => DoneIsSettled
  BY DEF CleanDrawn, Clean, Drawn, NoneRuns, DoneIsSettled
<1> QED BY <1>1, DrawnHolds, PTL
============================================================================
