--------------------------- MODULE Approvals_proofs ---------------------------
(***************************************************************************)
(* What the decision endpoints promise, for any number of approvals, of    *)
(* requests and of restarts.  The four invariants lean on one another:     *)
(* that a late request is refused rests on "pending means undecided", and  *)
(* the account of what ran on where each request stands in its handler.    *)
(* Inv names these parts and is inductive.                                 *)
(***************************************************************************)
EXTENDS Approvals, TLAPS

Approved == {"decided", "queued", "sent", "dispatched", "called", "offline"}

(* Where a request is tells what it has read, decided and started.         *)
RequestInv ==
  \A r \in Request :
    /\ pc[r] = "idle" => about[r] = None /\ ~Ran(r) /\ r \notin late
    /\ pc[r] # "idle" => about[r] \in Approval /\ choice[r] \in {"approved", "rejected"}
    /\ pc[r] # "idle" => verdict[about[r]] # "none"
    /\ r \in late => loaded[r] # "pending"
    /\ pc[r] \in {"loaded"} \cup Refused => ~Ran(r)
    /\ pc[r] \in Approved => r \in deciders[about[r]] /\ choice[r] = "approved"
    /\ pc[r] = "dispatched" => task[r] \in {"dispatched", "lost"}
    /\ pc[r] \in {"decided", "offline"} => ~Ran(r)
    /\ pc[r] \in {"queued", "sent", "dispatched"} => about[r] \notin Connector
    /\ pc[r] = "called" => about[r] \in Connector
    /\ pc[r] = "killed" => task[r] \in {"none", "lost"}

(* Who decided on an approval, and what followed.                          *)
DecisionInv ==
  \A a \in Approval : \A r \in Request :
    /\ r \in deciders[a] =>
         /\ about[r] = a /\ r \in Owner /\ loaded[r] = "pending"
         /\ pc[r] \notin {"idle", "loaded"} \cup Refused
    /\ Ran(r) /\ about[r] = a => r \in deciders[a] /\ choice[r] = "approved"
    /\ linked[a] = r => /\ pc[r] = "done" /\ about[r] = a /\ choice[r] = "approved"
                        /\ task[r] \in {"dispatched", "lost"}

(* What a request that answered an approval with success has left behind.  *)
AccountInv ==
  \A r \in Request : pc[r] = "done" /\ choice[r] = "approved" =>
    /\ about[r] \in Connector => r \in audited
    /\ about[r] \notin Connector =>
         /\ task[r] \in {"dispatched", "lost"}
         /\ linked[about[r]] = r \/ linked[about[r]] \in Rivals(r)

PendingInv ==
  \A a \in Approval : verdict[a] = "pending" <=> (verdict[a] # "none" /\ deciders[a] = {})

Inv == TypeOK /\ RequestInv /\ DecisionInv /\ PendingInv /\ AccountInv

----------------------------------------------------------------------------
LEMMA InitInv == Init => Inv
BY ApprovalAssumption DEF Init, Inv, TypeOK, RequestInv, DecisionInv, PendingInv, AccountInv, Ran, Verdict, PC,
   Refused, Finished, Approved

USE DEF Goto, Verdict, PC, Refused, Finished, Approved

(* The steps of requests and of the surroundings, one by one.              *)
LEMMA StepInv == Inv /\ [Next]_vars => Inv'
<1> SUFFICES ASSUME Inv, [Next]_vars PROVE Inv'
  OBVIOUS
<1> USE ApprovalAssumption
<1>1. ASSUME NEW a \in Approval, Ask(a) PROVE Inv'
  <2>1. TypeOK'
    BY <1>1 DEF Inv, TypeOK, Ask
  <2>2. RequestInv'
    BY <1>1 DEF Inv, TypeOK, RequestInv, Ask, Ran
  <2>3. DecisionInv'
    BY <1>1 DEF Inv, TypeOK, DecisionInv, Ask, Ran
  <2>4. deciders[a] = {}
    BY <1>1 DEF Inv, TypeOK, RequestInv, DecisionInv, Ask
  <2>5. PendingInv'
    BY <1>1, <2>4 DEF Inv, TypeOK, PendingInv, Ask
  <2>9. AccountInv'
    BY <1>1 DEF Inv, TypeOK, AccountInv, Rivals, RequestInv, DecisionInv, Ask
  <2> QED BY <2>1, <2>2, <2>3, <2>5, <2>9 DEF Inv
<1>2. ASSUME NEW r \in Request, NEW a \in Approval, NEW v \in {"approved", "rejected"},
             Load(r, a, v)
      PROVE Inv'
  <2>1. TypeOK'
    BY <1>2 DEF Inv, TypeOK, Load
  <2>2. RequestInv'
    BY <1>2 DEF Inv, TypeOK, RequestInv, PendingInv, Load, Ran
  <2>3. DecisionInv'
    BY <1>2 DEF Inv, TypeOK, RequestInv, DecisionInv, Load, Ran
  <2>4. PendingInv'
    BY <1>2 DEF Inv, PendingInv, Load
  <2>9. AccountInv'
    BY <1>2 DEF Inv, TypeOK, AccountInv, Rivals, RequestInv, DecisionInv, Load
  <2> QED BY <2>1, <2>2, <2>3, <2>4, <2>9 DEF Inv
<1>3. ASSUME NEW r \in Request, Refuse(r) PROVE Inv'
  <2>1. TypeOK'
    BY <1>3 DEF Inv, TypeOK, Refuse
  <2>2. RequestInv'
    BY <1>3 DEF Inv, TypeOK, RequestInv, Refuse, Ran
  <2>3. DecisionInv'
    BY <1>3 DEF Inv, TypeOK, DecisionInv, Refuse, Ran
  <2>4. PendingInv'
    BY <1>3 DEF Inv, PendingInv, Refuse
  <2>9. AccountInv'
    BY <1>3 DEF Inv, TypeOK, AccountInv, Rivals, RequestInv, DecisionInv, Refuse
  <2> QED BY <2>1, <2>2, <2>3, <2>4, <2>9 DEF Inv
<1>4. ASSUME NEW r \in Request, Decide(r) PROVE Inv'
  <2>1. about[r] \in Approval /\ choice[r] \in {"approved", "rejected"} /\ ~Ran(r)
    BY <1>4 DEF Inv, RequestInv, Decide
  <2>2. TypeOK'
    BY <1>4, <2>1 DEF Inv, TypeOK, Decide
  <2>3. RequestInv'
    BY <1>4, <2>1 DEF Inv, TypeOK, RequestInv, Decide, Ran
  <2>4. DecisionInv'
    BY <1>4, <2>1 DEF Inv, TypeOK, RequestInv, DecisionInv, Decide, Ran
  <2>5. PendingInv'
    BY <1>4, <2>1 DEF Inv, TypeOK, PendingInv, Decide
  <2>9. AccountInv'
    BY <1>4 DEF Inv, TypeOK, AccountInv, Rivals, RequestInv, DecisionInv, Decide
  <2> QED BY <2>2, <2>3, <2>4, <2>5, <2>9 DEF Inv
<1>5. ASSUME NEW r \in Request, CallConnector(r) PROVE Inv'
  <2>1. TypeOK'
    BY <1>5 DEF Inv, TypeOK, CallConnector
  <2>2. RequestInv'
    BY <1>5 DEF Inv, TypeOK, RequestInv, CallConnector, Ran
  <2>3. DecisionInv'
    BY <1>5 DEF Inv, TypeOK, RequestInv, DecisionInv, CallConnector, Ran
  <2>4. PendingInv'
    BY <1>5 DEF Inv, PendingInv, CallConnector
  <2>9. AccountInv'
    BY <1>5 DEF Inv, TypeOK, AccountInv, Rivals, RequestInv, DecisionInv, CallConnector
  <2> QED BY <2>1, <2>2, <2>3, <2>4, <2>9 DEF Inv
<1>6. ASSUME NEW r \in Request, Audit(r) PROVE Inv'
  <2>1. TypeOK'
    BY <1>6 DEF Inv, TypeOK, Audit
  <2>2. RequestInv'
    BY <1>6 DEF Inv, TypeOK, RequestInv, Audit, Ran
  <2>3. DecisionInv'
    BY <1>6 DEF Inv, TypeOK, DecisionInv, Audit, Ran
  <2>4. PendingInv'
    BY <1>6 DEF Inv, PendingInv, Audit
  <2>9. AccountInv'
    BY <1>6 DEF Inv, TypeOK, AccountInv, Rivals, RequestInv, DecisionInv, Audit
  <2> QED BY <2>1, <2>2, <2>3, <2>4, <2>9 DEF Inv
<1>7. ASSUME NEW r \in Request, AnswerOffline(r) PROVE Inv'
  <2>1. TypeOK'
    BY <1>7 DEF Inv, TypeOK, AnswerOffline
  <2>2. RequestInv'
    BY <1>7 DEF Inv, TypeOK, RequestInv, AnswerOffline, Ran
  <2>3. DecisionInv'
    BY <1>7 DEF Inv, TypeOK, DecisionInv, AnswerOffline, Ran
  <2>4. PendingInv'
    BY <1>7 DEF Inv, PendingInv, AnswerOffline
  <2>9. AccountInv'
    BY <1>7 DEF Inv, TypeOK, AccountInv, Rivals, RequestInv, DecisionInv, AnswerOffline
  <2> QED BY <2>1, <2>2, <2>3, <2>4, <2>9 DEF Inv
<1>8. ASSUME NEW r \in Request, CreateTask(r) PROVE Inv'
  <2>1. TypeOK'
    BY <1>8 DEF Inv, TypeOK, CreateTask
  <2>2. RequestInv'
    BY <1>8 DEF Inv, TypeOK, RequestInv, CreateTask, Ran
  <2>3. DecisionInv'
    BY <1>8 DEF Inv, TypeOK, RequestInv, DecisionInv, CreateTask, Ran
  <2>4. PendingInv'
    BY <1>8 DEF Inv, PendingInv, CreateTask
  <2>9. AccountInv'
    BY <1>8 DEF Inv, TypeOK, AccountInv, Rivals, RequestInv, DecisionInv, CreateTask
  <2> QED BY <2>1, <2>2, <2>3, <2>4, <2>9 DEF Inv
<1>9. ASSUME NEW r \in Request, Send(r) PROVE Inv'
  <2>1. TypeOK'
    BY <1>9 DEF Inv, TypeOK, Send
  <2>2. RequestInv'
    BY <1>9 DEF Inv, TypeOK, RequestInv, Send, Ran
  <2>3. DecisionInv'
    BY <1>9 DEF Inv, TypeOK, DecisionInv, Send, Ran
  <2>4. PendingInv'
    BY <1>9 DEF Inv, PendingInv, Send
  <2>9. AccountInv'
    BY <1>9 DEF Inv, TypeOK, AccountInv, Rivals, RequestInv, DecisionInv, Send
  <2> QED BY <2>1, <2>2, <2>3, <2>4, <2>9 DEF Inv
<1>10. ASSUME NEW r \in Request, CommitSent(r) PROVE Inv'
  <2>1. TypeOK'
    BY <1>10 DEF Inv, TypeOK, CommitSent
  <2>2. RequestInv'
    BY <1>10 DEF Inv, TypeOK, RequestInv, CommitSent, Ran
  <2>3. DecisionInv'
    BY <1>10 DEF Inv, TypeOK, RequestInv, DecisionInv, CommitSent, Ran
  <2>4. PendingInv'
    BY <1>10 DEF Inv, PendingInv, CommitSent
  <2>9. AccountInv'
    BY <1>10 DEF Inv, TypeOK, AccountInv, Rivals, RequestInv, DecisionInv, CommitSent
  <2> QED BY <2>1, <2>2, <2>3, <2>4, <2>9 DEF Inv
<1>11. ASSUME NEW r \in Request, CommitLost(r) PROVE Inv'
  <2>1. TypeOK'
    BY <1>11 DEF Inv, TypeOK, CommitLost
  <2>2. RequestInv'
    BY <1>11 DEF Inv, TypeOK, RequestInv, CommitLost, Ran
  <2>3. DecisionInv'
    BY <1>11 DEF Inv, TypeOK, RequestInv, DecisionInv, CommitLost, Ran
  <2>4. PendingInv'
    BY <1>11 DEF Inv, PendingInv, CommitLost
  <2>9. AccountInv'
    BY <1>11 DEF Inv, TypeOK, AccountInv, Rivals, RequestInv, DecisionInv, CommitLost
  <2> QED BY <2>1, <2>2, <2>3, <2>4, <2>9 DEF Inv
<1>12. ASSUME NEW r \in Request, Link(r) PROVE Inv'
  <2>1. /\ about[r] \in Approval /\ r \in deciders[about[r]] /\ choice[r] = "approved"
        /\ task[r] \in {"dispatched", "lost"} /\ r # None
    BY <1>12 DEF Inv, RequestInv, Link
  <2>2. TypeOK'
    BY <1>12, <2>1 DEF Inv, TypeOK, Link
  <2>3. RequestInv'
    BY <1>12, <2>1 DEF Inv, TypeOK, RequestInv, Link, Ran
  <2>4. DecisionInv'
    BY <1>12, <2>1 DEF Inv, TypeOK, DecisionInv, Link, Ran
  <2>5. PendingInv'
    BY <1>12 DEF Inv, PendingInv, Link
  <2>9. AccountInv'
    BY <1>12 DEF Inv, TypeOK, AccountInv, Rivals, RequestInv, DecisionInv, Link
  <2> QED BY <2>2, <2>3, <2>4, <2>5, <2>9 DEF Inv
<1>13. CASE MachineTurns
  <2>1. TypeOK'
    BY <1>13 DEF Inv, TypeOK, MachineTurns
  <2>2. RequestInv' /\ DecisionInv' /\ PendingInv'
    BY <1>13 DEF Inv, RequestInv, DecisionInv, PendingInv, MachineTurns, Ran
  <2>9. AccountInv'
    BY <1>13 DEF Inv, TypeOK, AccountInv, Rivals, RequestInv, DecisionInv, MachineTurns
  <2> QED BY <2>1, <2>2, <2>9 DEF Inv
<1>14. CASE Restart
  <2>1. TypeOK'
    <3>1. pc' \in [Request -> PC]
      BY <1>14 DEF Inv, TypeOK, Restart
    <3>2. task' \in [Request -> {"none", "queued", "dispatched", "lost"}]
      BY <1>14 DEF Inv, TypeOK, Restart
    <3>3. online' \in BOOLEAN
      BY <1>14, Zenon DEF Restart
    <3>4. restarts' \in Nat
      BY <1>14 DEF Inv, TypeOK, Restart
    <3>5. UNCHANGED <<verdict, linked, about, choice, loaded, called, audited, deciders, late>>
      BY <1>14 DEF Restart
    <3> QED BY <3>1, <3>2, <3>3, <3>4, <3>5 DEF Inv, TypeOK
  <2>2. ASSUME NEW r \in Request
        PROVE /\ pc'[r] = pc[r] \/ (pc[r] # "idle" /\ pc'[r] = "killed")
              /\ pc'[r] \in Finished \cup {"idle"}
              /\ (task'[r] = "none") <=> (task[r] = "none")
    BY <1>14 DEF Inv, TypeOK, Restart
  <2>3. RequestInv'
    <3> SUFFICES ASSUME NEW r \in Request PROVE RequestInv!(r)'
      BY DEF RequestInv
    <3>1. RequestInv!(r)
      BY DEF Inv, RequestInv
    <3>2. Ran(r)' <=> Ran(r)
      BY <1>14, <2>2 DEF Restart, Ran
    <3>3. task'[r] \in {"none", "lost"}
      BY <1>14 DEF Inv, TypeOK, Restart
    <3> QED BY <1>14, <2>2, <3>1, <3>2, <3>3 DEF Restart
  <2>4. DecisionInv'
    BY <1>14 DEF Inv, TypeOK, DecisionInv, Restart, Ran
  <2>5. PendingInv'
    BY <1>14 DEF Inv, PendingInv, Restart
  <2>9. AccountInv'
    BY <1>14 DEF Inv, TypeOK, AccountInv, Rivals, RequestInv, DecisionInv, Restart
  <2> QED BY <2>1, <2>3, <2>4, <2>5, <2>9 DEF Inv
<1>15. CASE UNCHANGED vars
  BY <1>15 DEF Inv, TypeOK, RequestInv, DecisionInv, PendingInv, AccountInv, Rivals, Ran, vars
<1> QED
  BY <1>1, <1>2, <1>3, <1>4, <1>5, <1>6, <1>7, <1>8, <1>9, <1>10, <1>11, <1>12, <1>13, <1>14,
     <1>15
  DEF Next, RequestStep

LEMMA InvHolds == Spec => []Inv
BY InitInv, StepInv, PTL DEF Spec

----------------------------------------------------------------------------
(* No request, restart or machine state leaves a row outside its columns'  *)
(* values.                                                                 *)
THEOREM ApprovalTypes == Spec => []TypeOK
<1>1. Inv => TypeOK
  BY DEF Inv
<1> QED BY <1>1, InvHolds, PTL

(* approve and reject (routes.py 506-582): a request that read a decided   *)
(* row neither decides nor runs anything.                                  *)
THEOREM LateRequestsAreRefused == Spec => []LateDecisionRefused
<1>1. Inv => LateDecisionRefused
  BY DEF Inv, TypeOK, RequestInv, DecisionInv, LateDecisionRefused, Ran
<1> QED BY <1>1, InvHolds, PTL

(* Whatever ran was approved first, by the owner or an admin.              *)
THEOREM NothingRunsUndecided == Spec => []PendingRanNothing
<1>1. Inv => PendingRanNothing
  BY DEF Inv, TypeOK, DecisionInv, PendingInv, PendingRanNothing, Ran
<1> QED BY <1>1, InvHolds, PTL

(* Each finished approval left its own ToolCall row or its own settled     *)
(* task, which only a rival's link can hide; one answered "offline" ran    *)
(* nothing, and one that died with the process left no task active.        *)
THEOREM ApprovalsAreAccounted == Spec => []ApprovedIsAccounted
<1>1. Inv => ApprovedIsAccounted
  BY DEF Inv, TypeOK, RequestInv, DecisionInv, AccountInv, ApprovedIsAccounted
<1> QED BY <1>1, InvHolds, PTL

(* The task_id an approval shows is that of its own, dispatched task.      *)
THEOREM LinksAreSettled == Spec => []LinkIsSettled
<1>1. Inv => LinkIsSettled
  BY DEF Inv, TypeOK, DecisionInv, LinkIsSettled
<1> QED BY <1>1, InvHolds, PTL
=============================================================================
