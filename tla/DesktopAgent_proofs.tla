------------------------ MODULE DesktopAgent_proofs -------------------------
(***************************************************************************)
(* No command of the desktop agent runs without consent, for any number of *)
(* conversations, turns and tool calls, whatever the model asks for and    *)
(* whichever conversations and pages the user goes through meanwhile.      *)
(*                                                                         *)
(* A call that waits for consent holds the one resolver there is for it,   *)
(* on a page that is there to keep the card.                               *)
(*                                                                         *)
(* And what a conversation holds is what its own turns said, as long as    *)
(* nobody changes the conversation or the page while a turn is on; and it  *)
(* answers every call it makes, but for those of turns that were stopped.  *)
(***************************************************************************)
EXTENDS DesktopAgent, SequenceTheorems, TLAPS

Field == {"pc", "live", "stop", "auto", "home", "base", "rows", "todo", "steps", "end"}
IsTurn(r) == DOMAIN r = Field

OfCommand(r) == Head(r.todo).kind = "run_command"
Allowed(t, r) == Card("approval", t, Head(r.todo).id, "allowed")

(* A turn that runs a command has consent by ok; one that reads before it  *)
(* writes does not run a command next.                                     *)
Consents(r, ok) ==
  /\ IsTurn(r)
  /\ r.pc = "run" /\ OfCommand(r) => r.auto \/ ok
  /\ r.pc = "before" => ~OfCommand(r)

Shows == DOMAIN turn = Turn /\ DOMAIN cards = Session /\ active \in Session

Agreed ==
  /\ Shows
  /\ known \in Seq(Session) /\ known # <<>>
  /\ \A t \in Turn : Consents(turn[t], \E s \in Session : Allowed(t, turn[t]) \in cards[s])
  /\ \A e \in resolver : \E t \in Turn :
       e = <<t, Head(turn[t].todo).id>> /\ turn[t].pc = "approve" /\ turn[t].live

(* What the loop does with a call is what its consent allows.              *)
LEMMA AdvanceConsents ==
  ASSUME NEW r, IsTurn(r) PROVE Consents(Advance(r), FALSE)
<1>1. ASSUME NEW pc
      PROVE  LET q == [r EXCEPT !.pc = pc]
             IN IsTurn(q) /\ q.pc = pc /\ q.todo = r.todo /\ q.auto = r.auto
  BY DEF IsTurn, Field
<1>2. ASSUME NEW how PROVE IsTurn(Ends(r, how)) /\ Ends(r, how).pc = "ended"
  BY DEF Ends, IsTurn, Field
<1>3. Consents(BeginCall(r), FALSE)
  BY <1>1, <1>2 DEF BeginCall, Consents, OfCommand
<1>4. \A how : Consents(Ends(r, how), FALSE) BY <1>2 DEF Consents
<1>5. Consents([r EXCEPT !.pc = "model"], FALSE) BY <1>1 DEF Consents
<1> QED BY <1>3, <1>4, <1>5 DEF Advance

LEMMA AnsweredConsents ==
  ASSUME NEW r, IsTurn(r), NEW t PROVE Consents(Answered(r, t), FALSE)
<1> DEFINE q == [r EXCEPT !.rows = Append(@, Row("tool", t, {Head(r.todo).id})), !.todo = Tail(@)]
<1>1. IsTurn(q) BY DEF IsTurn
<1> HIDE DEF q
<1>2. Consents(Advance(q), FALSE) BY <1>1, AdvanceConsents
<1> QED BY <1>2 DEF Answered, q

LEMMA HeardConsents ==
  ASSUME NEW r, IsTurn(r), NEW t, NEW kinds PROVE Consents(Heard(r, t, kinds), FALSE)
<1> DEFINE ids == {asked + i : i \in DOMAIN kinds}
           q == [r EXCEPT !.rows = Append(@, Row("assistant", t, ids)),
                          !.todo = [i \in DOMAIN kinds |-> [id |-> asked + i, kind |-> kinds[i]]],
                          !.steps = @ + 1]
<1>1. IsTurn(q) BY DEF IsTurn
<1>2. Heard(r, t, kinds) = IF kinds = <<>> THEN Ends(q, "done") ELSE Advance(q) BY DEF Heard
<1> HIDE DEF q
<1>3. Consents(Advance(q), FALSE) BY <1>1, AdvanceConsents
<1>4. Consents(Ends(q, "done"), FALSE) BY <1>1 DEF Consents, Ends, IsTurn, Field
<1> QED BY <1>2, <1>3, <1>4

(* A card that is put replaces none of another turn.                       *)
LEMMA PutKeeps ==
  ASSUME NEW set, NEW new, NEW u, NEW id, NEW status,
         Card("approval", u, id, status) \in set, \A n \in new : n.turn # u
  PROVE  Card("approval", u, id, status) \in Put(set, new)
  BY DEF Put, Card

----------------------------------------------------------------------------
LEMMA InitAgreed == Init => Agreed
<1> SUFFICES ASSUME Init PROVE Agreed OBVIOUS
<1>1. First \in Session BY DesktopAssumption
<1>2. known \in Seq(Session) /\ known # <<>> BY <1>1 DEF Init
<1>3. Shows /\ resolver = {} BY <1>1 DEF Init, Shows
<1>4. \A t \in Turn : IsTurn(turn[t]) /\ turn[t].pc = "none" BY DEF Init, Fresh, IsTurn, Field
<1> QED BY <1>2, <1>3, <1>4 DEF Agreed, Consents

(* A step of turn t that leaves it as r, with the cards shown and the      *)
(* promise of its call settled.                                            *)
LEMMA FollowAgrees ==
  ASSUME Agreed, NEW t \in Turn, NEW r, NEW shown, NEW settled, Follow(t, r, shown, settled),
         Consents(r, Allowed(t, r) \in shown /\ r.live /\ r.pc = "run"),
         \A c \in shown : c.turn = t,
         turn[t].pc = "approve" => <<t, Head(turn[t].todo).id>> \in settled,
         UNCHANGED <<known, active>>
  PROVE  Agreed'
<1> DEFINE next == IF r.pc = "ended" THEN Over(r) ELSE r
           new == shown \cup Begun(r, t)
<1>1. /\ DOMAIN turn' = Turn /\ turn'[t] = next
      /\ \A u \in Turn \ {t} : turn'[u] = turn[u]
  BY DEF Follow, Agreed, Shows
<1>2. DOMAIN cards' = Session
      /\ \A s \in Session : \/ cards'[s] = cards[s]
                            \/ r.live /\ s = active /\ cards'[s] = Put(cards[s], new)
  BY DEF Follow, Agreed, Shows
<1>3. r.live => cards'[active] = Put(cards[active], new) BY DEF Follow, Agreed, Shows
<1>4. \A c \in new : c.turn = t BY DEF Begun, Card
<1>5. ASSUME NEW u \in Turn \ {t}
      PROVE  Consents(turn'[u], \E s \in Session : Allowed(u, turn'[u]) \in cards'[s])
  <2>1. \A s \in Session : Allowed(u, turn[u]) \in cards[s] => Allowed(u, turn[u]) \in cards'[s]
    <3> HIDE DEF new
    <3> QED BY <1>2, <1>4, PutKeeps DEF Allowed
  <2>2. Consents(turn[u], \E s \in Session : Allowed(u, turn[u]) \in cards[s]) BY DEF Agreed
  <2>3. turn'[u] = turn[u] BY <1>1
  <2> QED BY <2>1, <2>2, <2>3 DEF Consents
<1>6. Consents(turn'[t], \E s \in Session : Allowed(t, turn'[t]) \in cards'[s])
  <2>1. CASE r.pc = "ended"
    <3>1. turn'[t] = Over(r) BY <1>1, <2>1
    <3>2. IsTurn(Over(r)) /\ Over(r).pc = "ended" BY DEF Over, Fresh, IsTurn, Field
    <3> QED BY <3>1, <3>2 DEF Consents
  <2>2. CASE r.pc # "ended"
    <3>1. turn'[t] = r BY <1>1, <2>2
    <3>2. ASSUME Allowed(t, r) \in shown, r.live
          PROVE  \E s \in Session : Allowed(t, r) \in cards'[s]
      BY <1>3, <3>2 DEF Put, Agreed, Shows
    <3> QED BY <3>1, <3>2 DEF Consents
  <2> QED BY <2>1, <2>2
<1>7. ASSUME NEW e \in resolver'
      PROVE  \E u \in Turn : /\ e = <<u, Head(turn'[u].todo).id>>
                             /\ turn'[u].pc = "approve" /\ turn'[u].live
  <2>1. CASE e \in resolver \ settled
    <3>1. PICK u \in Turn : e = <<u, Head(turn[u].todo).id>> /\ turn[u].pc = "approve" /\ turn[u].live
      BY <2>1 DEF Agreed
    <3>2. u # t BY <2>1, <3>1
    <3> QED BY <1>1, <3>1, <3>2
  <2>2. CASE r.live /\ r.pc = "approve" /\ e = <<t, Head(r.todo).id>>
    <3>1. turn'[t] = r BY <1>1, <2>2
    <3> QED BY <2>2, <3>1
  <2> QED BY <2>1, <2>2 DEF Follow
<1>8. known' \in Seq(Session) /\ known' # <<>> /\ active' \in Session BY DEF Agreed, Shows
<1> HIDE DEF next, new
<1> QED BY <1>1, <1>2, <1>5, <1>6, <1>7, <1>8 DEF Agreed, Shows

(* A step that leaves calls and cards alone, and consent as it was.        *)
LEMMA OtherwiseAgrees ==
  ASSUME Agreed, UNCHANGED cards, DOMAIN turn' = Turn, active' \in Session,
         known' \in Seq(Session) /\ known' # <<>>,
         \A t \in Turn : \/ turn'[t].pc \notin {"run", "before"} /\ IsTurn(turn'[t])
                        \/ /\ IsTurn(turn'[t]) /\ turn'[t].pc = turn[t].pc
                           /\ turn'[t].todo = turn[t].todo /\ turn'[t].auto = turn[t].auto,
         \A e \in resolver' : \E t \in Turn :
           e = <<t, Head(turn'[t].todo).id>> /\ turn'[t].pc = "approve" /\ turn'[t].live
  PROVE  Agreed'
<1>1. ASSUME NEW t \in Turn
      PROVE  Consents(turn'[t], \E s \in Session : Allowed(t, turn'[t]) \in cards'[s])
  <2>1. Consents(turn[t], \E s \in Session : Allowed(t, turn[t]) \in cards[s]) BY DEF Agreed
  <2> QED BY <2>1 DEF Consents, OfCommand, Allowed
<1> QED BY <1>1 DEF Agreed, Shows

LEMMA LoopAgrees ==
  ASSUME Agreed, NEW t \in Turn,
         ModelReply(t) \/ ModelFails(t) \/ ToolReturns(t) \/ \E allowed \in BOOLEAN : Decide(t, allowed)
  PROVE  Agreed'
<1>1. IsTurn(turn[t]) BY DEF Agreed, Consents
<1>2. CASE ModelReply(t)
  <2>1. turn[t].pc = "model" /\ UNCHANGED <<known, active>> BY <1>2 DEF ModelReply
  <2>2. PICK kinds : Follow(t, Heard(turn[t], t, kinds), {}, {}) BY <1>2 DEF ModelReply
  <2>3. Consents(Heard(turn[t], t, kinds), FALSE) BY <1>1, HeardConsents
  <2> DEFINE r == Heard(turn[t], t, kinds)
  <2> HIDE DEF r
  <2>4. Follow(t, r, {}, {}) /\ Consents(r, FALSE) BY <2>2, <2>3 DEF r
  <2> DEFINE none == {}
  <2>5. Follow(t, r, none, none) /\ (\A c \in none : c.turn = t) BY <2>4
  <2> HIDE DEF none
  <2>6. Consents(r, Allowed(t, r) \in none /\ r.live /\ r.pc = "run") BY <2>4 DEF Consents
  <2> QED BY <2>1, <2>5, <2>6, FollowAgrees
<1>3. CASE ModelFails(t)
  <2> DEFINE r == Ends(turn[t], "failed")
             none == {}
  <2>1. turn[t].pc = "model" /\ UNCHANGED <<known, active>> /\ Follow(t, r, none, none)
    BY <1>3 DEF ModelFails
  <2>2. IsTurn(r) /\ r.pc = "ended" BY <1>1 DEF Ends, IsTurn, Field
  <2>3. \A c \in none : c.turn = t OBVIOUS
  <2> HIDE DEF r, none
  <2>4. Consents(r, Allowed(t, r) \in none /\ r.live /\ r.pc = "run") BY <2>2 DEF Consents
  <2> QED BY <2>1, <2>3, <2>4, FollowAgrees
<1>4. CASE ToolReturns(t)
  <2> DEFINE r == Answered(turn[t], t)
             shown == {Card("tool", t, Head(turn[t].todo).id, "settled")}
  <2>1. turn[t].pc = "run" /\ UNCHANGED <<known, active>> /\ Follow(t, r, shown, {})
    BY <1>4 DEF ToolReturns
  <2>2. \A c \in shown : c.turn = t BY DEF Card
  <2>3. Consents(r, FALSE) BY <1>1, AnsweredConsents
  <2> HIDE DEF r, shown
  <2>4. Consents(r, Allowed(t, r) \in shown /\ r.live /\ r.pc = "run") BY <2>3 DEF Consents
  <2> QED BY <2>1, <2>2, <2>4, FollowAgrees
<1>5. CASE Decide(t, TRUE)
  <2> DEFINE r == [turn[t] EXCEPT !.pc = "run"]
             id == Head(turn[t].todo).id
             shown == {Card("approval", t, id, "allowed")}
  <2>1. /\ turn[t].pc = "approve" /\ UNCHANGED <<known, active>>
        /\ <<t, id>> \in resolver /\ Follow(t, r, shown, {<<t, id>>})
    BY <1>5 DEF Decide
  <2>2. turn[t].live
    <3>1. PICK u \in Turn : <<t, id>> = <<u, Head(turn[u].todo).id>> /\ turn[u].live
      BY <2>1 DEF Agreed
    <3> QED BY <3>1
  <2>3. /\ IsTurn(r) /\ r.pc = "run" /\ r.todo = turn[t].todo /\ r.live = turn[t].live
    BY <1>1 DEF IsTurn, Field
  <2>4. Allowed(t, r) \in shown BY <2>3 DEF Allowed
  <2>5. \A c \in shown : c.turn = t BY DEF Card
  <2> HIDE DEF r, shown
  <2>6. Consents(r, Allowed(t, r) \in shown /\ r.live /\ r.pc = "run")
    BY <2>2, <2>3, <2>4 DEF Consents
  <2>7. <<t, id>> \in {<<t, id>>} OBVIOUS
  <2> QED BY <2>1, <2>5, <2>6, <2>7, FollowAgrees
<1>6. CASE Decide(t, FALSE)
  <2> DEFINE r == Answered(turn[t], t)
             id == Head(turn[t].todo).id
             shown == {Card("approval", t, id, "denied"), Card("tool", t, id, "denied")}
  <2>1. /\ turn[t].pc = "approve" /\ UNCHANGED <<known, active>>
        /\ Follow(t, r, shown, {<<t, id>>})
    BY <1>6 DEF Decide
  <2>2. \A c \in shown : c.turn = t BY DEF Card
  <2>3. Consents(r, FALSE) BY <1>1, AnsweredConsents
  <2> HIDE DEF r, shown
  <2>4. Consents(r, Allowed(t, r) \in shown /\ r.live /\ r.pc = "run") BY <2>3 DEF Consents
  <2>5. <<t, id>> \in {<<t, id>>} OBVIOUS
  <2> QED BY <2>1, <2>2, <2>4, <2>5, FollowAgrees
<1> QED BY <1>2, <1>3, <1>4, <1>5, <1>6

LEMMA UserAgrees ==
  ASSUME Agreed,
         \/ \E t \in Turn : SendMessage(t) \/ ReadBefore(t) \/ StopTurn(t)
         \/ \E s \in Session : NewSession(s) \/ SelectSession(s)
         \/ TickAuto \/ OpenWorkspace \/ LeavePage \/ EnterPage \/ Reload
  PROVE  Agreed'
<1>1. /\ DOMAIN turn = Turn /\ active \in Session /\ known \in Seq(Session) /\ known # <<>>
      /\ \A t \in Turn : IsTurn(turn[t])
      /\ \A e \in resolver : \E t \in Turn :
           e = <<t, Head(turn[t].todo).id>> /\ turn[t].pc = "approve" /\ turn[t].live
  BY DEF Agreed, Shows, Consents
<1>2. Head(known) \in Session BY <1>1
<1>3. CASE \E t \in Turn : SendMessage(t)
  <2>1. PICK t \in Turn : SendMessage(t) BY <1>3
  <2> DEFINE q == [Fresh EXCEPT !.pc = "model", !.live = TRUE, !.auto = auto, !.home = active,
                                !.base = Context, !.rows = <<Row("user", t, {})>>]
  <2>2. turn' = [turn EXCEPT ![t] = q] /\ UNCHANGED <<known, active, cards, resolver>>
        /\ turn[t] = Fresh
    BY <2>1 DEF SendMessage
  <2>3. IsTurn(q) BY DEF IsTurn, Field, Fresh
  <2>4. q.pc = "model" /\ turn[t].pc = "none" BY <2>2 DEF Fresh
  <2> HIDE DEF q
  <2>5. turn'[t] = q /\ \A u \in Turn \ {t} : turn'[u] = turn[u] BY <1>1, <2>2
  <2> QED BY <1>1, <2>2, <2>3, <2>4, <2>5, OtherwiseAgrees
<1>4. CASE \E t \in Turn : ReadBefore(t)
  <2>1. PICK t \in Turn : ReadBefore(t) BY <1>4
  <2> DEFINE q == [turn[t] EXCEPT !.pc = "run"]
  <2>2. turn' = [turn EXCEPT ![t] = q] /\ UNCHANGED <<known, active, cards, resolver>>
        /\ turn[t].pc = "before"
    BY <2>1 DEF ReadBefore
  <2>3. IsTurn(q) /\ q.todo = turn[t].todo BY <1>1 DEF IsTurn, Field
  <2>4. ~OfCommand(q) BY <2>2, <2>3 DEF Agreed, Consents, OfCommand
  <2>5. q.pc = "run" BY <1>1 DEF IsTurn, Field
  <2> HIDE DEF q
  <2>6. turn'[t] = q /\ (\A u \in Turn \ {t} : turn'[u] = turn[u]) /\ DOMAIN turn' = Turn
    BY <1>1, <2>2
  <2>7. \A u \in Turn : Consents(turn'[u], \E s \in Session : Allowed(u, turn'[u]) \in cards'[s])
    BY <2>2, <2>3, <2>4, <2>5, <2>6 DEF Agreed, Consents
  <2>8. \A e \in resolver' : \E u \in Turn :
          e = <<u, Head(turn'[u].todo).id>> /\ turn'[u].pc = "approve" /\ turn'[u].live
    BY <1>1, <2>2, <2>6
  <2> QED BY <1>1, <2>2, <2>6, <2>7, <2>8 DEF Agreed, Shows
<1>5. CASE \E t \in Turn : StopTurn(t)
  <2>1. PICK t \in Turn : StopTurn(t) BY <1>5
  <2> DEFINE q == [turn[t] EXCEPT !.stop = TRUE]
  <2>2. turn' = [turn EXCEPT ![t] = q] /\ UNCHANGED <<known, active, cards, resolver>>
    BY <2>1 DEF StopTurn
  <2>3. /\ IsTurn(q) /\ q.todo = turn[t].todo /\ q.pc = turn[t].pc /\ q.auto = turn[t].auto
        /\ q.live = turn[t].live
    BY <1>1 DEF IsTurn, Field
  <2> HIDE DEF q
  <2>4. turn'[t] = q /\ (\A u \in Turn \ {t} : turn'[u] = turn[u]) /\ DOMAIN turn' = Turn
    BY <1>1, <2>2
  <2>5. \A e \in resolver' : \E u \in Turn :
          e = <<u, Head(turn'[u].todo).id>> /\ turn'[u].pc = "approve" /\ turn'[u].live
    BY <1>1, <2>2, <2>3, <2>4
  <2> QED BY <1>1, <2>2, <2>3, <2>4, <2>5, OtherwiseAgrees
<1>6. CASE \E s \in Session : NewSession(s)
  <2>1. PICK s \in Session : NewSession(s) BY <1>6
  <2>2. known' = <<s>> \o known /\ active' = s /\ UNCHANGED <<turn, cards, resolver>>
    BY <2>1 DEF NewSession, Show
  <2>3. known' \in Seq(Session) /\ known' # <<>> BY <1>1, <2>2
  <2> QED BY <1>1, <2>2, <2>3, OtherwiseAgrees
<1>7. CASE \E s \in Session : SelectSession(s)
  <2>1. PICK s \in Session : SelectSession(s) BY <1>7
  <2>2. active' = s /\ UNCHANGED <<known, turn, cards, resolver>> BY <2>1 DEF SelectSession, Show
  <2> QED BY <1>1, <2>2, OtherwiseAgrees
<1>8. CASE TickAuto \/ OpenWorkspace
  <2>1. UNCHANGED <<known, active, turn, cards, resolver>> BY <1>8 DEF TickAuto, OpenWorkspace
  <2> QED BY <1>1, <2>1, OtherwiseAgrees
<1>9. CASE LeavePage
  <2>1. /\ turn' = [t \in Turn |-> [turn[t] EXCEPT !.live = FALSE]] /\ resolver' = {}
        /\ UNCHANGED <<known, active, cards>>
    BY <1>9 DEF LeavePage
  <2>2. \A t \in Turn : /\ IsTurn(turn'[t]) /\ turn'[t].pc = turn[t].pc
                        /\ turn'[t].todo = turn[t].todo /\ turn'[t].auto = turn[t].auto
    BY <1>1, <2>1 DEF IsTurn, Field
  <2> QED BY <1>1, <2>1, <2>2, OtherwiseAgrees
<1>10. CASE EnterPage
  <2>1. active' = Head(known) /\ resolver' = {} /\ UNCHANGED <<known, turn, cards>>
    BY <1>10 DEF EnterPage, Mounted
  <2> QED BY <1>1, <1>2, <2>1, OtherwiseAgrees
<1>11. CASE Reload
  <2>1. /\ turn' = [t \in Turn |-> IF Busy(t) THEN Over(Ends(turn[t], "gone")) ELSE turn[t]]
        /\ active' = Head(known) /\ resolver' = {} /\ UNCHANGED <<known, cards>>
    BY <1>11 DEF Reload, Mounted
  <2>2. ASSUME NEW r PROVE IsTurn(Over(r)) /\ Over(r).pc = "ended"
    BY DEF Over, Fresh, IsTurn, Field
  <2>3. DOMAIN turn' = Turn BY <2>1
  <2>4. \A t \in Turn : \/ turn'[t].pc = "ended" /\ IsTurn(turn'[t])
                        \/ turn'[t] = turn[t] /\ IsTurn(turn[t])
    BY <1>1, <2>1, <2>2
  <2> QED BY <1>1, <1>2, <2>1, <2>3, <2>4, OtherwiseAgrees
<1> QED BY <1>3, <1>4, <1>5, <1>6, <1>7, <1>8, <1>9, <1>10, <1>11

LEMMA NextAgrees == Agreed /\ [Next]_vars => Agreed'
<1>1. ASSUME Agreed, Next PROVE Agreed'
  BY <1>1, LoopAgrees, UserAgrees DEF Next, Loop
<1>2. ASSUME Agreed, UNCHANGED vars PROVE Agreed'
  BY <1>2 DEF vars, Agreed, Shows, Consents, IsTurn, OfCommand, Allowed
<1> QED BY <1>1, <1>2

(* A command runs only with the box ticked when its turn was sent or after *)
(* the user allowed that very call (executeToolCall, resolveApproval).     *)
THEOREM CommandsWereAllowed == Spec => []CommandWasAllowed
<1>1. Agreed => CommandWasAllowed
  BY DEF Agreed, CommandWasAllowed, Consents, OfCommand, Allowed
<1> QED BY <1>1, InitAgreed, NextAgrees, PTL DEF Spec

----------------------------------------------------------------------------
(* What a conversation holds.                                              *)

(* While no turn was left behind, one turn at most is on, on the page that *)
(* is there, in the conversation that is shown, whose rows it began with.  *)
AtHome(t) ==
  /\ page /\ sending /\ turn[t].live
  /\ turn[t].home = active /\ turn[t].base = messages[active]

Settled ==
  /\ DOMAIN messages = Session /\ DOMAIN said = Session
  /\ crossed = {} =>
       /\ messages = said
       /\ \A t \in Turn : Busy(t) => AtHome(t)
       /\ \A t, u \in Turn : Busy(t) /\ Busy(u) => t = u

Begins(q, r) == IsTurn(q) /\ q.home = r.home /\ q.base = r.base /\ q.live = r.live

LEMMA EndsBegins ==
  ASSUME NEW r, IsTurn(r), NEW how PROVE Begins(Ends(r, how), r)
  BY DEF Begins, Ends, IsTurn, Field

LEMMA AdvanceBegins ==
  ASSUME NEW r, IsTurn(r) PROVE Begins(Advance(r), r)
<1>1. ASSUME NEW pc PROVE Begins([r EXCEPT !.pc = pc], r) BY DEF Begins, IsTurn, Field
<1>2. Begins(BeginCall(r), r) BY <1>1, EndsBegins DEF BeginCall
<1> QED BY <1>1, <1>2, EndsBegins DEF Advance

LEMMA RowsBegin ==
  ASSUME NEW r, IsTurn(r), NEW rows, NEW todo, NEW steps
  PROVE  /\ Begins([r EXCEPT !.rows = rows, !.todo = todo], r)
         /\ Begins([r EXCEPT !.rows = rows, !.todo = todo, !.steps = steps], r)
<1>1. ASSUME NEW q, Begins(q, r), NEW v
      PROVE  /\ Begins([q EXCEPT !.rows = v], r) /\ Begins([q EXCEPT !.todo = v], r)
             /\ Begins([q EXCEPT !.steps = v], r)
  BY <1>1 DEF Begins, IsTurn, Field
<1> DEFINE a == [r EXCEPT !.rows = rows]
           b == [a EXCEPT !.todo = todo]
           c == [b EXCEPT !.steps = steps]
<1>2. Begins(r, r) BY DEF Begins
<1>3. Begins(a, r) BY <1>1, <1>2
<1>4. b = [r EXCEPT !.rows = rows, !.todo = todo] BY DEF IsTurn, Field
<1>5. c = [r EXCEPT !.rows = rows, !.todo = todo, !.steps = steps] BY DEF IsTurn, Field
<1> HIDE DEF a
<1>6. Begins(b, r) BY <1>1, <1>3
<1> HIDE DEF b
<1>7. Begins(c, r) BY <1>1, <1>6
<1> HIDE DEF c
<1> QED BY <1>4, <1>5, <1>6, <1>7

LEMMA LoopBegins ==
  ASSUME NEW r, IsTurn(r), NEW t, NEW kinds
  PROVE  Begins(Answered(r, t), r) /\ Begins(Heard(r, t, kinds), r)
<1>1. ASSUME NEW q, Begins(q, r), NEW how PROVE Begins(Advance(q), r) /\ Begins(Ends(q, how), r)
  BY <1>1, AdvanceBegins, EndsBegins DEF Begins
<1>2. Begins(Answered(r, t), r)
  <2> DEFINE q == [r EXCEPT !.rows = Append(r.rows, Row("tool", t, {Head(r.todo).id})),
                            !.todo = Tail(r.todo)]
  <2>1. Begins(q, r) BY RowsBegin
  <2>2. Answered(r, t) = Advance(q) BY DEF Answered
  <2> HIDE DEF q
  <2> QED BY <1>1, <2>1, <2>2
<1>3. Begins(Heard(r, t, kinds), r)
  <2> DEFINE ids == {asked + i : i \in DOMAIN kinds}
             q == [r EXCEPT !.rows = Append(r.rows, Row("assistant", t, ids)),
                            !.todo = [i \in DOMAIN kinds |-> [id |-> asked + i, kind |-> kinds[i]]],
                            !.steps = r.steps + 1]
  <2>1. Begins(q, r) BY RowsBegin
  <2>2. Heard(r, t, kinds) = IF kinds = <<>> THEN Ends(q, "done") ELSE Advance(q) BY DEF Heard
  <2> HIDE DEF q
  <2> QED BY <1>1, <2>1, <2>2
<1> QED BY <1>2, <1>3

(* A turn that returns leaves in the conversation shown what it said.      *)
LEMMA FollowSettles ==
  ASSUME Agreed, Settled, NEW t \in Turn, Busy(t), NEW r, Begins(r, turn[t]),
         NEW shown, NEW settled, Follow(t, r, shown, settled),
         UNCHANGED <<page, active, crossed>>
  PROVE  Settled'
<1>1. /\ DOMAIN turn = Turn /\ active \in Session
      /\ DOMAIN messages = Session /\ DOMAIN said = Session
  BY DEF Agreed, Shows, Settled
<1>2. DOMAIN messages' = Session /\ DOMAIN said' = Session BY <1>1 DEF Follow
<1>3. CASE crossed # {} BY <1>2, <1>3 DEF Settled
<1>4. CASE crossed = {}
  <2>1. /\ messages = said /\ AtHome(t) /\ \A u \in Turn : Busy(u) => u = t
    BY <1>4 DEF Settled
  <2>2. r.live /\ r.home = active /\ r.base = messages[active] BY <2>1 DEF Begins, AtHome
  <2>3. messages' = said'
    <3>1. CASE Returns(r)
      <4>1. messages' = [messages EXCEPT ![active] = messages[active] \o r.rows]
        BY <2>2, <3>1 DEF Follow
      <4>2. said' = [messages EXCEPT ![active] = messages[active] \o r.rows]
        BY <2>1, <2>2, <3>1 DEF Follow
      <4> QED BY <4>1, <4>2
    <3>2. CASE ~Returns(r) BY <2>1, <3>2 DEF Follow
    <3> QED BY <3>1, <3>2
  <2>4. \A u \in Turn : u # t => turn'[u] = turn[u] BY DEF Follow
  <2>5. \A u \in Turn : Busy(u)' => u = t BY <2>1, <2>4 DEF Busy
  <2>6. Busy(t)' => AtHome(t)'
    <3>1. CASE r.pc = "ended"
      <4>1. turn'[t] = Over(r) BY <1>1, <3>1 DEF Follow
      <4>2. Over(r).pc = "ended" BY DEF Over, Fresh
      <4> QED BY <4>1, <4>2 DEF Busy
    <3>2. CASE r.pc # "ended"
      <4>1. turn'[t] = r BY <1>1, <3>2 DEF Follow
      <4>2. messages' = messages BY <3>2 DEF Follow, Returns
      <4>3. sending' BY <2>1, <3>2 DEF Follow, StillSending, AtHome
      <4> QED BY <2>1, <2>2, <4>1, <4>2, <4>3 DEF AtHome
    <3> QED BY <3>1, <3>2
  <2> QED BY <1>2, <1>4, <2>3, <2>5, <2>6 DEF Settled
<1> QED BY <1>3, <1>4

(* A step that says nothing, and leaves the turns that are on where they   *)
(* are or counts them as left behind.                                      *)
LEMMA QuietSettles ==
  ASSUME Settled, UNCHANGED <<messages, said>>,
         crossed' = {} =>
           /\ crossed = {}
           /\ \/ \A t \in Turn : ~Busy(t)'
              \/ /\ UNCHANGED <<page, sending, active>>
                 /\ \A t \in Turn : Busy(t)' => /\ Busy(t) /\ turn'[t].live = turn[t].live
                                                /\ turn'[t].home = turn[t].home
                                                /\ turn'[t].base = turn[t].base
  PROVE  Settled'
<1>1. CASE crossed' # {} BY <1>1 DEF Settled
<1>2. CASE crossed' = {} /\ \A t \in Turn : ~Busy(t)' BY <1>2 DEF Settled
<1>3. CASE /\ crossed' = {} /\ UNCHANGED <<page, sending, active>>
           /\ \A t \in Turn : Busy(t)' => /\ Busy(t) /\ turn'[t].live = turn[t].live
                                          /\ turn'[t].home = turn[t].home
                                          /\ turn'[t].base = turn[t].base
  <2>1. \A t \in Turn : Busy(t)' => Busy(t) /\ AtHome(t)' BY <1>3 DEF Settled, AtHome
  <2> QED BY <1>3, <2>1 DEF Settled
<1> QED BY <1>1, <1>2, <1>3

LEMMA InitSettled == Init => Settled
  BY DEF Init, Settled, Busy, Fresh

LEMMA LoopSettles ==
  ASSUME Agreed, Settled, NEW t \in Turn,
         ModelReply(t) \/ ModelFails(t) \/ ToolReturns(t) \/ \E allowed \in BOOLEAN : Decide(t, allowed)
  PROVE  Settled'
<1>1. IsTurn(turn[t]) BY DEF Agreed, Consents
<1>2. Busy(t) BY DEF ModelReply, ModelFails, ToolReturns, Decide, Busy
<1>3. UNCHANGED <<page, active, crossed>> BY DEF ModelReply, ModelFails, ToolReturns, Decide
<1>4. \A kinds : Begins(Answered(turn[t], t), turn[t]) /\ Begins(Heard(turn[t], t, kinds), turn[t])
  BY <1>1, LoopBegins
<1>5. Begins(Ends(turn[t], "failed"), turn[t]) BY <1>1, EndsBegins
<1>6. Begins([turn[t] EXCEPT !.pc = "run"], turn[t]) BY <1>1 DEF Begins, IsTurn, Field
<1>7. \E r, shown, settled : Follow(t, r, shown, settled) /\ Begins(r, turn[t])
  <2>1. CASE ModelReply(t) BY <1>4, <2>1 DEF ModelReply
  <2>2. CASE ModelFails(t) BY <1>5, <2>2 DEF ModelFails
  <2>3. CASE ToolReturns(t) BY <1>4, <2>3 DEF ToolReturns
  <2>4. CASE \E allowed \in BOOLEAN : Decide(t, allowed) BY <1>4, <1>6, <2>4 DEF Decide
  <2> QED BY <2>1, <2>2, <2>3, <2>4
<1> QED BY <1>2, <1>3, <1>7, FollowSettles

LEMMA UserSettles ==
  ASSUME Agreed, Settled,
         \/ \E t \in Turn : SendMessage(t) \/ ReadBefore(t) \/ StopTurn(t)
         \/ \E s \in Session : NewSession(s) \/ SelectSession(s)
         \/ TickAuto \/ OpenWorkspace \/ LeavePage \/ EnterPage \/ Reload
  PROVE  Settled'
<1>1. DOMAIN turn = Turn /\ \A t \in Turn : IsTurn(turn[t]) BY DEF Agreed, Shows, Consents
<1>2. crossed = {} => \A t \in Turn : Busy(t) => Live(t) BY DEF Settled, AtHome, Live
<1>3. CASE \E t \in Turn : SendMessage(t)
  <2>1. PICK t \in Turn : SendMessage(t) BY <1>3
  <2> DEFINE q == [Fresh EXCEPT !.pc = "model", !.live = TRUE, !.auto = auto, !.home = active,
                                !.base = Context, !.rows = <<Row("user", t, {})>>]
  <2>2. turn' = [turn EXCEPT ![t] = q] /\ UNCHANGED <<page, active, messages, said, crossed>>
        /\ sending' = TRUE /\ page /\ ~sending
    BY <2>1 DEF SendMessage, CanSend
  <2>3. q.live = TRUE /\ q.home = active /\ q.base = messages[active] BY DEF Fresh, Context
  <2> HIDE DEF q
  <2>4. turn'[t] = q /\ \A u \in Turn \ {t} : turn'[u] = turn[u] BY <1>1, <2>2
  <2>5. CASE crossed = {}
    <3>1. \A u \in Turn : ~Busy(u) BY <2>2, <2>5 DEF Settled, AtHome
    <3>2. \A u \in Turn : Busy(u)' => u = t BY <2>4, <3>1 DEF Busy
    <3>3. AtHome(t)' BY <2>2, <2>3, <2>4 DEF AtHome
    <3> QED BY <2>2, <2>5, <3>2, <3>3 DEF Settled
  <2>6. CASE crossed # {} BY <2>2, <2>6 DEF Settled
  <2> QED BY <2>5, <2>6
<1>4. CASE \E t \in Turn : ReadBefore(t) \/ StopTurn(t)
  <2>1. PICK t \in Turn : ReadBefore(t) \/ StopTurn(t) BY <1>4
  <2>2. UNCHANGED <<page, sending, active, messages, said, crossed>> BY <2>1 DEF ReadBefore, StopTurn
  <2>3. \/ turn[t].pc = "before" /\ turn' = [turn EXCEPT ![t] = [turn[t] EXCEPT !.pc = "run"]]
        \/ Busy(t) /\ turn' = [turn EXCEPT ![t] = [turn[t] EXCEPT !.stop = TRUE]]
    BY <2>1 DEF ReadBefore, StopTurn, Live
  <2>4. Busy(t) BY <2>3 DEF Busy
  <2>5. /\ turn'[t].live = turn[t].live /\ turn'[t].home = turn[t].home
        /\ turn'[t].base = turn[t].base
    BY <1>1, <2>3 DEF IsTurn, Field
  <2>6. \A u \in Turn \ {t} : turn'[u] = turn[u] BY <1>1, <2>3
  <2>7. \A u \in Turn : Busy(u)' => /\ Busy(u) /\ turn'[u].live = turn[u].live
                                   /\ turn'[u].home = turn[u].home /\ turn'[u].base = turn[u].base
    BY <2>4, <2>5, <2>6 DEF Busy
  <2> QED BY <2>2, <2>7, QuietSettles
<1>5. CASE \E s \in Session : NewSession(s) \/ SelectSession(s)
  <2>1. /\ UNCHANGED <<turn, messages, said>>
        /\ crossed' = crossed \cup {t \in Turn : Live(t)}
    BY <1>5 DEF NewSession, SelectSession, Show
  <2>2. crossed' = {} => crossed = {} /\ \A t \in Turn : ~Busy(t)'
    BY <1>2, <2>1 DEF Busy
  <2> QED BY <2>1, <2>2, QuietSettles
<1>6. CASE TickAuto \/ OpenWorkspace
  <2>1. UNCHANGED <<page, sending, active, messages, said, crossed, turn>>
    BY <1>6 DEF TickAuto, OpenWorkspace
  <2> QED BY <2>1, QuietSettles DEF Busy
<1>7. CASE LeavePage
  <2>1. /\ turn' = [t \in Turn |-> [turn[t] EXCEPT !.live = FALSE]]
        /\ crossed' = crossed \cup {t \in Turn : Live(t)} /\ UNCHANGED <<messages, said>>
    BY <1>7 DEF LeavePage
  <2>2. \A t \in Turn : turn'[t].pc = turn[t].pc BY <1>1, <2>1 DEF IsTurn, Field
  <2>3. crossed' = {} => crossed = {} /\ \A t \in Turn : ~Busy(t)'
    BY <1>2, <2>1, <2>2 DEF Busy
  <2> QED BY <2>1, <2>3, QuietSettles
<1>8. CASE EnterPage
  <2>1. ~page /\ UNCHANGED <<turn, messages, said, crossed>> BY <1>8 DEF EnterPage
  <2>2. crossed' = {} => crossed = {} /\ \A t \in Turn : ~Busy(t)'
    BY <2>1 DEF Settled, AtHome, Busy
  <2> QED BY <2>1, <2>2, QuietSettles
<1>9. CASE Reload
  <2>1. /\ turn' = [t \in Turn |-> IF Busy(t) THEN Over(Ends(turn[t], "gone")) ELSE turn[t]]
        /\ crossed' = crossed \cup {t \in Turn : Live(t)} /\ UNCHANGED <<messages, said>>
    BY <1>9 DEF Reload
  <2>2. crossed' = {} => crossed = {} /\ \A t \in Turn : ~Busy(t)
    BY <1>2, <2>1
  <2>3. \A t \in Turn : ~Busy(t) => ~Busy(t)' BY <2>1 DEF Busy
  <2> QED BY <2>1, <2>2, <2>3, QuietSettles
<1> QED BY <1>3, <1>4, <1>5, <1>6, <1>7, <1>8, <1>9

LEMMA NextSettles == Agreed /\ Settled /\ [Next]_vars => Settled'
<1>1. ASSUME Agreed, Settled, Next PROVE Settled'
  BY <1>1, LoopSettles, UserSettles DEF Next, Loop
<1>2. ASSUME Settled, UNCHANGED vars PROVE Settled'
  BY <1>2 DEF vars, Settled, AtHome, Busy
<1> QED BY <1>1, <1>2

(* If no turn was on while the user changed the conversation or the page,  *)
(* each conversation holds exactly what its own turns said (handleSend).   *)
THEOREM ConversationsAreTheirTurns == Spec => []ConversationIsItsTurns
<1>1. Settled => ConversationIsItsTurns BY DEF Settled, ConversationIsItsTurns
<1> QED BY <1>1, InitAgreed, NextAgrees, InitSettled, NextSettles, PTL DEF Spec

----------------------------------------------------------------------------
(* What a conversation is sent to the model with.                          *)

RowType == [role : {"user", "assistant", "tool"}, turn : Turn, calls : SUBSET Nat]
CallType == [id : Nat, kind : Kind]

(* Rows answer the calls they make, but for those of the turns given.      *)
AnswerCalls(rows, but) ==
  \A row \in rows : row.role = "assistant" => \A id \in row.calls :
    \/ \E answer \in rows : answer.role = "tool" /\ answer.turn = row.turn /\ id \in answer.calls
    \/ row.turn \in but

(* A turn's own rows answer its calls, but for those yet to make: none     *)
(* while it asks the model, one at least amid a call.                      *)
OwnRows(t, r) ==
  \A row \in ToSet(r.rows) :
    /\ row.turn = t
    /\ row.role = "assistant" => \A id \in row.calls :
         \/ \E answer \in ToSet(r.rows) : answer.role = "tool" /\ id \in answer.calls
         \/ \E call \in ToSet(r.todo) : call.id = id

Accounts(t, r) ==
  /\ IsTurn(r)
  /\ r.base \in Seq(RowType) /\ r.rows \in Seq(RowType) /\ r.todo \in Seq(CallType)
  /\ OwnRows(t, r)
  /\ r.pc = "model" => r.todo = <<>>
  /\ InCall(r) => r.todo # <<>>
  /\ r.end = "user" => r.pc = "ended"

Stopped == {t \in Turn : turn[t].end = "user"}

Answering ==
  /\ messages \in [Session -> Seq(RowType)] /\ asked \in Nat
  /\ \A t \in Turn : Accounts(t, turn[t]) /\ AnswerCalls(ToSet(turn[t].base), Stopped)
  /\ \A s \in Session : AnswerCalls(Rows(s), Stopped)

(* A turn that returns has answered its calls, or was stopped.             *)
EndsWell(r) == Returns(r) => r.todo = <<>> \/ r.end = "user"

LEMMA ElementsOf ==
  ASSUME NEW S, NEW a \in Seq(S), NEW b \in Seq(S), NEW x \in S
  PROVE  /\ ToSet(a \o b) = ToSet(a) \cup ToSet(b)
         /\ ToSet(Append(a, x)) = ToSet(a) \cup {x}
         /\ a # <<>> => ToSet(a) = {Head(a)} \cup ToSet(Tail(a))
<1>1. ToSet(a \o b) = ToSet(a) \cup ToSet(b)
  <2>1. a \o b \in Seq(S) /\ Len(a \o b) = Len(a) + Len(b) /\ Len(a) \in Nat /\ Len(b) \in Nat
    OBVIOUS
  <2>2. \A i \in 1 .. Len(a) : (a \o b)[i] = a[i] /\ i \in 1 .. Len(a \o b) BY <2>1
  <2>3. \A i \in 1 .. Len(b) : (a \o b)[Len(a) + i] = b[i] /\ Len(a) + i \in 1 .. Len(a \o b)
    BY <2>1
  <2>4. \A i \in 1 .. Len(a \o b) : \/ i \in 1 .. Len(a)
                                    \/ i - Len(a) \in 1 .. Len(b) /\ i = Len(a) + (i - Len(a))
    BY <2>1
  <2>5. DOMAIN a = 1 .. Len(a) /\ DOMAIN b = 1 .. Len(b) /\ DOMAIN (a \o b) = 1 .. Len(a \o b)
    BY <2>1
  <2>6. ASSUME NEW e \in ToSet(a \o b) PROVE e \in ToSet(a) \cup ToSet(b)
    <3>1. PICK i \in 1 .. Len(a \o b) : e = (a \o b)[i] BY <2>5 DEF ToSet
    <3>2. CASE i \in 1 .. Len(a) BY <2>2, <2>5, <3>1, <3>2 DEF ToSet
    <3>3. CASE i - Len(a) \in 1 .. Len(b) /\ i = Len(a) + (i - Len(a))
      <4>1. (a \o b)[i] = b[i - Len(a)] BY <2>3, <3>3
      <4> QED BY <2>5, <3>1, <3>3, <4>1 DEF ToSet
    <3> QED BY <2>4, <3>2, <3>3
  <2>7. \A e \in ToSet(a) : e \in ToSet(a \o b) BY <2>2, <2>5 DEF ToSet
  <2>8. \A e \in ToSet(b) : e \in ToSet(a \o b) BY <2>3, <2>5 DEF ToSet
  <2> QED BY <2>6, <2>7, <2>8
<1>2. ToSet(Append(a, x)) = ToSet(a) \cup {x}
  <2>1. /\ DOMAIN Append(a, x) = 1 .. (Len(a) + 1) /\ Len(a) \in Nat /\ DOMAIN a = 1 .. Len(a)
        /\ \A i \in 1 .. Len(a) : Append(a, x)[i] = a[i]
        /\ Append(a, x)[Len(a) + 1] = x
    OBVIOUS
  <2> QED BY <2>1 DEF ToSet
<1>3. ASSUME a # <<>> PROVE ToSet(a) = {Head(a)} \cup ToSet(Tail(a))
  <2>1. /\ DOMAIN Tail(a) = 1 .. (Len(a) - 1) /\ Len(a) \in Nat \ {0} /\ DOMAIN a = 1 .. Len(a)
        /\ \A i \in 1 .. (Len(a) - 1) : Tail(a)[i] = a[i + 1]
        /\ Head(a) = a[1]
    BY <1>3
  <2>2. \A i \in 1 .. Len(a) : i = 1 \/ (i - 1 \in 1 .. (Len(a) - 1) /\ Tail(a)[i - 1] = a[i])
    BY <2>1
  <2>3. \A i \in 1 .. (Len(a) - 1) : i + 1 \in 1 .. Len(a) BY <2>1
  <2>4. 1 \in 1 .. Len(a) BY <2>1
  <2>5. ASSUME NEW e \in ToSet(a) PROVE e \in {Head(a)} \cup ToSet(Tail(a))
    <3>1. PICK i \in 1 .. Len(a) : e = a[i] BY <2>1 DEF ToSet
    <3>2. CASE i = 1 BY <2>1, <3>1, <3>2
    <3>3. CASE i - 1 \in 1 .. (Len(a) - 1) /\ Tail(a)[i - 1] = a[i]
      BY <2>1, <3>1, <3>3 DEF ToSet
    <3> QED BY <2>2, <3>2, <3>3
  <2>6. ASSUME NEW e \in ToSet(Tail(a)) PROVE e \in ToSet(a)
    <3>1. PICK i \in 1 .. (Len(a) - 1) : e = Tail(a)[i] BY <2>1 DEF ToSet
    <3> QED BY <2>1, <2>3, <3>1 DEF ToSet
  <2>7. Head(a) \in ToSet(a) BY <2>1, <2>4 DEF ToSet
  <2> QED BY <2>5, <2>6, <2>7
<1> QED BY <1>1, <1>2, <1>3

(* From one call of a reply to the next, or to the next round.             *)
LEMMA AdvanceKeeps ==
  ASSUME NEW r, IsTurn(r)
  PROVE  LET q == Advance(r) IN
         /\ IsTurn(q) /\ q.rows = r.rows /\ q.todo = r.todo /\ q.base = r.base
         /\ q.pc = "model" => q.todo = <<>>
         /\ InCall(q) => q.todo # <<>>
         /\ q.end = "user" => q.pc = "ended" \/ r.end = "user"
         /\ EndsWell(q)
<1>1. ASSUME NEW pc
      PROVE  LET q == [r EXCEPT !.pc = pc]
             IN /\ IsTurn(q) /\ q.pc = pc /\ q.rows = r.rows /\ q.todo = r.todo
                /\ q.base = r.base /\ q.end = r.end
  BY DEF IsTurn, Field
<1>2. ASSUME NEW how
      PROVE  LET q == Ends(r, how)
             IN /\ IsTurn(q) /\ q.pc = "ended" /\ q.rows = r.rows /\ q.todo = r.todo
                /\ q.base = r.base /\ q.end = how
  BY DEF Ends, IsTurn, Field
<1>3. Advance(r) = Ends(r, "user") \/ (r.todo = <<>> /\ Advance(r) = Ends(r, "max_steps"))
      \/ (r.todo = <<>> /\ Advance(r) = [r EXCEPT !.pc = "model"])
      \/ (r.todo # <<>> /\ Advance(r) = Ends(r, "failed"))
      \/ (r.todo # <<>> /\ \E pc \in {"approve", "before", "run"} : Advance(r) = [r EXCEPT !.pc = pc])
  BY DEF Advance, BeginCall
<1> DEFINE q == Advance(r)
<1>4. CASE q = Ends(r, "user") BY <1>2, <1>4 DEF InCall, EndsWell, Returns
<1>5. CASE r.todo = <<>> /\ q = Ends(r, "max_steps") BY <1>2, <1>5 DEF InCall, EndsWell, Returns
<1>6. CASE r.todo = <<>> /\ q = [r EXCEPT !.pc = "model"] BY <1>1, <1>6 DEF InCall, EndsWell, Returns
<1>7. CASE r.todo # <<>> /\ q = Ends(r, "failed") BY <1>2, <1>7 DEF InCall, EndsWell, Returns
<1>8. CASE r.todo # <<>> /\ \E pc \in {"approve", "before", "run"} : q = [r EXCEPT !.pc = pc]
  <2>1. PICK pc \in {"approve", "before", "run"} : q = [r EXCEPT !.pc = pc] BY <1>8
  <2> QED BY <1>1, <1>8, <2>1 DEF InCall, EndsWell, Returns
<1> QED BY <1>3, <1>4, <1>5, <1>6, <1>7, <1>8

(* Where a turn goes on from rows and calls that agree, it is accounted    *)
(* for.                                                                    *)
LEMMA AdvanceAccounts ==
  ASSUME NEW t, NEW q, IsTurn(q), q.base \in Seq(RowType), q.rows \in Seq(RowType),
         q.todo \in Seq(CallType), OwnRows(t, q), q.end # "user"
  PROVE  Accounts(t, Advance(q)) /\ EndsWell(Advance(q))
<1> DEFINE a == Advance(q)
<1>1. /\ IsTurn(a) /\ a.rows = q.rows /\ a.todo = q.todo /\ a.base = q.base
      /\ a.pc = "model" => a.todo = <<>>
      /\ InCall(a) => a.todo # <<>>
      /\ a.end = "user" => a.pc = "ended"
      /\ EndsWell(a)
  BY AdvanceKeeps
<1> HIDE DEF a
<1>2. OwnRows(t, a) BY <1>1 DEF OwnRows
<1>3. Accounts(t, a) /\ EndsWell(a) BY <1>1, <1>2 DEF Accounts
<1> QED BY <1>3 DEF a

LEMMA AnsweredAccounts ==
  ASSUME NEW t \in Turn, NEW r, Accounts(t, r), InCall(r)
  PROVE  Accounts(t, Answered(r, t)) /\ EndsWell(Answered(r, t))
<1> DEFINE row == Row("tool", t, {Head(r.todo).id})
           q == [r EXCEPT !.rows = Append(r.rows, row), !.todo = Tail(r.todo)]
<1>1. Answered(r, t) = Advance(q) BY DEF Answered
<1>2. r.todo \in Seq(CallType) /\ r.todo # <<>> /\ r.rows \in Seq(RowType) /\ r.end # "user"
  BY DEF Accounts, InCall
<1>3. Head(r.todo) \in CallType /\ Tail(r.todo) \in Seq(CallType) BY <1>2
<1>4. row \in RowType /\ row.role = "tool" /\ row.turn = t /\ row.calls = {Head(r.todo).id}
  BY <1>3 DEF Row, RowType, CallType
<1> HIDE DEF row
<1>5. /\ IsTurn(q) /\ q.base = r.base /\ q.rows = Append(r.rows, row) /\ q.todo = Tail(r.todo)
      /\ q.end = r.end
  BY DEF Accounts, IsTurn, Field
<1> HIDE DEF q
<1>6. ToSet(q.rows) = ToSet(r.rows) \cup {row} BY <1>2, <1>4, <1>5, ElementsOf
<1>7. ToSet(r.todo) = {Head(r.todo)} \cup ToSet(q.todo) BY <1>2, <1>3, <1>5, ElementsOf
<1>8. OwnRows(t, q)
  <2> SUFFICES ASSUME NEW x \in ToSet(q.rows)
               PROVE  /\ x.turn = t
                      /\ x.role = "assistant" => \A id \in x.calls :
                           \/ \E answer \in ToSet(q.rows) : answer.role = "tool" /\ id \in answer.calls
                           \/ \E call \in ToSet(q.todo) : call.id = id
    BY DEF OwnRows
  <2>1. CASE x = row BY <1>4, <2>1
  <2>2. CASE x \in ToSet(r.rows)
    <3>1. x.turn = t BY <2>2 DEF Accounts, OwnRows
    <3>2. ASSUME x.role = "assistant", NEW id \in x.calls
          PROVE  \/ \E answer \in ToSet(q.rows) : answer.role = "tool" /\ id \in answer.calls
                 \/ \E call \in ToSet(q.todo) : call.id = id
      <4>1. \/ \E answer \in ToSet(r.rows) : answer.role = "tool" /\ id \in answer.calls
            \/ \E call \in ToSet(r.todo) : call.id = id
        BY <2>2, <3>2 DEF Accounts, OwnRows
      <4>2. CASE \E answer \in ToSet(r.rows) : answer.role = "tool" /\ id \in answer.calls
        BY <1>6, <4>2
      <4>3. CASE \E call \in ToSet(r.todo) : call.id = id
        <5>1. PICK call \in ToSet(r.todo) : call.id = id BY <4>3
        <5>2. CASE call = Head(r.todo) BY <1>4, <1>6, <5>1, <5>2
        <5>3. CASE call \in ToSet(q.todo) BY <5>1, <5>3
        <5> QED BY <1>7, <5>2, <5>3
      <4> QED BY <4>1, <4>2, <4>3
    <3> QED BY <3>1, <3>2
  <2> QED BY <1>6, <2>1, <2>2
<1>9. q.base \in Seq(RowType) /\ q.rows \in Seq(RowType) /\ q.todo \in Seq(CallType)
  BY <1>2, <1>3, <1>4, <1>5 DEF Accounts
<1>10. q.end # "user" BY <1>2, <1>5
<1> QED BY <1>1, <1>5, <1>8, <1>9, <1>10, AdvanceAccounts

LEMMA HeardAccounts ==
  ASSUME NEW t \in Turn, NEW r, Accounts(t, r), r.pc = "model", asked \in Nat,
         NEW n \in Nat, NEW kinds \in [1 .. n -> Kind]
  PROVE  Accounts(t, Heard(r, t, kinds)) /\ EndsWell(Heard(r, t, kinds))
<1> DEFINE ids == {asked + i : i \in DOMAIN kinds}
           row == Row("assistant", t, ids)
           todo == [i \in DOMAIN kinds |-> [id |-> asked + i, kind |-> kinds[i]]]
           q == [r EXCEPT !.rows = Append(r.rows, row), !.todo = todo, !.steps = r.steps + 1]
<1>1. Heard(r, t, kinds) = IF kinds = <<>> THEN Ends(q, "done") ELSE Advance(q) BY DEF Heard
<1>2. r.todo = <<>> /\ r.rows \in Seq(RowType) /\ r.end # "user" BY DEF Accounts
<1>3. DOMAIN kinds = 1 .. n /\ \A i \in 1 .. n : kinds[i] \in Kind OBVIOUS
<1>4. ids \subseteq Nat BY <1>3
<1>5. /\ todo \in Seq(CallType) /\ DOMAIN todo = 1 .. n
      /\ \A i \in 1 .. n : todo[i].id = asked + i
  <2>1. \A i \in 1 .. n : [id |-> asked + i, kind |-> kinds[i]] \in CallType BY <1>3 DEF CallType
  <2>2. todo \in [1 .. n -> CallType] BY <1>3, <2>1
  <2>3. todo \in Seq(CallType) BY <2>2
  <2> QED BY <1>3, <2>3
<1>6. row \in RowType /\ row.role = "assistant" /\ row.turn = t /\ row.calls = ids
  BY <1>4 DEF Row, RowType
<1>7. \A id \in ids : \E call \in ToSet(todo) : call.id = id
  BY <1>3, <1>5 DEF ToSet
<1>8. kinds = <<>> => todo = <<>>
  <2>1. ASSUME kinds = <<>> PROVE todo = <<>>
    <3>1. DOMAIN kinds = {} BY <2>1
    <3>2. n = 0 BY <1>3, <3>1
    <3>3. Len(todo) = 0 BY <1>5, <3>2
    <3> HIDE DEF todo
    <3> QED BY <1>5, <3>3
  <2> QED BY <2>1
<1> HIDE DEF ids, row, todo
<1>9. /\ IsTurn(q) /\ q.base = r.base /\ q.rows = Append(r.rows, row) /\ q.todo = todo
      /\ q.end = r.end
  BY DEF Accounts, IsTurn, Field
<1> HIDE DEF q
<1>10. ToSet(q.rows) = ToSet(r.rows) \cup {row} BY <1>2, <1>6, <1>9, ElementsOf
<1>11. \A call \in ToSet(r.todo) : FALSE BY <1>2 DEF ToSet
<1>12. OwnRows(t, q)
  <2> SUFFICES ASSUME NEW x \in ToSet(q.rows)
               PROVE  /\ x.turn = t
                      /\ x.role = "assistant" => \A id \in x.calls :
                           \/ \E answer \in ToSet(q.rows) : answer.role = "tool" /\ id \in answer.calls
                           \/ \E call \in ToSet(q.todo) : call.id = id
    BY DEF OwnRows
  <2>1. CASE x = row BY <1>6, <1>7, <1>9, <2>1
  <2>2. CASE x \in ToSet(r.rows)
    BY <1>10, <1>11, <2>2 DEF Accounts, OwnRows
  <2> QED BY <1>10, <2>1, <2>2
<1>13. q.base \in Seq(RowType) /\ q.rows \in Seq(RowType) /\ q.todo \in Seq(CallType)
  BY <1>2, <1>5, <1>6, <1>9 DEF Accounts
<1>14. Accounts(t, Advance(q)) /\ EndsWell(Advance(q))
  BY <1>2, <1>9, <1>12, <1>13, AdvanceAccounts
<1>15. ASSUME kinds = <<>> PROVE Accounts(t, Ends(q, "done")) /\ EndsWell(Ends(q, "done"))
  <2> DEFINE e == Ends(q, "done")
  <2>1. /\ IsTurn(e) /\ e.pc = "ended" /\ e.end = "done" /\ e.rows = q.rows /\ e.todo = q.todo
        /\ e.base = q.base
    BY <1>9 DEF Ends, IsTurn, Field
  <2> HIDE DEF e
  <2>2. OwnRows(t, e) BY <1>12, <2>1 DEF OwnRows
  <2>3. Accounts(t, e) BY <1>13, <2>1, <2>2 DEF Accounts, InCall
  <2>4. EndsWell(e) BY <1>8, <1>9, <1>15, <2>1 DEF EndsWell
  <2> QED BY <2>3, <2>4 DEF e
<1> QED BY <1>1, <1>14, <1>15

LEMMA FailedAccounts ==
  ASSUME NEW t, NEW r, Accounts(t, r)
  PROVE  Accounts(t, Ends(r, "failed")) /\ EndsWell(Ends(r, "failed"))
<1> DEFINE e == Ends(r, "failed")
<1>1. /\ IsTurn(e) /\ e.pc = "ended" /\ e.end = "failed" /\ e.rows = r.rows /\ e.todo = r.todo
      /\ e.base = r.base
  BY DEF Ends, Accounts, IsTurn, Field
<1> HIDE DEF e
<1>2. OwnRows(t, e) BY <1>1 DEF OwnRows, Accounts
<1>3. Accounts(t, e) BY <1>1, <1>2 DEF Accounts, InCall
<1>4. EndsWell(e) BY <1>1 DEF EndsWell, Returns
<1> QED BY <1>3, <1>4 DEF e

(* A turn that is over is accounted for, whatever it was.                  *)
LEMMA EmptyAccounts ==
  ASSUME NEW t, NEW r, IsTurn(r), r.base = <<>>, r.rows = <<>>, r.todo = <<>>,
         ~InCall(r), r.end = "user" => r.pc = "ended"
  PROVE  Accounts(t, r) /\ \A but : AnswerCalls(ToSet(r.base), but)
<1>1. ToSet(r.rows) = {} /\ ToSet(r.base) = {} BY DEF ToSet
<1>2. r.base \in Seq(RowType) /\ r.rows \in Seq(RowType) /\ r.todo \in Seq(CallType)
  OBVIOUS
<1> QED BY <1>1, <1>2 DEF Accounts, OwnRows, AnswerCalls

----------------------------------------------------------------------------
(* A stop that has been made is one for good.                              *)
LEMMA StillAnswers ==
  ASSUME NEW rows, NEW but, NEW more, but \subseteq more, AnswerCalls(rows, but)
  PROVE  AnswerCalls(rows, more)
  BY DEF AnswerCalls

LEMMA InitAnswering == Init => Answering
<1> SUFFICES ASSUME Init PROVE Answering OBVIOUS
<1>1. messages \in [Session -> Seq(RowType)] /\ asked \in Nat BY DEF Init
<1>2. \A s \in Session : ToSet(messages[s]) = {} BY DEF Init, ToSet
<1>3. \A s \in Session : AnswerCalls(Rows(s), Stopped) BY <1>2 DEF AnswerCalls, Rows
<1>4. \A t \in Turn : turn[t] = Fresh BY DEF Init
<1>5. /\ IsTurn(Fresh) /\ Fresh.base = <<>> /\ Fresh.rows = <<>> /\ Fresh.todo = <<>>
      /\ ~InCall(Fresh) /\ Fresh.end = "none"
  BY DEF Fresh, IsTurn, Field, InCall
<1>6. \A t \in Turn : Accounts(t, Fresh) /\ AnswerCalls(ToSet(Fresh.base), Stopped)
  BY <1>5, EmptyAccounts
<1> QED BY <1>1, <1>3, <1>4, <1>6 DEF Answering

(* What a turn leaves in the conversation shown answers its calls, or it   *)
(* was stopped.                                                            *)
LEMMA FollowAnswers ==
  ASSUME Agreed, Answering, NEW t \in Turn, Busy(t),
         NEW r, Accounts(t, r), EndsWell(r), r.base = turn[t].base,
         NEW shown, NEW settled, Follow(t, r, shown, settled), asked' \in Nat
  PROVE  Answering'
<1> DEFINE next == IF r.pc = "ended" THEN Over(r) ELSE r
<1>1. DOMAIN turn = Turn /\ active \in Session BY DEF Agreed, Shows
<1>2. DOMAIN turn' = Turn /\ turn'[t] = next /\ \A u \in Turn \ {t} : turn'[u] = turn[u]
  BY <1>1 DEF Follow
<1>3. next.end = r.end BY DEF Over, Fresh
<1>4. t \notin Stopped BY DEF Answering, Accounts, Stopped, Busy
<1>5. Stopped \subseteq Stopped' BY <1>2, <1>4 DEF Stopped
<1>6. r.end = "user" => t \in Stopped' BY <1>2, <1>3 DEF Stopped
<1>7. AnswerCalls(ToSet(r.base), Stopped') BY <1>5, StillAnswers DEF Answering
<1>8. Accounts(t, next) /\ AnswerCalls(ToSet(next.base), Stopped')
  <2>1. CASE r.pc = "ended"
    <3> DEFINE o == Over(r)
    <3>1. /\ IsTurn(o) /\ o.base = <<>> /\ o.rows = <<>> /\ o.todo = <<>>
          /\ ~InCall(o) /\ o.pc = "ended"
      BY DEF Over, Fresh, IsTurn, Field, InCall
    <3> HIDE DEF o
    <3>2. Accounts(t, o) /\ AnswerCalls(ToSet(o.base), Stopped') BY <3>1, EmptyAccounts
    <3> QED BY <2>1, <3>2 DEF o
  <2>2. CASE r.pc # "ended" BY <1>7, <2>2
  <2> QED BY <2>1, <2>2
<1> HIDE DEF next
<1>9. \A u \in Turn : Accounts(u, turn'[u]) /\ AnswerCalls(ToSet(turn'[u].base), Stopped')
  <2>1. \A u \in Turn \ {t} : Accounts(u, turn[u]) /\ AnswerCalls(ToSet(turn[u].base), Stopped)
    BY DEF Answering
  <2>2. \A u \in Turn \ {t} : AnswerCalls(ToSet(turn[u].base), Stopped')
    BY <1>5, <2>1, StillAnswers
  <2> QED BY <1>2, <1>8, <2>1, <2>2
<1>10. r.base \in Seq(RowType) /\ r.rows \in Seq(RowType) BY DEF Accounts
<1>11. CASE Returns(r) /\ r.live
  <2> DEFINE all == r.base \o r.rows
  <2>1. messages' = [messages EXCEPT ![active] = all] BY <1>11 DEF Follow
  <2>2. all \in Seq(RowType) /\ ToSet(all) = ToSet(r.base) \cup ToSet(r.rows)
    <3>1. RowType # {}
      <4>1. Row("user", t, {}) \in RowType BY DEF Row, RowType
      <4> QED BY <4>1
    <3> QED BY <1>10, <3>1, ElementsOf
  <2> HIDE DEF all
  <2>3. AnswerCalls(ToSet(r.rows), Stopped')
    <3>1. r.todo = <<>> \/ t \in Stopped' BY <1>6, <1>11 DEF EndsWell
    <3>2. r.todo = <<>> => ToSet(r.todo) = {} BY DEF ToSet
    <3>3. OwnRows(t, r) BY DEF Accounts
    <3> QED BY <3>1, <3>2, <3>3 DEF OwnRows, AnswerCalls
  <2>4. AnswerCalls(ToSet(all), Stopped')
    <3> DEFINE b == ToSet(r.base)
               o == ToSet(r.rows)
    <3>1. ToSet(all) = b \cup o /\ AnswerCalls(b, Stopped') /\ AnswerCalls(o, Stopped')
      BY <1>7, <2>2, <2>3
    <3> HIDE DEF b, o
    <3> QED BY <3>1 DEF AnswerCalls
  <2>5. messages' \in [Session -> Seq(RowType)] BY <1>1, <2>1, <2>2 DEF Answering
  <2>6. ASSUME NEW s \in Session PROVE AnswerCalls(Rows(s)', Stopped')
    <3>1. CASE s = active
      <4>1. messages'[s] = all BY <1>1, <2>1, <3>1 DEF Answering
      <4> QED BY <2>4, <4>1 DEF Rows
    <3>2. CASE s # active
      <4>1. messages'[s] = messages[s] BY <2>1, <3>2 DEF Answering
      <4>2. AnswerCalls(Rows(s), Stopped') BY <1>5, StillAnswers DEF Answering
      <4> QED BY <4>1, <4>2 DEF Rows
    <3> QED BY <3>1, <3>2
  <2> QED BY <1>9, <2>5, <2>6 DEF Answering
<1>12. CASE ~(Returns(r) /\ r.live)
  <2>1. messages' = messages BY <1>12 DEF Follow
  <2>2. \A s \in Session : AnswerCalls(Rows(s), Stopped') BY <1>5, StillAnswers DEF Answering
  <2> QED BY <1>9, <2>1, <2>2 DEF Answering, Rows
<1> QED BY <1>11, <1>12

(* A step that says nothing, and leaves what turns have said and must do.  *)
LEMMA QuietAnswers ==
  ASSUME Answering, UNCHANGED <<messages, asked>>, DOMAIN turn' = Turn,
         \A t \in Turn :
           \/ /\ Accounts(t, turn'[t]) /\ turn'[t].base = turn[t].base
              /\ turn[t].end = "user" => turn'[t].end = "user"
           \/ /\ Accounts(t, turn'[t]) /\ turn[t].end # "user"
              /\ \A but : AnswerCalls(ToSet(turn'[t].base), but)
           \/ /\ Accounts(t, turn'[t]) /\ turn[t].end # "user"
              /\ \E s \in Session : turn'[t].base = messages[s]
  PROVE  Answering'
<1>1. Stopped \subseteq Stopped' BY DEF Stopped
<1>2. \A s \in Session : AnswerCalls(Rows(s), Stopped') BY <1>1, StillAnswers DEF Answering
<1>3. \A t \in Turn : AnswerCalls(ToSet(turn[t].base), Stopped')
  BY <1>1, StillAnswers DEF Answering
<1>4. \A t \in Turn : Accounts(t, turn'[t]) /\ AnswerCalls(ToSet(turn'[t].base), Stopped')
  BY <1>2, <1>3 DEF Rows
<1> QED BY <1>2, <1>4 DEF Answering, Rows

LEMMA LoopAnswers ==
  ASSUME Agreed, Answering, NEW t \in Turn,
         ModelReply(t) \/ ModelFails(t) \/ ToolReturns(t) \/ \E allowed \in BOOLEAN : Decide(t, allowed)
  PROVE  Answering'
<1>1. Busy(t) BY DEF ModelReply, ModelFails, ToolReturns, Decide, Busy
<1>2. Accounts(t, turn[t]) /\ asked \in Nat BY DEF Answering
<1>3. IsTurn(turn[t]) BY <1>2 DEF Accounts
<1>4. \A kinds : /\ Answered(turn[t], t).base = turn[t].base
                 /\ Heard(turn[t], t, kinds).base = turn[t].base
  BY <1>3, LoopBegins DEF Begins
<1>5. CASE ModelReply(t)
  <2>1. PICK kinds \in Replies(MaxCalls - asked) :
          Follow(t, Heard(turn[t], t, kinds), {}, {}) /\ asked' = asked + Len(kinds)
    BY <1>5 DEF ModelReply
  <2>2. PICK n \in 0 .. (MaxCalls - asked) : kinds \in [1 .. n -> Kind] BY <2>1 DEF Replies
  <2>3. n \in Nat OBVIOUS
  <2>4. Len(kinds) = n BY <2>2, <2>3
  <2>5. asked' \in Nat BY <1>2, <2>1, <2>3, <2>4
  <2>6. turn[t].pc = "model" BY <1>5 DEF ModelReply
  <2> DEFINE r == Heard(turn[t], t, kinds)
  <2>7. Accounts(t, r) /\ EndsWell(r) BY <1>2, <2>2, <2>3, <2>6, HeardAccounts
  <2>8. Follow(t, r, {}, {}) /\ r.base = turn[t].base BY <1>4, <2>1
  <2> HIDE DEF r
  <2> QED BY <1>1, <2>5, <2>7, <2>8, FollowAnswers
<1>6. CASE ModelFails(t)
  <2> DEFINE r == Ends(turn[t], "failed")
  <2>1. Accounts(t, r) /\ EndsWell(r) BY <1>2, FailedAccounts
  <2>2. r.base = turn[t].base BY <1>3, EndsBegins DEF Begins
  <2>3. Follow(t, r, {}, {}) /\ asked' \in Nat BY <1>2, <1>6 DEF ModelFails
  <2> HIDE DEF r
  <2> QED BY <1>1, <2>1, <2>2, <2>3, FollowAnswers
<1>7. CASE ToolReturns(t) \/ Decide(t, FALSE)
  <2> DEFINE r == Answered(turn[t], t)
  <2>1. InCall(turn[t]) BY <1>7 DEF ToolReturns, Decide, InCall
  <2>2. Accounts(t, r) /\ EndsWell(r) BY <1>2, <2>1, AnsweredAccounts
  <2>3. r.base = turn[t].base BY <1>4
  <2>4. (\E shown, settled : Follow(t, r, shown, settled)) /\ asked' \in Nat
    BY <1>2, <1>7 DEF ToolReturns, Decide
  <2> HIDE DEF r
  <2> QED BY <1>1, <2>2, <2>3, <2>4, FollowAnswers
<1>8. CASE Decide(t, TRUE)
  <2> DEFINE r == [turn[t] EXCEPT !.pc = "run"]
  <2>1. InCall(turn[t]) BY <1>8 DEF Decide, InCall
  <2>2. /\ IsTurn(r) /\ r.pc = "run" /\ r.end = turn[t].end /\ r.rows = turn[t].rows
        /\ r.todo = turn[t].todo /\ r.base = turn[t].base
    BY <1>3 DEF IsTurn, Field
  <2>3. (\E shown, settled : Follow(t, r, shown, settled)) /\ asked' \in Nat
    BY <1>2, <1>8 DEF Decide
  <2> HIDE DEF r
  <2>4. OwnRows(t, r) BY <1>2, <2>2 DEF Accounts, OwnRows
  <2>5. r.end # "user" BY <1>2, <2>1, <2>2 DEF Accounts, InCall
  <2>6. Accounts(t, r) BY <1>2, <2>1, <2>2, <2>4, <2>5 DEF Accounts
  <2>7. EndsWell(r) BY <2>2 DEF EndsWell, Returns
  <2> QED BY <1>1, <2>2, <2>3, <2>6, <2>7, FollowAnswers
<1> QED BY <1>5, <1>6, <1>7, <1>8

LEMMA UserAnswers ==
  ASSUME Agreed, Answering,
         \/ \E t \in Turn : SendMessage(t) \/ ReadBefore(t) \/ StopTurn(t)
         \/ \E s \in Session : NewSession(s) \/ SelectSession(s)
         \/ TickAuto \/ OpenWorkspace \/ LeavePage \/ EnterPage \/ Reload
  PROVE  Answering'
<1>1. DOMAIN turn = Turn /\ active \in Session BY DEF Agreed, Shows
<1>2. \A t \in Turn : Accounts(t, turn[t]) /\ IsTurn(turn[t]) BY DEF Answering, Accounts
<1>3. CASE \E t \in Turn : SendMessage(t)
  <2>1. PICK t \in Turn : SendMessage(t) BY <1>3
  <2> DEFINE row == Row("user", t, {})
             q == [Fresh EXCEPT !.pc = "model", !.live = TRUE, !.auto = auto, !.home = active,
                                !.base = messages[active], !.rows = <<row>>]
  <2>2. turn' = [turn EXCEPT ![t] = q] /\ UNCHANGED <<messages, asked>> /\ turn[t] = Fresh
    BY <2>1 DEF SendMessage, Context
  <2>3. row \in RowType /\ row.role = "user" /\ row.turn = t BY DEF Row, RowType
  <2> HIDE DEF row
  <2>4. /\ IsTurn(q) /\ q.pc = "model" /\ q.base = messages[active] /\ q.rows = <<row>>
        /\ q.todo = <<>> /\ q.end = "none"
    BY DEF IsTurn, Field, Fresh
  <2> HIDE DEF q
  <2>5. q.rows \in Seq(RowType) /\ ToSet(q.rows) = {row} BY <2>3, <2>4 DEF ToSet
  <2>6. OwnRows(t, q) BY <2>3, <2>5 DEF OwnRows
  <2>7. q.base \in Seq(RowType) BY <1>1, <2>4 DEF Answering
  <2>8. q.todo \in Seq(CallType) BY <2>4
  <2>9. Accounts(t, q) BY <2>4, <2>5, <2>6, <2>7, <2>8 DEF Accounts, InCall
  <2>10. turn[t].end # "user" BY <2>2 DEF Fresh
  <2>11. DOMAIN turn' = Turn /\ turn'[t] = q /\ \A u \in Turn \ {t} : turn'[u] = turn[u]
    BY <1>1, <2>2
  <2> QED BY <1>1, <1>2, <2>2, <2>4, <2>9, <2>10, <2>11, QuietAnswers
<1>4. CASE \E t \in Turn : ReadBefore(t) \/ StopTurn(t)
  <2>1. PICK t \in Turn : ReadBefore(t) \/ StopTurn(t) BY <1>4
  <2>2. UNCHANGED <<messages, asked>> BY <2>1 DEF ReadBefore, StopTurn
  <2>3. \/ turn[t].pc = "before" /\ turn' = [turn EXCEPT ![t] = [turn[t] EXCEPT !.pc = "run"]]
        \/ turn' = [turn EXCEPT ![t] = [turn[t] EXCEPT !.stop = TRUE]]
    BY <2>1 DEF ReadBefore, StopTurn
  <2> DEFINE q == turn'[t]
  <2>4. /\ IsTurn(q) /\ q.end = turn[t].end /\ q.rows = turn[t].rows
        /\ q.todo = turn[t].todo /\ q.base = turn[t].base
        /\ \/ q.pc = turn[t].pc
           \/ turn[t].pc = "before" /\ q.pc = "run"
    BY <1>1, <1>2, <2>3 DEF IsTurn, Field
  <2> HIDE DEF q
  <2>5. OwnRows(t, q) BY <1>2, <2>4 DEF Accounts, OwnRows
  <2>6. Accounts(t, q) BY <1>2, <2>4, <2>5 DEF Accounts, InCall
  <2>7. DOMAIN turn' = Turn /\ \A u \in Turn \ {t} : turn'[u] = turn[u] BY <1>1, <2>3
  <2>8. Accounts(t, turn'[t]) /\ turn'[t].base = turn[t].base /\ turn'[t].end = turn[t].end
    BY <2>4, <2>6 DEF q
  <2> QED BY <1>2, <2>2, <2>7, <2>8, QuietAnswers
<1>5. CASE \/ \E s \in Session : NewSession(s) \/ SelectSession(s)
           \/ TickAuto \/ OpenWorkspace \/ EnterPage
  <2>1. UNCHANGED <<turn, messages, asked>>
    BY <1>5 DEF NewSession, SelectSession, TickAuto, OpenWorkspace, EnterPage
  <2> QED BY <1>1, <1>2, <2>1, QuietAnswers
<1>6. CASE LeavePage
  <2>1. /\ turn' = [t \in Turn |-> [turn[t] EXCEPT !.live = FALSE]] /\ UNCHANGED <<messages, asked>>
    BY <1>6 DEF LeavePage
  <2>2. ASSUME NEW t \in Turn
        PROVE  Accounts(t, turn'[t]) /\ turn'[t].base = turn[t].base /\ turn'[t].end = turn[t].end
    <3> DEFINE q == turn'[t]
    <3>1. /\ IsTurn(q) /\ q.end = turn[t].end /\ q.rows = turn[t].rows
          /\ q.todo = turn[t].todo /\ q.base = turn[t].base /\ q.pc = turn[t].pc
      BY <1>2, <2>1 DEF IsTurn, Field
    <3> HIDE DEF q
    <3>2. OwnRows(t, q) BY <1>2, <3>1 DEF Accounts, OwnRows
    <3>3. Accounts(t, q) BY <1>2, <3>1, <3>2 DEF Accounts, InCall
    <3> QED BY <3>1, <3>3 DEF q
  <2> QED BY <2>1, <2>2, QuietAnswers
<1>7. CASE Reload
  <2>1. /\ turn' = [t \in Turn |-> IF Busy(t) THEN Over(Ends(turn[t], "gone")) ELSE turn[t]]
        /\ UNCHANGED <<messages, asked>>
    BY <1>7 DEF Reload
  <2>2. DOMAIN turn' = Turn BY <2>1
  <2>3. ASSUME NEW t \in Turn, Busy(t)
        PROVE  /\ Accounts(t, turn'[t]) /\ turn[t].end # "user"
               /\ \A but : AnswerCalls(ToSet(turn'[t].base), but)
    <3> DEFINE o == Over(Ends(turn[t], "gone"))
    <3>1. /\ IsTurn(o) /\ o.base = <<>> /\ o.rows = <<>> /\ o.todo = <<>>
          /\ ~InCall(o) /\ o.pc = "ended"
      BY DEF Over, Fresh, IsTurn, Field, InCall
    <3> HIDE DEF o
    <3>2. Accounts(t, o) /\ \A but : AnswerCalls(ToSet(o.base), but) BY <3>1, EmptyAccounts
    <3>3. turn'[t] = o BY <2>1, <2>3 DEF o
    <3>4. turn[t].end # "user" BY <1>2, <2>3 DEF Accounts, Busy
    <3> QED BY <3>2, <3>3, <3>4
  <2>4. \A t \in Turn : ~Busy(t) => turn'[t] = turn[t] BY <2>1
  <2> QED BY <1>2, <2>1, <2>2, <2>3, <2>4, QuietAnswers
<1> QED BY <1>3, <1>4, <1>5, <1>6, <1>7

LEMMA NextAnswers == Agreed /\ Answering /\ [Next]_vars => Answering'
<1>1. ASSUME Agreed, Answering, Next PROVE Answering'
  BY <1>1, LoopAnswers, UserAnswers DEF Next, Loop
<1>2. ASSUME Answering, UNCHANGED vars PROVE Answering'
  BY <1>2 DEF vars, Answering, Accounts, OwnRows, AnswerCalls, Stopped, Rows
<1> QED BY <1>1, <1>2

(* What a later turn sends to the model answers every call in it, except   *)
(* of turns the user stopped (runDesktopAgentTurn, handleSend): whatever   *)
(* conversations and pages were changed meanwhile, for any number of turns *)
(* and calls.                                                              *)
THEOREM CallsAreAnswered == Spec => []UnansweredOnlyIfStopped
<1>1. Answering => UnansweredOnlyIfStopped
  BY DEF Answering, UnansweredOnlyIfStopped, AnswerCalls, Stopped, Accounts, Rows
<1> QED BY <1>1, InitAgreed, NextAgrees, InitAnswering, NextAnswers, PTL DEF Spec

=============================================================================
