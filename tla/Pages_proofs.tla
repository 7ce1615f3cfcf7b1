---------------------------- MODULE Pages_proofs ----------------------------
(***************************************************************************)
(* Theorems about the pages that are composed with the interface alone:    *)
(* first the catalog's (Spec), then the task console (ConsoleSpec).  The   *)
(* two have nothing in common but what ApiCalls says of their requests.    *)
(*                                                                         *)
(* The catalog, for any number of users, items and requests: saving a form *)
(* changes only what was touched in it, and a page with nothing on its way *)
(* shows what there is.  Every list, form and save that is anywhere shows  *)
(* an item as it was at some version of it, so what is at the item's own   *)
(* version is the item; a page that shows something else than there is has *)
(* something on its way that brings the list, or a stale answer that       *)
(* crossed a change.                                                       *)
(*                                                                         *)
(* The console, for any number of tasks, machines and requests: a task is  *)
(* announced once for each submission, and once more for each further poll *)
(* of one effect that hears its end before the effect is cleaned up; it    *)
(* never comes back over its successor.  Polls that are still heard belong *)
(* to the effect that runs, and a task becomes active once, before it was  *)
(* ever announced.                                                         *)
(***************************************************************************)
EXTENDS Catalog, TaskConsole, ApiCalls_proofs, FiniteSetTheorems

Fields == {"open", "id", "program", "market", "enabled", "approval", "all", "seen", "touched"}

(* The items as they are, how many there ever were, and the page's boxes.  *)
Shop == [items |-> items, top |-> created, boxes |-> PageBoxes]

SoundShop(k) ==
  /\ k.top \in Nat
  /\ \A x \in DOMAIN k.items : x \in 1 .. k.top /\ "ver" \in DOMAIN k.items[x] /\ k.items[x].ver \in Nat

(* Version v of item x was seen; it is still the one there is.             *)
Seen(k, x, v) ==
  /\ x \in 1 .. k.top /\ v \in Nat
  /\ x \in DOMAIN k.items => v <= k.items[x].ver

Fresh(k, x, v) == x \in DOMAIN k.items /\ k.items[x].ver = v

(* A list shows each item as it was at its version.                        *)
GoodList(k, e) ==
  \A x \in DOMAIN e : Seen(k, x, e[x].ver) /\ (Fresh(k, x, e[x].ver) => e[x] = k.items[x])

(* A form is that of a new item, or of one of which it has what it saw,    *)
(* but for the boxes that were touched.                                    *)
GoodForm(k, f) ==
  /\ DOMAIN f = Fields
  /\ f.id # NoItem =>
       /\ f.program = f.id /\ Seen(k, f.id, f.seen)
       /\ Fresh(k, f.id, f.seen) => \A b \in k.boxes \ f.touched : f[b] = k.items[f.id][b]
  /\ f.market /\ "approval" \notin f.touched => f.approval

GoodCall(k, c) ==
  /\ c.op \in {"create", "update"} => GoodForm(k, c.arg[2]) /\ c.arg[1] = c.arg[2].id
  /\ c.op = "update" => c.arg[1] # NoItem
  /\ c.op = "list" /\ c.ok => GoodList(k, c.body)

GoodCalls(k, s) == IsSeq(s) /\ \A j \in DOMAIN s : IsRequest(s[j]) /\ GoodCall(k, s[j])

(* The inductive invariant.                                                *)
FormInv ==
  /\ SoundShop(Shop) /\ GoodForm(Shop, form) /\ GoodList(Shop, list) /\ GoodCalls(Shop, calls)

----------------------------------------------------------------------------
(* The items change.                                                       *)

(* What was seen stays seen, and what is still fresh has not changed.      *)
Later(k, n) ==
  /\ SoundShop(n) /\ n.boxes = k.boxes
  /\ \A x, v : Seen(k, x, v) =>
       Seen(n, x, v) /\ (Fresh(n, x, v) => Fresh(k, x, v) /\ n.items[x] = k.items[x])

LEMMA LaterForm ==
  ASSUME NEW k, NEW n, Later(k, n), NEW f, GoodForm(k, f) PROVE GoodForm(n, f)
<1>1. CASE f.id = NoItem BY <1>1 DEF GoodForm
<1>2. CASE f.id # NoItem
  <2>1. /\ Seen(k, f.id, f.seen) /\ f.program = f.id
        /\ Fresh(k, f.id, f.seen) => \A b \in k.boxes \ f.touched : f[b] = k.items[f.id][b]
    BY <1>2 DEF GoodForm
  <2>2. /\ Seen(n, f.id, f.seen) /\ n.boxes = k.boxes
        /\ Fresh(n, f.id, f.seen) => Fresh(k, f.id, f.seen) /\ n.items[f.id] = k.items[f.id]
    BY <2>1 DEF Later
  <2>3. Fresh(n, f.id, f.seen) => \A b \in n.boxes \ f.touched : f[b] = n.items[f.id][b]
    BY <2>1, <2>2
  <2>4. DOMAIN f = Fields /\ (f.market /\ "approval" \notin f.touched => f.approval) BY DEF GoodForm
  <2> QED BY <2>1, <2>2, <2>3, <2>4 DEF GoodForm
<1> QED BY <1>1, <1>2

LEMMA LaterList ==
  ASSUME NEW k, NEW n, Later(k, n), NEW e, GoodList(k, e) PROVE GoodList(n, e)
<1> SUFFICES ASSUME NEW x \in DOMAIN e
             PROVE  Seen(n, x, e[x].ver) /\ (Fresh(n, x, e[x].ver) => e[x] = n.items[x])
  BY DEF GoodList
<1>1. Seen(k, x, e[x].ver) /\ (Fresh(k, x, e[x].ver) => e[x] = k.items[x]) BY DEF GoodList
<1>2. /\ Seen(n, x, e[x].ver)
      /\ Fresh(n, x, e[x].ver) => Fresh(k, x, e[x].ver) /\ n.items[x] = k.items[x]
  BY <1>1 DEF Later
<1> QED BY <1>1, <1>2

LEMMA LaterCalls ==
  ASSUME NEW k, NEW n, Later(k, n), NEW s, GoodCalls(k, s) PROVE GoodCalls(n, s)
<1> SUFFICES ASSUME NEW j \in DOMAIN s PROVE GoodCall(n, s[j]) BY DEF GoodCalls
<1>1. GoodCall(k, s[j]) BY DEF GoodCalls
<1>2. GoodForm(k, s[j].arg[2]) => GoodForm(n, s[j].arg[2]) BY LaterForm
<1>3. GoodList(k, s[j].body) => GoodList(n, s[j].body) BY LaterList
<1> QED BY <1>1, <1>2, <1>3 DEF GoodCall

LEMMA SameShop == SoundShop(Shop) /\ UNCHANGED <<page, items, created>> => Shop' = Shop /\ Later(Shop, Shop')
<1> SUFFICES ASSUME SoundShop(Shop), UNCHANGED <<page, items, created>>
             PROVE  Shop' = Shop /\ Later(Shop, Shop')
  OBVIOUS
<1>1. Shop' = Shop BY DEF Shop, PageBoxes
<1> QED BY <1>1 DEF Later

LEMMA ShopAdds ==
  ASSUME SoundShop(Shop), page' = page, NEW e, "ver" \in DOMAIN e, e.ver \in Nat, Adds(e)
  PROVE  Later(Shop, Shop')
<1> DEFINE k == Shop
           n == Shop'
<1>1. /\ k.items = items /\ k.top = created /\ n.items = items' /\ n.top = created' /\ n.boxes = k.boxes
  BY DEF Shop, PageBoxes
<1>2. created \in Nat /\ created' = created + 1 /\ created + 1 \in Nat BY <1>1 DEF SoundShop, Adds
<1>3. \A x \in DOMAIN items : x \in 1 .. created /\ "ver" \in DOMAIN items[x] /\ items[x].ver \in Nat
  BY <1>1 DEF SoundShop
<1>4. /\ DOMAIN items' = DOMAIN items \cup {created'}
      /\ \A x \in DOMAIN items' : items'[x] = IF x \in DOMAIN items THEN items[x] ELSE e
  BY DEF Adds
<1>5. 1 .. created \subseteq 1 .. created' /\ created' \in 1 .. created' /\ created' \notin 1 .. created
  BY <1>2
<1> HIDE DEF k, n
<1>6. SoundShop(n)
  <2>1. ASSUME NEW x \in DOMAIN items'
        PROVE  x \in 1 .. created' /\ "ver" \in DOMAIN items'[x] /\ items'[x].ver \in Nat
    BY <1>3, <1>4, <1>5
  <2> QED BY <1>1, <1>2, <2>1 DEF SoundShop
<1>7. ASSUME NEW x, NEW v, Seen(k, x, v)
      PROVE  Seen(n, x, v) /\ (Fresh(n, x, v) => Fresh(k, x, v) /\ n.items[x] = k.items[x])
  <2>1. x \in 1 .. created /\ v \in Nat BY <1>1, <1>7 DEF Seen
  <2>2. x # created' /\ x \in 1 .. created' BY <1>5, <2>1
  <2>3. x \in DOMAIN items' => x \in DOMAIN items /\ items'[x] = items[x] BY <1>4, <2>2
  <2> QED BY <1>1, <1>7, <2>1, <2>2, <2>3 DEF Seen, Fresh
<1> QED BY <1>1, <1>6, <1>7 DEF Later, k, n

LEMMA ShopChanges ==
  ASSUME SoundShop(Shop), page' = page, NEW y \in DOMAIN items, NEW e, "ver" \in DOMAIN e, Changes(y, e)
  PROVE  Later(Shop, Shop')
<1> DEFINE k == Shop
           n == Shop'
<1>1. /\ k.items = items /\ k.top = created /\ n.items = items' /\ n.top = created' /\ n.boxes = k.boxes
  BY DEF Shop, PageBoxes
<1>2. created \in Nat /\ created' = created BY <1>1 DEF SoundShop, Changes
<1>3. \A x \in DOMAIN items : x \in 1 .. created /\ "ver" \in DOMAIN items[x] /\ items[x].ver \in Nat
  BY <1>1 DEF SoundShop
<1> DEFINE m == items[y].ver + 1
           f == [e EXCEPT !.ver = m]
<1>4. "ver" \in DOMAIN f /\ f.ver = m OBVIOUS
<1>5. items' = [items EXCEPT ![y] = f] BY DEF Changes
<1>6. m \in Nat /\ items[y].ver \in Nat /\ m = items[y].ver + 1 BY <1>3
<1> HIDE DEF k, n, m, f
<1>7. DOMAIN items' = DOMAIN items /\ items'[y] = f /\ \A x \in DOMAIN items : x # y => items'[x] = items[x]
  BY <1>5
<1>8. SoundShop(n)
  <2>1. ASSUME NEW x \in DOMAIN items'
        PROVE  x \in 1 .. created' /\ "ver" \in DOMAIN items'[x] /\ items'[x].ver \in Nat
    <3>1. CASE x = y BY <1>2, <1>3, <1>4, <1>6, <1>7, <3>1
    <3>2. CASE x # y BY <1>2, <1>3, <1>7, <3>2
    <3> QED BY <3>1, <3>2
  <2> QED BY <1>1, <1>2, <2>1 DEF SoundShop
<1>9. ASSUME NEW x, NEW v, Seen(k, x, v)
      PROVE  Seen(n, x, v) /\ (Fresh(n, x, v) => Fresh(k, x, v) /\ n.items[x] = k.items[x])
  <2>1. x \in 1 .. created' /\ v \in Nat /\ (x \in DOMAIN items => v <= items[x].ver)
    BY <1>1, <1>2, <1>9 DEF Seen
  <2>2. CASE x # y BY <1>1, <1>7, <2>1, <2>2 DEF Seen, Fresh
  <2>3. CASE x = y
    <3>1. items'[x].ver = m BY <1>4, <1>7, <2>3
    <3>2. v <= items[y].ver BY <2>1, <2>3
    <3>3. v <= m /\ v # m BY <1>6, <2>1, <3>2
    <3> QED BY <1>1, <2>1, <3>1, <3>3 DEF Seen, Fresh
  <2> QED BY <2>2, <2>3
<1> QED BY <1>1, <1>8, <1>9 DEF Later, k, n

LEMMA ShopRemoves ==
  ASSUME SoundShop(Shop), page' = page, NEW y, Removes(y)
  PROVE  Later(Shop, Shop')
<1> DEFINE k == Shop
           n == Shop'
<1>1. /\ k.items = items /\ k.top = created /\ n.items = items' /\ n.top = created' /\ n.boxes = k.boxes
      /\ created' = created
  BY DEF Shop, PageBoxes, Removes
<1>2. DOMAIN items' = DOMAIN items \ {y} /\ \A x \in DOMAIN items' : items'[x] = items[x] BY DEF Removes
<1> HIDE DEF k, n
<1>3. SoundShop(k) BY DEF k
<1>4. SoundShop(n) BY <1>1, <1>2, <1>3 DEF SoundShop
<1>5. ASSUME NEW x, NEW v, Seen(k, x, v)
      PROVE  Seen(n, x, v) /\ (Fresh(n, x, v) => Fresh(k, x, v) /\ n.items[x] = k.items[x])
  BY <1>1, <1>2, <1>5 DEF Seen, Fresh
<1> QED BY <1>1, <1>4, <1>5 DEF Later, k, n

----------------------------------------------------------------------------
(* The form.                                                               *)

LEMMA ResetIsGood == GoodForm(Shop, Reset)
  BY DEF GoodForm, Fields, Reset, NoForm

LEMMA OpensForm ==
  ASSUME FormInv, NEW f, GoodForm(Shop, f), Opens(f) PROVE FormInv'
<1>1. UNCHANGED <<page, items, created, list, calls>> /\ form' = f BY DEF Opens, serverVars, apiVars
<1>2. Shop' = Shop BY <1>1, SameShop DEF FormInv
<1> QED BY <1>1, <1>2 DEF FormInv

LEMMA PresetIsGood ==
  ASSUME NEW k, NEW f, DOMAIN f = Fields, f.id = NoItem PROVE GoodForm(k, FromPreset(f))
<1> DEFINE g == FromPreset(f)
<1>1. DOMAIN g = Fields /\ g.id = NoItem /\ g.market = FALSE BY DEF FromPreset, Fields
<1> HIDE DEF g
<1>2. GoodForm(k, g) BY <1>1 DEF GoodForm
<1> QED BY <1>2 DEF g

(* startEdit: the fields are the list's.                                   *)
LEMMA EditedIsGood ==
  ASSUME FormInv, NEW x \in DOMAIN list, NEW f, DOMAIN f = Fields, f.id = x, f.program = x,
         f.seen = list[x].ver, f.market = FALSE,
         \A b \in PageBoxes : f[b] = list[x][b]
  PROVE  GoodForm(Shop, f)
<1>1. Seen(Shop, x, list[x].ver) /\ (Fresh(Shop, x, list[x].ver) => list[x] = Shop.items[x])
  BY DEF FormInv, GoodList
<1>2. Shop.boxes = PageBoxes BY DEF Shop
<1>3. Fresh(Shop, f.id, f.seen) => \A b \in Shop.boxes \ f.touched : f[b] = Shop.items[f.id][b]
  BY <1>1, <1>2
<1> QED BY <1>1, <1>3 DEF GoodForm

LEMMA FormAction ==
  ASSUME FormInv,
         OpenConnectorForm \/ ImportRegistryConnector \/ ApplyPreset \/ CancelForm
         \/ (\E field \in FormBoxes : TickBox(field)) \/ \E x \in Id : EditConnector(x) \/ EditSkill(x)
  PROVE  FormInv'
<1>1. GoodForm(Shop, form) /\ DOMAIN form = Fields BY DEF FormInv, GoodForm
<1>2. CASE OpenConnectorForm
  <2> DEFINE f == [form EXCEPT !.open = TRUE, !.id = NoItem]
  <2>1. /\ DOMAIN f = Fields /\ f.id = NoItem /\ f.market = form.market
        /\ f.touched = form.touched /\ f.approval = form.approval
    BY <1>1 DEF Fields
  <2>2. Opens(f) \/ Opens(FromPreset(f)) BY <1>2 DEF OpenConnectorForm
  <2> HIDE DEF f
  <2>3. GoodForm(Shop, f) BY <1>1, <2>1 DEF GoodForm
  <2> QED BY <2>1, <2>2, <2>3, PresetIsGood, OpensForm
<1>3. CASE ImportRegistryConnector
  <2> DEFINE f == [NoForm EXCEPT !.open = TRUE, !.approval = ImportedNeedsApproval, !.market = TRUE]
  <2>1. DOMAIN f = Fields /\ f.id = NoItem /\ f.approval BY DEF Fields, NoForm, ImportedNeedsApproval
  <2>2. Opens(f) BY <1>3 DEF ImportRegistryConnector
  <2> HIDE DEF f
  <2>3. GoodForm(Shop, f) BY <2>1 DEF GoodForm
  <2> QED BY <2>2, <2>3, OpensForm
<1>4. ASSUME NEW b \in FormBoxes, TickBox(b) PROVE FormInv'
  <2> DEFINE f == Ticked(b)
  <2>1. /\ DOMAIN f = Fields /\ f.id = form.id /\ f.program = form.program /\ f.seen = form.seen
        /\ f.market = form.market /\ f.touched = form.touched \cup {b}
        /\ \A c \in FormBoxes : c # b => f[c] = form[c]
    BY <1>1 DEF Fields, FormBoxes, Ticked
  <2>2. Opens(f) BY <1>4 DEF TickBox
  <2> HIDE DEF f
  <2>3. Shop.boxes \subseteq FormBoxes BY DEF Shop, PageBoxes, FormBoxes
  <2>4. f.id # NoItem =>
          /\ f.program = f.id /\ Seen(Shop, f.id, f.seen)
          /\ Fresh(Shop, f.id, f.seen) => \A c \in Shop.boxes \ f.touched : f[c] = Shop.items[f.id][c]
    BY <1>1, <2>1, <2>3 DEF GoodForm
  <2>5. f.market /\ "approval" \notin f.touched => f.approval
    <3>1. "approval" \in FormBoxes BY DEF FormBoxes
    <3>2. "approval" \notin f.touched => b # "approval" /\ "approval" \notin form.touched BY <2>1
    <3>3. b # "approval" => f.approval = form.approval BY <2>1, <3>1
    <3> QED BY <1>1, <2>1, <3>2, <3>3 DEF GoodForm
  <2>6. GoodForm(Shop, f) BY <2>1, <2>4, <2>5 DEF GoodForm
  <2> QED BY <2>2, <2>6, OpensForm
<1>5. CASE ApplyPreset BY <1>1, <1>5, PresetIsGood, OpensForm DEF ApplyPreset
<1>6. CASE CancelForm
  <2>1. UNCHANGED <<page, items, created, list, calls>> /\ form' = Reset
    BY <1>6 DEF CancelForm, serverVars, apiVars
  <2>2. Shop' = Shop BY <2>1, SameShop DEF FormInv
  <2> QED BY <2>1, <2>2, ResetIsGood DEF FormInv
<1>7. ASSUME NEW x \in Id, EditConnector(x) PROVE FormInv'
  <2> DEFINE f == [open |-> TRUE, id |-> x, program |-> x, market |-> FALSE,
                   enabled |-> list[x].enabled, approval |-> list[x].approval, all |-> list[x].all,
                   seen |-> list[x].ver, touched |-> {}]
  <2>1. x \in DOMAIN list /\ Opens(f) BY <1>7 DEF EditConnector
  <2>2. /\ DOMAIN f = Fields /\ f.id = x /\ f.program = x /\ f.seen = list[x].ver /\ f.market = FALSE
        /\ \A b \in PageBoxes : f[b] = list[x][b]
    BY DEF Fields, PageBoxes, FormBoxes
  <2> HIDE DEF f
  <2>3. GoodForm(Shop, f) BY <2>1, <2>2, EditedIsGood
  <2> QED BY <2>1, <2>3, OpensForm
<1>8. ASSUME NEW x \in Id, EditSkill(x) PROVE FormInv'
  <2> DEFINE f == SkillForm(x)
  <2>1. x \in DOMAIN list /\ Opens(f) /\ page = "skills" BY <1>8 DEF EditSkill
  <2>2. /\ DOMAIN f = Fields /\ f.id = x /\ f.program = x /\ f.seen = list[x].ver /\ f.market = FALSE
        /\ \A b \in PageBoxes : f[b] = list[x][b]
    BY <2>1 DEF Fields, PageBoxes, SkillForm, NoForm
  <2> HIDE DEF f
  <2>3. GoodForm(Shop, f) BY <2>1, <2>2, EditedIsGood
  <2> QED BY <2>1, <2>3, OpensForm
<1> QED BY <1>2, <1>3, <1>4, <1>5, <1>6, <1>7, <1>8

----------------------------------------------------------------------------
(* The requests.                                                           *)

LEMMA AskedSaves ==
  ASSUME NEW k, GoodCalls(k, calls), NEW op, NEW arg, GoodCall(k, Request(op, arg)),
         calls' = Append(calls, Request(op, arg))
  PROVE  GoodCalls(k, calls')
<1> DEFINE e == Request(op, arg)
<1>1. IsRequest(e) /\ GoodCall(k, e) BY FreshRequest
<1>2. calls' = Append(calls, e) OBVIOUS
<1> HIDE DEF e
<1>3. IsSeq(calls) /\ Len(calls) \in Nat /\ DOMAIN calls = 1 .. Len(calls) BY ListFacts DEF GoodCalls
<1>4. /\ IsSeq(calls') /\ DOMAIN calls' = 1 .. Len(calls) + 1
      /\ \A j \in DOMAIN calls : calls'[j] = calls[j]
      /\ calls'[Len(calls) + 1] = e
  BY <1>2, <1>3, AppendList
<1>5. ASSUME NEW j \in DOMAIN calls' PROVE IsRequest(calls'[j]) /\ GoodCall(k, calls'[j])
  <2>1. j \in DOMAIN calls \/ j = Len(calls) + 1 BY <1>3, <1>4
  <2> QED BY <1>1, <1>4, <2>1 DEF GoodCalls
<1> QED BY <1>4, <1>5 DEF GoodCalls

LEMMA AnsweredSaves ==
  ASSUME NEW k, GoodCalls(k, calls), NEW i \in DOMAIN calls, NEW ok, NEW body,
         calls[i].op = "list" /\ ok => GoodList(k, body),
         Answer(i, ok, body) \/ NeverArrives(i)
  PROVE  GoodCalls(k, calls')
<1>1. IsSeq(calls) /\ \A j \in DOMAIN calls : IsRequest(calls[j]) /\ GoodCall(k, calls[j])
  BY DEF GoodCalls
<1>2. /\ IsSeq(calls') /\ DOMAIN calls' = DOMAIN calls
      /\ \A j \in DOMAIN calls : j # i => calls'[j] = calls[j]
      /\ IsRequest(calls'[i]) /\ calls'[i].op = calls[i].op /\ calls'[i].arg = calls[i].arg
      /\ \/ calls'[i].ok = ok /\ calls'[i].body = body
         \/ calls'[i].ok = calls[i].ok /\ calls'[i].body = calls[i].body
  BY <1>1, AnsweredRequest
<1>3. GoodCall(k, calls'[i]) BY <1>1, <1>2 DEF GoodCall
<1> QED BY <1>1, <1>2, <1>3 DEF GoodCalls

(* What is no save needs nothing before it is answered.                    *)
LEMMA OthersSave ==
  ASSUME NEW k, NEW op, NEW arg, op \notin {"create", "update"}
  PROVE  /\ GoodCall(k, Request(op, arg)) /\ GoodCalls(k, <<Request(op, arg)>>) /\ GoodCalls(k, <<>>)
<1> DEFINE e == Request(op, arg)
<1>1. IsRequest(e) /\ e.op = op /\ e.ok = FALSE BY FreshRequest DEF Request
<1>2. GoodCall(k, e) BY <1>1 DEF GoodCall
<1> HIDE DEF e
<1>3. GoodCalls(k, <<e>>) /\ GoodCalls(k, <<>>) BY <1>1, <1>2, ShortLists DEF GoodCalls
<1> QED BY <1>2, <1>3 DEF e

LEMMA ReloadSaves ==
  ASSUME NEW k, NEW tag PROVE GoodCalls(k, Reload(tag)) /\ GoodCalls(k, <<>>)
<1>1. /\ GoodCalls(k, <<Request("own", <<tag>>)>>) /\ GoodCalls(k, <<Request("list", <<tag>>)>>)
      /\ GoodCalls(k, <<>>)
  <2>1. "own" \notin {"create", "update"} /\ "list" \notin {"create", "update"} OBVIOUS
  <2> QED BY <2>1, OthersSave
<1> QED BY <1>1 DEF Reload

LEMMA JoinedSaves ==
  ASSUME NEW k, NEW s, NEW t, GoodCalls(k, s), GoodCalls(k, t) PROVE GoodCalls(k, s \o t)
<1>1. IsSeq(s) /\ IsSeq(t) BY DEF GoodCalls
<1>2. /\ IsSeq(Joined(s, t))
      /\ \A j \in DOMAIN Joined(s, t) : \/ \E m \in DOMAIN s : Joined(s, t)[j] = s[m]
                                     \/ \E m \in DOMAIN t : Joined(s, t)[j] = t[m]
  BY <1>1, ConcatList
<1>3. ASSUME NEW j \in DOMAIN Joined(s, t)
      PROVE  IsRequest(Joined(s, t)[j]) /\ GoodCall(k, Joined(s, t)[j])
  <2>1. CASE \E m \in DOMAIN s : Joined(s, t)[j] = s[m] BY <2>1 DEF GoodCalls
  <2>2. CASE \E m \in DOMAIN t : Joined(s, t)[j] = t[m] BY <2>2 DEF GoodCalls
  <2> QED BY <1>2, <1>3, <2>1, <2>2
<1>4. GoodCalls(k, Joined(s, t)) BY <1>2, <1>3 DEF GoodCalls
<1> QED BY <1>4 DEF Joined

LEMMA HeardSaves ==
  ASSUME NEW k, GoodCalls(k, calls), NEW i \in DOMAIN calls, NEW more, GoodCalls(k, more), Heard(i, more)
  PROVE  GoodCalls(k, calls')
<1>1. IsSeq(calls) /\ IsSeq(more) BY DEF GoodCalls
<1>2. calls' = Without(i, more) BY DEF Heard
<1>3. /\ IsSeq(Without(i, more))
      /\ \A j \in DOMAIN Without(i, more) :
           \/ \E m \in DOMAIN calls : Without(i, more)[j] = calls[m]
           \/ \E m \in DOMAIN more : Without(i, more)[j] = more[m]
  BY <1>1, WithoutList
<1> QED BY <1>2, <1>3 DEF GoodCalls

----------------------------------------------------------------------------
(* The steps.                                                              *)

(* What the user sends: the saves by what the form is, and the rest.       *)
LEMMA RequestAction ==
  ASSUME FormInv,
         SubmitConnector \/ SubmitSkill \/ SubmitImport \/ ToggleConnector \/ ToggleSkill
         \/ RemoveConnector \/ RemoveSkill \/ SaveConnectorScope \/ SaveSkillScope \/ Refresh
  PROVE  FormInv'
<1>1. /\ SoundShop(Shop) /\ GoodForm(Shop, form) /\ GoodList(Shop, list) /\ GoodCalls(Shop, calls)
  BY DEF FormInv
<1>2. ASSUME NEW op, NEW arg, Ask(op, arg), GoodCall(Shop, Request(op, arg)) PROVE FormInv'
  <2>1. UNCHANGED <<page, items, created, form, list>> /\ calls' = Append(calls, Request(op, arg))
    BY <1>2 DEF Ask, serverVars
  <2>2. Shop' = Shop BY <1>1, <2>1, SameShop
  <2>3. GoodCalls(Shop, calls') BY <1>1, <1>2, <2>1, AskedSaves
  <2> QED BY <1>1, <2>1, <2>2, <2>3 DEF FormInv
<1>3. ASSUME NEW op, op \notin {"create", "update"}, NEW arg, Ask(op, arg) PROVE FormInv'
  BY <1>2, <1>3, OthersSave
<1>4. CASE SubmitConnector \/ SubmitSkill
  <2> DEFINE op == IF form.id = NoItem THEN "create" ELSE "update"
             arg == <<form.id, form>>
             e == Request(op, arg)
  <2>1. Ask(op, arg) BY <1>4 DEF SubmitConnector, SubmitSkill, Submit
  <2>2. e.op = op /\ e.arg = arg /\ e.ok = FALSE BY DEF Request
  <2>3. arg[1] = form.id /\ arg[2] = form OBVIOUS
  <2>4. (op = "update" => form.id # NoItem) /\ op # "list" OBVIOUS
  <2> HIDE DEF op, arg, e
  <2>5. GoodCall(Shop, e) BY <1>1, <2>2, <2>3, <2>4 DEF GoodCall
  <2> QED BY <1>2, <2>1, <2>5 DEF e
<1>5. CASE SubmitImport BY <1>3, <1>5 DEF SubmitImport
<1>6. CASE ToggleConnector BY <1>3, <1>6 DEF ToggleConnector
<1>7. CASE ToggleSkill BY <1>3, <1>7 DEF ToggleSkill
<1>8. CASE RemoveConnector BY <1>3, <1>8 DEF RemoveConnector
<1>9. CASE RemoveSkill BY <1>3, <1>9 DEF RemoveSkill
<1>10. CASE SaveConnectorScope \/ SaveSkillScope
  BY <1>3, <1>10 DEF SaveConnectorScope, SaveSkillScope, SaveScope
<1>11. CASE Refresh
  <2>1. UNCHANGED <<page, items, created, form, list>> /\ calls' = calls \o Reload("page")
    BY <1>11 DEF Refresh, pageVars, serverVars
  <2>2. Shop' = Shop BY <1>1, <2>1, SameShop
  <2>3. GoodCalls(Shop, calls \o Reload("page")) BY <1>1, ReloadSaves, JoinedSaves
  <2> QED BY <1>1, <2>1, <2>2, <2>3 DEF FormInv
<1> QED BY <1>4, <1>5, <1>6, <1>7, <1>8, <1>9, <1>10, <1>11

(* What another page or the interface makes of the items.                  *)
LEMMA ChangedItem ==
  ASSUME SoundShop(Shop), page' = page, NEW x \in DOMAIN items,
         \E e : DOMAIN e = DOMAIN items[x] /\ Changes(x, e)
  PROVE  Later(Shop, Shop')
<1>1. "ver" \in DOMAIN items[x] BY DEF SoundShop, Shop
<1> QED BY <1>1, ShopChanges

LEMMA NewItemAdded ==
  ASSUME SoundShop(Shop), page' = page, NEW a, NEW b, NEW c, Adds(NewItem(a, b, c))
  PROVE  Later(Shop, Shop')
<1> DEFINE e == NewItem(a, b, c)
<1>1. "ver" \in DOMAIN e /\ e.ver \in Nat BY DEF NewItem
<1> HIDE DEF e
<1>2. Adds(e) BY DEF e
<1> QED BY <1>1, <1>2, ShopAdds

(* What a change makes of the items, by any handler.                       *)
Kept == UNCHANGED serverVars
AddsOne == \E a, b, c : Adds(NewItem(a, b, c))
ChangesOne == \E x \in DOMAIN items : \E e : DOMAIN e = DOMAIN items[x] /\ Changes(x, e)
RemovesOne == \E x : Removes(x)

LEMMA ItemsLater ==
  ASSUME SoundShop(Shop), page' = page, Kept \/ AddsOne \/ ChangesOne \/ RemovesOne
  PROVE  Later(Shop, Shop')
<1>1. CASE Kept BY <1>1, SameShop DEF Kept, serverVars
<1>2. CASE AddsOne BY <1>2, NewItemAdded DEF AddsOne
<1>3. CASE ChangesOne BY <1>3, ChangedItem DEF ChangesOne
<1>4. CASE RemovesOne BY <1>4, ShopRemoves DEF RemovesOne
<1> QED BY <1>1, <1>2, <1>3, <1>4

LEMMA ServedItems ==
  ASSUME NEW i \in DOMAIN calls, Serve(i)
  PROVE  Kept \/ AddsOne \/ ChangesOne \/ RemovesOne
<1>1. CASE CreateConnector(i) \/ CreateSkill(i) \/ ImportSkill(i)
  BY <1>1 DEF CreateConnector, CreateSkill, ImportSkill, Says, Kept, AddsOne
<1>2. CASE DeleteConnector(i) \/ DeleteSkill(i)
  BY <1>2 DEF DeleteConnector, DeleteSkill, Decides, Kept, RemovesOne
<1>3. CASE ServeLists(i) BY <1>3 DEF ServeLists, Kept
<1> DEFINE x == Arg(i)[1]
<1>4. ASSUME NEW e, DOMAIN e = DOMAIN items[x], There(i), Changes(x, e) PROVE ChangesOne
  BY <1>4 DEF ChangesOne, There
<1>5. CASE UpdateConnector(i)
  <2>1. CASE Says(i, There(i), Changes(x, [items[x] EXCEPT !.enabled = Sent(i).enabled,
                                  !.approval = Sent(i).approval, !.all = Sent(i).all]))
    BY <1>4, <2>1 DEF Says, Kept
  <2>2. CASE Decides(i, There(i), Changes(x, [items[x] EXCEPT !.enabled = Arg(i)[2]]))
    BY <1>4, <2>2 DEF Decides, Kept
  <2> QED BY <1>5, <2>1, <2>2 DEF UpdateConnector
<1>6. CASE UpdateSkill(i) BY <1>4, <1>6 DEF UpdateSkill, Says, Kept
<1>7. CASE PutConnectorScope(i) BY <1>4, <1>7 DEF PutConnectorScope, Decides, Kept
<1>8. CASE PutSkillScope(i) BY <1>4, <1>8 DEF PutSkillScope, Decides, Kept
<1>9. CASE SetSkillEnabled(i) BY <1>4, <1>9 DEF SetSkillEnabled, Decides, Kept
<1> QED BY <1>1, <1>2, <1>3, <1>5, <1>6, <1>7, <1>8, <1>9 DEF Serve

LEMMA ServeAction ==
  ASSUME FormInv, NEW i \in DOMAIN calls, Serve(i) \/ Lost(i) PROVE FormInv'
<1>1. SoundShop(Shop) /\ GoodForm(Shop, form) /\ GoodList(Shop, list) /\ GoodCalls(Shop, calls)
  BY DEF FormInv
<1>2. UNCHANGED <<page, form, list>>
  <2>1. CASE Serve(i)
    BY <2>1 DEF Serve, CreateConnector, UpdateConnector, DeleteConnector, PutConnectorScope, CreateSkill,
      UpdateSkill, DeleteSkill, PutSkillScope, ImportSkill, SetSkillEnabled, ServeLists, Says, Decides, pageVars
  <2>2. CASE Lost(i) BY <2>2 DEF Lost, pageVars
  <2> QED BY <2>1, <2>2
<1>3. Later(Shop, Shop')
  <2>1. CASE Serve(i) BY <1>1, <1>2, <2>1, ServedItems, ItemsLater
  <2>2. CASE Lost(i) BY <1>1, <1>2, <2>2, SameShop DEF Lost, serverVars
  <2> QED BY <2>1, <2>2
<1>4. \E ok, body : /\ Answer(i, ok, body) \/ NeverArrives(i)
                    /\ calls[i].op = "list" /\ ok => body = items
  <2>1. CASE Serve(i)
    BY <2>1 DEF Serve, CreateConnector, UpdateConnector, DeleteConnector, PutConnectorScope, CreateSkill,
      UpdateSkill, DeleteSkill, PutSkillScope, ImportSkill, SetSkillEnabled, ServeLists, Says, Decides, Is
  <2>2. CASE Lost(i) BY <2>2 DEF Lost
  <2> QED BY <2>1, <2>2
<1>5. GoodList(Shop, items)
  <2> SUFFICES ASSUME NEW x \in DOMAIN items PROVE Seen(Shop, x, items[x].ver)
    BY DEF GoodList, Fresh, Shop
  <2>1. x \in 1 .. created /\ items[x].ver \in Nat BY <1>1 DEF SoundShop, Shop
  <2>2. Shop.top = created /\ Shop.items = items BY DEF Shop
  <2> QED BY <2>1, <2>2 DEF Seen
<1>6. GoodCalls(Shop, calls') BY <1>1, <1>4, <1>5, AnsweredSaves
<1> DEFINE k == Shop
           n == Shop'
           s == calls'
<1>7. Later(k, n) /\ GoodForm(k, form) /\ GoodList(k, list) /\ GoodCalls(k, s) BY <1>1, <1>3, <1>6
<1> HIDE DEF k, n, s
<1>8. GoodForm(n, form) /\ GoodList(n, list) /\ GoodCalls(n, s) /\ SoundShop(n)
  BY <1>7, LaterForm, LaterList, LaterCalls DEF Later
<1> QED BY <1>2, <1>8 DEF FormInv, n, s

LEMMA ElsewhereAction ==
  ASSUME FormInv, Elsewhere PROVE FormInv'
<1>1. SoundShop(Shop) /\ GoodForm(Shop, form) /\ GoodList(Shop, list) /\ GoodCalls(Shop, calls)
  BY DEF FormInv
<1>2. UNCHANGED <<page, form, list, calls>> BY DEF Elsewhere, pageVars, apiVars
<1>3. ChangesOne \/ RemovesOne BY DEF Elsewhere, ChangesOne, RemovesOne
<1>4. Later(Shop, Shop') BY <1>1, <1>2, <1>3, ItemsLater
<1> DEFINE k == Shop
           n == Shop'
<1>5. Later(k, n) /\ GoodForm(k, form) /\ GoodList(k, list) /\ GoodCalls(k, calls) BY <1>1, <1>4
<1> HIDE DEF k, n
<1>6. GoodForm(n, form) /\ GoodList(n, list) /\ GoodCalls(n, calls) /\ SoundShop(n)
  BY <1>5, LaterForm, LaterList, LaterCalls DEF Later
<1> QED BY <1>2, <1>6 DEF FormInv, n

LEMMA HearAction ==
  ASSUME FormInv, NEW i \in DOMAIN calls, Hear(i) PROVE FormInv'
<1>1. SoundShop(Shop) /\ GoodForm(Shop, form) /\ GoodList(Shop, list) /\ GoodCalls(Shop, calls)
  BY DEF FormInv
<1>2. ASSUME NEW more, GoodCalls(Shop, more), Heard(i, more), GoodForm(Shop, form'), GoodList(Shop, list')
      PROVE  FormInv'
  <2>1. UNCHANGED <<page, items, created>> BY <1>2 DEF Heard, serverVars
  <2>2. Shop' = Shop BY <1>1, <2>1, SameShop
  <2>3. GoodCalls(Shop, calls') BY <1>1, <1>2, HeardSaves
  <2> QED BY <1>1, <1>2, <2>2, <2>3 DEF FormInv
<1>3. CASE HearOwn(i)
  <2>1. "list" \notin {"create", "update"} OBVIOUS
  <2>2. GoodCalls(Shop, <<Request("list", Arg(i))>>) /\ GoodCalls(Shop, <<>>) BY <2>1, OthersSave
  <2> QED BY <1>1, <1>2, <1>3, <2>2 DEF HearOwn
<1>4. CASE HearList(i)
  <2>1. calls[i].op = "list" /\ Heard(i, <<>>) /\ form' = form
        /\ list' = IF calls[i].ok THEN calls[i].body ELSE list
    BY <1>4 DEF HearList, Is
  <2>2. GoodCall(Shop, calls[i]) BY <1>1 DEF GoodCalls
  <2>3. GoodList(Shop, list') BY <1>1, <2>1, <2>2 DEF GoodCall
  <2> QED BY <1>1, <1>2, <2>1, <2>3, ReloadSaves
<1>5. ASSUME NEW tag, NEW after, GoodForm(Shop, after), Done(i, tag, after) PROVE FormInv'
  <2> DEFINE more == IF calls[i].ok THEN ReloadAfter(calls[i].op, tag) ELSE <<>>
  <2>1. GoodCalls(Shop, more) BY ReloadSaves DEF ReloadAfter
  <2>2. Heard(i, more) /\ list' = list /\ form' = IF calls[i].ok THEN after ELSE form
    BY <1>5 DEF Done
  <2> HIDE DEF more
  <2>3. GoodForm(Shop, form') BY <1>1, <1>5, <2>2
  <2> QED BY <1>1, <1>2, <2>1, <2>2, <2>3
<1>6. CASE HearConnectorSaved(i) \/ HearSkillSaved(i)
  BY <1>5, <1>6, ResetIsGood DEF HearConnectorSaved, HearSkillSaved
<1>7. CASE HearConnectorChanged(i) BY <1>1, <1>5, <1>7 DEF HearConnectorChanged
<1>8. CASE HearSkillToggled(i) BY <1>1, <1>5, <1>8 DEF HearSkillToggled
<1>9. CASE HearSkillRemoved(i) BY <1>1, <1>5, <1>9, ResetIsGood DEF HearSkillRemoved
<1>10. CASE HearSkillScope(i) BY <1>1, <1>5, <1>10 DEF HearSkillScope
<1>11. CASE HearImported(i) BY <1>1, <1>5, <1>11 DEF HearImported
<1> QED BY <1>3, <1>4, <1>6, <1>7, <1>8, <1>9, <1>10, <1>11 DEF Hear

LEMMA FormStands == Spec => []FormInv
<1>1. Init => FormInv
  <2> SUFFICES ASSUME Init PROVE FormInv OBVIOUS
  <2>1. GoodCalls(Shop, calls) BY ReloadSaves DEF Init
  <2>2. form = Reset BY DEF Init, Reset
  <2>3. GoodForm(Shop, form) BY <2>2, ResetIsGood
  <2>4. GoodList(Shop, list)
    <3>1. DOMAIN list = {} BY ShortLists DEF Init
    <3> QED BY <3>1 DEF GoodList
  <2>5. SoundShop(Shop)
    <3>1. /\ created = 1 /\ DOMAIN items = {1}
          /\ "ver" \in DOMAIN items[1] /\ items[1].ver = 1
      BY DEF Init, NewItem
    <3>2. Shop.items = items /\ Shop.top = created BY DEF Shop
    <3> QED BY <3>1, <3>2 DEF SoundShop
  <2> QED BY <2>1, <2>3, <2>4, <2>5 DEF FormInv
<1>2. FormInv /\ [Next]_vars => FormInv'
  <2> SUFFICES ASSUME FormInv, [Next]_vars PROVE FormInv' OBVIOUS
  <2>1. CASE UNCHANGED vars
    <3>1. UNCHANGED <<page, items, created, form, list, calls>>
      BY <2>1 DEF vars, serverVars, pageVars, apiVars
    <3>2. Shop' = Shop BY <3>1, SameShop DEF FormInv
    <3> QED BY <3>1, <3>2 DEF FormInv
  <2>2. CASE Elsewhere BY <2>2, ElsewhereAction
  <2>3. CASE \E i \in DOMAIN calls : Serve(i) \/ Lost(i) BY <2>3, ServeAction
  <2>4. CASE \E i \in DOMAIN calls : Hear(i) BY <2>4, HearAction
  <2>5. CASE OpenConnectorForm \/ ImportRegistryConnector \/ ApplyPreset \/ CancelForm
             \/ (\E field \in FormBoxes : TickBox(field)) \/ \E x \in Id : EditConnector(x) \/ EditSkill(x)
    BY <2>5, FormAction
  <2>6. CASE SubmitConnector \/ SubmitSkill \/ SubmitImport \/ ToggleConnector \/ ToggleSkill
             \/ RemoveConnector \/ RemoveSkill \/ SaveConnectorScope \/ SaveSkillScope \/ Refresh
    BY <2>6, RequestAction
  <2> QED BY <2>1, <2>2, <2>3, <2>4, <2>5, <2>6 DEF Next
<1> QED BY <1>1, <1>2, PTL DEF Spec

(* Saving a form changes only what was touched in it: an update is of the  *)
(* item whose name and command the form has, and while that item is as it  *)
(* was when startEdit loaded it, every box nobody changed is sent as it    *)
(* is; a connector from the market is created with approval of each call   *)
(* unless its box was changed (importRegistryConnector).  It holds over    *)
(* openConnectorForm, which keeps what the form had, over resetForm and    *)
(* over the reloads, in any order of clicks, answers and others' changes.  *)
THEOREM SavesKeepTheRest == Spec => []SaveKeepsTheRest
<1>1. FormInv => SaveKeepsTheRest
  <2> SUFFICES ASSUME FormInv, NEW i \in DOMAIN calls
               PROVE  LET x == Arg(i)[1] IN
                      /\ calls[i].op = "update" =>
                           /\ Sent(i).program = x
                           /\ calls[i].at = "out" /\ x \in DOMAIN items /\ items[x].ver = Sent(i).seen =>
                                \A field \in PageBoxes \ Sent(i).touched : Sent(i)[field] = items[x][field]
                      /\ calls[i].op = "create" /\ Sent(i).market /\ "approval" \notin Sent(i).touched =>
                           Sent(i).approval
    BY DEF SaveKeepsTheRest
  <2> DEFINE f == Sent(i)
             x == Arg(i)[1]
  <2>1. GoodCall(Shop, calls[i]) BY DEF FormInv, GoodCalls
  <2>2. calls[i].op \in {"create", "update"} => GoodForm(Shop, f) /\ x = f.id
    BY <2>1 DEF GoodCall, Sent, Arg
  <2>3. calls[i].op = "update" => x # NoItem BY <2>1 DEF GoodCall, Arg
  <2> HIDE DEF f, x
  <2>4. Shop.items = items /\ Shop.boxes = PageBoxes BY DEF Shop
  <2>5. ASSUME calls[i].op = "update"
        PROVE  /\ f.program = x
               /\ x \in DOMAIN items /\ items[x].ver = f.seen =>
                    \A field \in PageBoxes \ f.touched : f[field] = items[x][field]
    BY <2>2, <2>3, <2>4, <2>5 DEF GoodForm, Fresh
  <2>6. calls[i].op = "create" /\ f.market /\ "approval" \notin f.touched => f.approval
    BY <2>2 DEF GoodForm
  <2> QED BY <2>5, <2>6 DEF f, x
<1> QED BY <1>1, FormStands, PTL

----------------------------------------------------------------------------
(* What a page with nothing on its way shows.                              *)

(* A change that was made is followed by a load.                           *)
Reloads(c) == ~IsList(c) /\ c.at = "back" /\ c.ok

(* What is on its way will bring the list as it is, the user's own skills. *)
ListComes(c) ==
  \/ c.op = "list" /\ (c.at = "back" => c.body = items)
  \/ c.op = "own"
  \/ Reloads(c)

OwnComes(c) ==
  \/ c.op = "own" /\ (c.at = "back" => c.body = Allowed(items))
  \/ Reloads(c)

(* The page shows what there is, and no answer is there to change it.      *)
Stale(c, op, body) == c.op = op /\ c.at = "back" /\ c.body # body

ListRight == list = items /\ \A j \in DOMAIN calls : ~Stale(calls[j], "list", items)

OwnRight == own = Allowed(items) /\ \A j \in DOMAIN calls : ~Stale(calls[j], "own", Allowed(items))

Corrected ==
  /\ admin => ListRight \/ \E j \in DOMAIN calls : ListComes(calls[j])
  /\ page = "skills" => OwnRight \/ \E j \in DOMAIN calls : OwnComes(calls[j])

Loaded(c) == IsList(c) /\ c.at = "back" => c.ok

QuietInv ==
  /\ fails \in Nat
  /\ fails = 0 => \A j \in DOMAIN calls : Loaded(calls[j])
  /\ fails = 0 /\ ~crossed /\ ~others => Corrected

(* A request that goes out is no answer yet.                               *)
LEMMA AskedQuiet ==
  ASSUME FormInv, QuietInv, NEW e, e.at = "out", calls' = Append(calls, e),
         UNCHANGED <<page, admin, items, list, own, crossed, others, fails>>
  PROVE  QuietInv'
<1>1. IsSeq(calls) /\ DOMAIN calls = 1 .. Len(calls) /\ Len(calls) \in Nat
  BY ListFacts DEF FormInv, GoodCalls
<1>2. /\ DOMAIN calls' = 1 .. Len(calls) + 1
      /\ \A j \in DOMAIN calls : calls'[j] = calls[j]
      /\ calls'[Len(calls) + 1] = e
  BY <1>1, AppendList
<1>3. /\ \A j \in DOMAIN calls' : calls'[j] = e \/ \E k \in DOMAIN calls : calls'[j] = calls[k]
      /\ \A k \in DOMAIN calls : \E j \in DOMAIN calls' : calls'[j] = calls[k]
  BY <1>1, <1>2
<1>4. Loaded(e) /\ ~Stale(e, "list", items) /\ ~Stale(e, "own", Allowed(items)) BY DEF Loaded, Stale
<1>5. fails' = 0 => \A j \in DOMAIN calls' : Loaded(calls'[j]) BY <1>3, <1>4 DEF QuietInv
<1>6. Allowed(items)' = Allowed(items) BY DEF Allowed
<1>7. ASSUME Corrected PROVE Corrected'
  <2>1. ListRight => ListRight' BY <1>3, <1>4 DEF ListRight
  <2>2. OwnRight => OwnRight' BY <1>3, <1>4, <1>6 DEF OwnRight
  <2>3. \A c : (ListComes(c) => ListComes(c)') /\ (OwnComes(c) => OwnComes(c)')
    BY <1>6 DEF ListComes, OwnComes, Reloads, IsList
  <2>4. (\E j \in DOMAIN calls : ListComes(calls[j])) => (\E j \in DOMAIN calls : ListComes(calls[j]))'
    BY <1>3, <2>3 DEF ListComes, Reloads, IsList
  <2>5. (\E j \in DOMAIN calls : OwnComes(calls[j])) => (\E j \in DOMAIN calls : OwnComes(calls[j]))'
    BY <1>3, <1>6, <2>3 DEF OwnComes, Reloads, IsList
  <2> QED BY <1>7, <2>1, <2>2, <2>4, <2>5 DEF Corrected
<1> QED BY <1>5, <1>7 DEF QuietInv

(* An answer: of a list it is the list, a change that was made is said so. *)
LEMMA AnsweredQuiet ==
  ASSUME FormInv, QuietInv, NEW i \in DOMAIN calls, calls[i].at = "out", NEW ok, NEW body,
         Answer(i, ok, body) \/ NeverArrives(i),
         UNCHANGED <<page, admin, list, own, crossed, others>>,
         ok \/ (~IsList(calls[i]) /\ items' = items),
         IsList(calls[i]) =>
           items' = items /\ body = IF calls[i].op = "own" THEN Allowed(items) ELSE items
  PROVE  QuietInv'
<1>1. IsSeq(calls) /\ \A j \in DOMAIN calls : IsRequest(calls[j]) BY DEF FormInv, GoodCalls
<1>2. /\ DOMAIN calls' = DOMAIN calls
      /\ \A j \in DOMAIN calls : j # i => calls'[j] = calls[j]
      /\ calls'[i].op = calls[i].op /\ calls'[i].at = "back"
      /\ \/ calls'[i].ok = ok /\ calls'[i].body = body /\ fails' = fails
         \/ fails' = fails + 1
  BY <1>1, AnsweredRequest
<1>3. CASE fails' = fails + 1 BY <1>3 DEF QuietInv
<1>4. CASE calls'[i].ok = ok /\ calls'[i].body = body /\ fails' = fails
  <2>1. Loaded(calls'[i]) BY <1>2, <1>4 DEF Loaded, IsList
  <2>2. fails' = 0 => \A j \in DOMAIN calls' : Loaded(calls'[j]) BY <1>2, <1>4, <2>1 DEF QuietInv
  <2>3. items' = items => Allowed(items)' = Allowed(items) BY DEF Allowed
  <2>4. ASSUME Corrected, items' = items PROVE Corrected'
    <3>1. ~Stale(calls'[i], "list", items) /\ ~Stale(calls'[i], "own", Allowed(items))
      BY <1>2, <1>4 DEF Stale, IsList
    <3>2. ListRight => ListRight' BY <1>2, <2>4, <3>1 DEF ListRight
    <3>3. OwnRight => OwnRight' BY <1>2, <2>3, <2>4, <3>1 DEF OwnRight
    <3>4. ASSUME NEW j \in DOMAIN calls, ListComes(calls[j])
          PROVE  (\E k \in DOMAIN calls : ListComes(calls[k]))'
      <4>1. CASE j = i BY <1>2, <1>4, <2>4, <3>4, <4>1 DEF ListComes, Reloads, IsList
      <4>2. CASE j # i BY <1>2, <2>4, <3>4, <4>2 DEF ListComes, Reloads, IsList
      <4> QED BY <4>1, <4>2
    <3>5. ASSUME NEW j \in DOMAIN calls, OwnComes(calls[j])
          PROVE  (\E k \in DOMAIN calls : OwnComes(calls[k]))'
      <4>1. CASE j = i BY <1>2, <1>4, <2>3, <2>4, <3>5, <4>1 DEF OwnComes, Reloads, IsList
      <4>2. CASE j # i BY <1>2, <2>3, <2>4, <3>5, <4>2 DEF OwnComes, Reloads, IsList
      <4> QED BY <4>1, <4>2
    <3> QED BY <2>4, <3>2, <3>3, <3>4, <3>5 DEF Corrected
  <2>5. ASSUME items' # items PROVE Corrected'
    <3>1. Reloads(calls[i])' BY <1>2, <1>4, <2>5 DEF Reloads, IsList
    <3>2. ListComes(calls[i])' /\ OwnComes(calls[i])' BY <3>1 DEF ListComes, OwnComes
    <3> QED BY <1>2, <3>2 DEF Corrected
  <2> QED BY <1>4, <2>2, <2>4, <2>5 DEF QuietInv
<1> QED BY <1>2, <1>3, <1>4

(* What is left once an answer was heard: the others, and what it asks for.*)
LEMMA HeardPlaces ==
  ASSUME FormInv, NEW i \in DOMAIN calls, NEW e, Heard(i, <<>>) \/ Heard(i, <<e>>)
  PROVE  /\ \A k \in DOMAIN calls \ {i} : \E j \in DOMAIN calls' : calls'[j] = calls[k]
         /\ \A j \in DOMAIN calls' : \/ \E k \in DOMAIN calls \ {i} : calls'[j] = calls[k]
                                     \/ Heard(i, <<e>>) /\ calls'[j] = e
         /\ Heard(i, <<e>>) => \E j \in DOMAIN calls' : calls'[j] = e
<1>1. IsSeq(calls) BY DEF FormInv, GoodCalls
<1> DEFINE w == Without(i, <<>>)
<1>2. /\ IsSeq(w)
      /\ \A j \in DOMAIN w : \E k \in DOMAIN calls \ {i} : w[j] = calls[k]
      /\ \A k \in DOMAIN calls \ {i} : \E j \in DOMAIN w : w[j] = calls[k]
  BY <1>1, WithoutPlaces
<1>3. Without(i, <<e>>) = Append(w, e) BY <1>1, WithoutAppends
<1> HIDE DEF w
<1>4. CASE Heard(i, <<e>>)
  <2>1. calls' = Append(w, e) BY <1>3, <1>4 DEF Heard
  <2>2. DOMAIN w = 1 .. Len(w) /\ Len(w) \in Nat BY <1>2, ListFacts
  <2>3. /\ DOMAIN calls' = 1 .. Len(w) + 1
        /\ \A j \in DOMAIN w : calls'[j] = w[j]
        /\ calls'[Len(w) + 1] = e
    BY <1>2, <2>1, AppendList
  <2>4. \A j \in DOMAIN w : j \in DOMAIN calls' BY <2>2, <2>3
  <2>5. Len(w) + 1 \in DOMAIN calls' BY <2>2, <2>3
  <2>6. \A j \in DOMAIN calls' : j \in DOMAIN w \/ j = Len(w) + 1 BY <2>2, <2>3
  <2> QED BY <1>2, <1>4, <2>3, <2>4, <2>5, <2>6
<1>5. CASE ~Heard(i, <<e>>)
  <2>1. calls' = w BY <1>5 DEF Heard, w
  <2> QED BY <1>2, <1>5, <2>1
<1> QED BY <1>4, <1>5

(* What the page hears of a change: if it was made, it asks for the lists. *)
LEMMA DoneQuiet ==
  ASSUME FormInv, QuietInv, NEW i \in DOMAIN calls, ~IsList(calls[i]),
         NEW tag, NEW after, Done(i, tag, after)
  PROVE  QuietInv'
<1> DEFINE e == Request(IF page = "skills" THEN "own" ELSE "list", <<tag>>)
<1>1. /\ UNCHANGED <<page, admin, items, list, own, crossed, others, fails>>
      /\ calls[i].at = "back"
      /\ calls[i].ok => Heard(i, <<e>>)
      /\ ~calls[i].ok => Heard(i, <<>>)
  BY DEF Done, Heard, ReloadAfter, Reload, serverVars, counts
<1>2. /\ \A k \in DOMAIN calls \ {i} : \E j \in DOMAIN calls' : calls'[j] = calls[k]
      /\ \A j \in DOMAIN calls' : \/ \E k \in DOMAIN calls \ {i} : calls'[j] = calls[k]
                                  \/ calls'[j] = e
      /\ calls[i].ok => \E j \in DOMAIN calls' : calls'[j] = e
  BY <1>1, HeardPlaces
<1>3. e.at = "out" /\ e.op = IF page = "skills" THEN "own" ELSE "list" BY DEF Request
<1> HIDE DEF e
<1>4. fails' = 0 => \A j \in DOMAIN calls' : Loaded(calls'[j])
  BY <1>1, <1>2, <1>3 DEF QuietInv, Loaded
<1>5. Allowed(items)' = Allowed(items) BY <1>1 DEF Allowed
<1>6. ASSUME calls[i].ok PROVE Corrected'
  <2>1. PICK j \in DOMAIN calls' : calls'[j] = e BY <1>2, <1>6
  <2>2. (\E k \in DOMAIN calls : ListComes(calls[k]))' BY <1>3, <2>1 DEF ListComes
  <2>3. page = "skills" => (\E k \in DOMAIN calls : OwnComes(calls[k]))'
    BY <1>3, <2>1 DEF OwnComes
  <2> QED BY <1>1, <2>2, <2>3 DEF Corrected
<1>7. ASSUME ~calls[i].ok, Corrected PROVE Corrected'
  <2>1. ListRight => ListRight' BY <1>1, <1>2, <1>3 DEF ListRight, Stale
  <2>2. OwnRight => OwnRight' BY <1>1, <1>2, <1>3, <1>5 DEF OwnRight, Stale
  <2>3. ASSUME NEW k \in DOMAIN calls, ListComes(calls[k])
        PROVE  (\E j \in DOMAIN calls : ListComes(calls[j]))'
    <3>1. k # i BY <1>7, <2>3 DEF ListComes, Reloads, IsList
    <3>2. PICK j \in DOMAIN calls' : calls'[j] = calls[k] BY <1>2, <3>1
    <3> QED BY <1>1, <2>3, <3>2 DEF ListComes, Reloads, IsList
  <2>4. ASSUME NEW k \in DOMAIN calls, OwnComes(calls[k])
        PROVE  (\E j \in DOMAIN calls : OwnComes(calls[j]))'
    <3>1. k # i BY <1>7, <2>4 DEF OwnComes, Reloads, IsList
    <3>2. PICK j \in DOMAIN calls' : calls'[j] = calls[k] BY <1>2, <3>1
    <3> QED BY <1>1, <1>5, <2>4, <3>2 DEF OwnComes, Reloads, IsList
  <2> QED BY <1>1, <1>7, <2>1, <2>2, <2>3, <2>4 DEF Corrected
<1> QED BY <1>1, <1>4, <1>6, <1>7 DEF QuietInv

(* An answer with the list, no other being there.                          *)
LEMMA ListQuiet ==
  ASSUME FormInv, QuietInv, NEW i \in DOMAIN calls, HearList(i)
  PROVE  QuietInv'
<1>1. /\ UNCHANGED <<page, admin, items, own, others, fails>>
      /\ calls[i].op = "list" /\ calls[i].at = "back" /\ Heard(i, <<>>)
      /\ list' = IF calls[i].ok THEN calls[i].body ELSE list
      /\ crossed' = Crosses(i)
  BY DEF HearList, Is, Heard, serverVars, counts
<1>2. /\ \A k \in DOMAIN calls \ {i} : \E j \in DOMAIN calls' : calls'[j] = calls[k]
      /\ \A j \in DOMAIN calls' : \E k \in DOMAIN calls \ {i} : calls'[j] = calls[k]
  <2>1. /\ \A k \in DOMAIN calls \ {i} : \E j \in DOMAIN Without(i, <<>>) : Without(i, <<>>)[j] = calls[k]
        /\ \A j \in DOMAIN Without(i, <<>>) : \E k \in DOMAIN calls \ {i} : Without(i, <<>>)[j] = calls[k]
    BY WithoutPlaces DEF FormInv, GoodCalls
  <2> QED BY <1>1, <2>1 DEF Heard
<1>3. fails' = 0 => \A j \in DOMAIN calls' : Loaded(calls'[j]) BY <1>1, <1>2 DEF QuietInv
<1>4. Allowed(items)' = Allowed(items) BY <1>1 DEF Allowed
<1>5. ASSUME fails = 0, ~crossed', Corrected PROVE Corrected'
  <2>1. \A k \in DOMAIN calls \ {i} : ~(IsList(calls[k]) /\ calls[k].at = "back")
    BY <1>1, <1>5 DEF Crosses
  <2>2. list' = calls[i].body BY <1>1, <1>5 DEF QuietInv, Loaded, IsList
  <2>3. \A j \in DOMAIN calls' : ~Stale(calls'[j], "list", items) BY <1>2, <2>1 DEF Stale, IsList
  <2>4. ListRight => ListRight'
    <3>1. ASSUME ListRight PROVE list' = items BY <1>1, <2>2, <3>1 DEF ListRight, Stale
    <3> QED BY <1>1, <2>3, <3>1 DEF ListRight
  <2>5. ListComes(calls[i]) => ListRight'
    BY <1>1, <2>2, <2>3 DEF ListRight, ListComes, Reloads, IsList
  <2>6. ASSUME NEW k \in DOMAIN calls, k # i, ListComes(calls[k])
        PROVE  (\E j \in DOMAIN calls : ListComes(calls[j]))'
    <3>1. PICK j \in DOMAIN calls' : calls'[j] = calls[k] BY <1>2, <2>6
    <3> QED BY <1>1, <2>6, <3>1 DEF ListComes, Reloads, IsList
  <2>7. OwnRight => OwnRight' BY <1>1, <1>2, <1>4 DEF OwnRight, Stale
  <2>8. ASSUME NEW k \in DOMAIN calls, OwnComes(calls[k])
        PROVE  (\E j \in DOMAIN calls : OwnComes(calls[j]))'
    <3>1. k # i BY <1>1, <2>8 DEF OwnComes, Reloads, IsList
    <3>2. PICK j \in DOMAIN calls' : calls'[j] = calls[k] BY <1>2, <3>1
    <3> QED BY <1>1, <1>4, <2>8, <3>2 DEF OwnComes, Reloads, IsList
  <2> QED BY <1>1, <1>5, <2>4, <2>5, <2>6, <2>7, <2>8 DEF Corrected
<1>6. crossed => crossed' BY <1>1 DEF Crosses
<1> QED BY <1>1, <1>3, <1>5, <1>6 DEF QuietInv

(* The user's own skills: for an administrator the list comes next.        *)
LEMMA OwnQuiet ==
  ASSUME FormInv, QuietInv, NEW i \in DOMAIN calls, HearOwn(i)
  PROVE  QuietInv'
<1> DEFINE e == Request("list", Arg(i))
<1>1. /\ UNCHANGED <<page, admin, items, list, others, fails>>
      /\ calls[i].op = "own" /\ calls[i].at = "back"
      /\ calls[i].ok /\ admin => Heard(i, <<e>>)
      /\ ~(calls[i].ok /\ admin) => Heard(i, <<>>)
      /\ own' = IF calls[i].ok THEN calls[i].body ELSE own
      /\ crossed' = Crosses(i)
  BY DEF HearOwn, Is, Heard, serverVars, counts
<1>2. /\ \A k \in DOMAIN calls \ {i} : \E j \in DOMAIN calls' : calls'[j] = calls[k]
      /\ \A j \in DOMAIN calls' : \/ \E k \in DOMAIN calls \ {i} : calls'[j] = calls[k]
                                  \/ calls'[j] = e
      /\ calls[i].ok /\ admin => \E j \in DOMAIN calls' : calls'[j] = e
  BY <1>1, HeardPlaces
<1>3. e.at = "out" /\ e.op = "list" BY DEF Request
<1> HIDE DEF e
<1>4. fails' = 0 => \A j \in DOMAIN calls' : Loaded(calls'[j])
  BY <1>1, <1>2, <1>3 DEF QuietInv, Loaded
<1>5. Allowed(items)' = Allowed(items) BY <1>1 DEF Allowed
<1>6. ASSUME fails = 0, ~crossed', Corrected PROVE Corrected'
  <2>1. \A k \in DOMAIN calls \ {i} : ~(IsList(calls[k]) /\ calls[k].at = "back")
    BY <1>1, <1>6 DEF Crosses
  <2>2. calls[i].ok /\ own' = calls[i].body BY <1>1, <1>6 DEF QuietInv, Loaded, IsList
  <2>3. \A j \in DOMAIN calls' : ~Stale(calls'[j], "own", Allowed(items))
    BY <1>2, <1>3, <2>1 DEF Stale, IsList
  <2>4. OwnRight => OwnRight'
    <3>1. ASSUME OwnRight PROVE own' = Allowed(items) BY <1>1, <2>2, <3>1 DEF OwnRight, Stale
    <3> QED BY <1>5, <2>3, <3>1 DEF OwnRight
  <2>5. OwnComes(calls[i]) => OwnRight'
    BY <1>1, <1>5, <2>2, <2>3 DEF OwnRight, OwnComes, Reloads, IsList
  <2>6. ASSUME NEW k \in DOMAIN calls, k # i, OwnComes(calls[k])
        PROVE  (\E j \in DOMAIN calls : OwnComes(calls[j]))'
    <3>1. PICK j \in DOMAIN calls' : calls'[j] = calls[k] BY <1>2, <2>6
    <3> QED BY <1>1, <1>5, <2>6, <3>1 DEF OwnComes, Reloads, IsList
  <2>7. admin => (\E j \in DOMAIN calls : ListComes(calls[j]))'
    BY <1>2, <1>3, <2>2 DEF ListComes
  <2> QED BY <1>1, <1>6, <2>4, <2>5, <2>6, <2>7 DEF Corrected
<1>7. crossed => crossed' BY <1>1 DEF Crosses
<1> QED BY <1>1, <1>4, <1>6, <1>7 DEF QuietInv

(* The interface.                                                          *)
LEMMA ServeQuiet ==
  ASSUME FormInv, QuietInv, NEW i \in DOMAIN calls, Serve(i) \/ Lost(i)
  PROVE  QuietInv'
<1> DEFINE Said == /\ ~IsList(calls[i]) /\ calls[i].at = "out"
                   /\ UNCHANGED <<page, admin, pageVars, counts>>
                   /\ \E ok \in BOOLEAN : Answer(i, ok, NoBody) /\ (ok \/ items' = items)
<1>1. ASSUME Said PROVE QuietInv'
  <2>1. PICK ok \in BOOLEAN : Answer(i, ok, NoBody) /\ (ok \/ items' = items) BY <1>1
  <2>2. UNCHANGED <<page, admin, list, own, crossed, others>> BY <1>1 DEF pageVars, counts
  <2> QED BY <1>1, <2>1, <2>2, AnsweredQuiet
<1>2. CASE ServeLists(i)
  <2> DEFINE body == IF calls[i].op = "own" THEN Allowed(items) ELSE items
  <2>1. /\ IsList(calls[i]) /\ calls[i].at = "out" /\ Answer(i, TRUE, body)
        /\ UNCHANGED <<page, admin, items, list, own, crossed, others>>
    BY <1>2 DEF ServeLists, Is, IsList, pageVars, counts, serverVars
  <2> QED BY <2>1, AnsweredQuiet
<1>3. CASE Lost(i)
  <2>1. calls[i].at = "out" /\ NeverArrives(i) /\ UNCHANGED <<page, admin, items, list, own, crossed, others>>
    BY <1>3 DEF Lost, NeverArrives, pageVars, counts, serverVars
  <2>2. fails' # 0 BY <2>1 DEF NeverArrives, QuietInv
  <2>3. fails' \in Nat BY <2>1 DEF NeverArrives, QuietInv
  <2> QED BY <2>2, <2>3 DEF QuietInv
<1>4. CASE CreateConnector(i) \/ CreateSkill(i) \/ ImportSkill(i) \/ UpdateSkill(i)
  <2>1. Said BY <1>4 DEF CreateConnector, CreateSkill, ImportSkill, UpdateSkill, Says, Is, IsList, serverVars
  <2> QED BY <1>1, <2>1
<1>5. CASE UpdateConnector(i)
  <2>1. Said BY <1>5 DEF UpdateConnector, Says, Decides, Is, IsList, serverVars
  <2> QED BY <1>1, <2>1
<1>6. CASE DeleteConnector(i) \/ PutConnectorScope(i) \/ DeleteSkill(i) \/ PutSkillScope(i) \/ SetSkillEnabled(i)
  <2>1. Said
    BY <1>6 DEF DeleteConnector, PutConnectorScope, DeleteSkill, PutSkillScope, SetSkillEnabled,
                Decides, Is, IsList, serverVars
  <2> QED BY <1>1, <2>1
<1> QED BY <1>2, <1>3, <1>4, <1>5, <1>6 DEF Serve

(* The page.                                                               *)
LEMMA HearQuiet ==
  ASSUME FormInv, QuietInv, NEW i \in DOMAIN calls, Hear(i)
  PROVE  QuietInv'
<1>1. ASSUME NEW tag, NEW after, calls[i].op # "own", calls[i].op # "list", Done(i, tag, after)
      PROVE  QuietInv'
  BY <1>1, DoneQuiet DEF IsList
<1>2. CASE HearConnectorSaved(i) \/ HearSkillSaved(i)
  BY <1>1, <1>2 DEF HearConnectorSaved, HearSkillSaved, Of
<1>3. CASE HearConnectorChanged(i) BY <1>1, <1>3 DEF HearConnectorChanged, Of
<1>4. CASE HearSkillToggled(i) BY <1>1, <1>4 DEF HearSkillToggled, Of
<1>5. CASE HearSkillRemoved(i)
  <2> DEFINE after == IF Arg(i)[2] THEN Reset ELSE form
  <2>1. calls[i].op = "delete" /\ Done(i, "row", after) BY <1>5 DEF HearSkillRemoved, Of
  <2> HIDE DEF after
  <2> QED BY <1>1, <2>1
<1>6. CASE HearSkillScope(i) BY <1>1, <1>6 DEF HearSkillScope, Of
<1>7. CASE HearImported(i) BY <1>1, <1>7 DEF HearImported, Of
<1> QED BY <1>2, <1>3, <1>4, <1>5, <1>6, <1>7, ListQuiet, OwnQuiet DEF Hear

LEMMA SameQuiet ==
  ASSUME QuietInv, UNCHANGED <<page, admin, items, list, own, crossed, others, apiVars>>
  PROVE  QuietInv'
<1>1. Allowed(items)' = Allowed(items) BY DEF Allowed
<1> QED BY <1>1 DEF QuietInv, Corrected, ListRight, OwnRight, ListComes, OwnComes, Reloads, IsList, Stale,
                   Loaded, apiVars

(* What the user does, and what others do.                                 *)
LEMMA UserQuiet ==
  ASSUME FormInv, QuietInv,
         \/ OpenConnectorForm \/ ImportRegistryConnector \/ ApplyPreset \/ CancelForm
         \/ (\E field \in FormBoxes : TickBox(field)) \/ \E x \in Id : EditConnector(x) \/ EditSkill(x)
  PROVE  QuietInv'
<1>1. UNCHANGED <<page, admin, items, list, own, crossed, others, apiVars>>
  <2>1. ASSUME NEW f, Opens(f) PROVE UNCHANGED <<page, admin, items, list, own, crossed, others, apiVars>>
    BY <2>1 DEF Opens, serverVars
  <2>2. CASE CancelForm BY <2>2 DEF CancelForm, serverVars, counts
  <2>3. CASE OpenConnectorForm BY <2>1, <2>3 DEF OpenConnectorForm
  <2>4. CASE ImportRegistryConnector BY <2>1, <2>4 DEF ImportRegistryConnector
  <2>5. CASE ApplyPreset BY <2>1, <2>5 DEF ApplyPreset
  <2>6. CASE \E field \in FormBoxes : TickBox(field) BY <2>1, <2>6 DEF TickBox
  <2>7. CASE \E x \in Id : EditConnector(x) \/ EditSkill(x) BY <2>1, <2>7 DEF EditConnector, EditSkill
  <2> QED BY <2>2, <2>3, <2>4, <2>5, <2>6, <2>7
<1> QED BY <1>1, SameQuiet

LEMMA AskQuiet ==
  ASSUME FormInv, QuietInv,
         \/ SubmitConnector \/ SubmitSkill \/ SubmitImport \/ ToggleConnector \/ ToggleSkill
         \/ RemoveConnector \/ RemoveSkill \/ SaveConnectorScope \/ SaveSkillScope \/ Refresh
  PROVE  QuietInv'
<1>1. ASSUME NEW op, NEW arg, calls' = Append(calls, Request(op, arg)),
             UNCHANGED <<page, admin, serverVars, list, own, form, crossed, others, fails>>
      PROVE  QuietInv'
  <2>1. Request(op, arg).at = "out" BY DEF Request
  <2> DEFINE e == Request(op, arg)
  <2>2. calls' = Append(calls, e) /\ e.at = "out" BY <1>1, <2>1
  <2> HIDE DEF e
  <2> QED BY <1>1, <2>2, AskedQuiet DEF serverVars
<1>2. ASSUME NEW op, NEW arg, Ask(op, arg) PROVE QuietInv' BY <1>1, <1>2 DEF Ask
<1>3. CASE SubmitConnector BY <1>2, <1>3 DEF SubmitConnector, Submit
<1>4. CASE SubmitSkill BY <1>2, <1>4 DEF SubmitSkill, Submit
<1>5. CASE SubmitImport BY <1>2, <1>5 DEF SubmitImport
<1>6. CASE ToggleConnector BY <1>2, <1>6 DEF ToggleConnector
<1>7. CASE ToggleSkill BY <1>2, <1>7 DEF ToggleSkill
<1>8. CASE RemoveConnector BY <1>2, <1>8 DEF RemoveConnector
<1>9. CASE RemoveSkill BY <1>2, <1>9 DEF RemoveSkill
<1>10. CASE SaveConnectorScope \/ SaveSkillScope
  BY <1>2, <1>10 DEF SaveConnectorScope, SaveSkillScope, SaveScope
<1>11. CASE Refresh
  <2> DEFINE op == IF page = "skills" THEN "own" ELSE "list"
             e == Request(op, <<"page">>)
  <2>1. calls' = calls \o <<e>> BY <1>11 DEF Refresh, Reload
  <2>2. IsSeq(calls) BY DEF FormInv, GoodCalls
  <2> HIDE DEF e
  <2>3. calls' = Append(calls, e) BY <2>1, <2>2, JoinOne
  <2>4. e.at = "out" BY DEF e, Request
  <2>5. UNCHANGED <<page, admin, items, list, own, crossed, others, fails>>
    BY <1>11 DEF Refresh, serverVars, pageVars
  <2> QED BY <2>3, <2>4, <2>5, AskedQuiet
<1> QED BY <1>3, <1>4, <1>5, <1>6, <1>7, <1>8, <1>9, <1>10, <1>11

LEMMA NextQuiet ==
  ASSUME FormInv, QuietInv, [Next]_vars
  PROVE  QuietInv'
<1>1. CASE UNCHANGED vars BY <1>1, SameQuiet DEF vars, serverVars, pageVars, counts
<1>2. CASE Elsewhere BY <1>2 DEF Elsewhere, QuietInv, Loaded, IsList, apiVars
<1>3. CASE \E i \in DOMAIN calls : Serve(i) \/ Lost(i) BY <1>3, ServeQuiet
<1>4. CASE \E i \in DOMAIN calls : Hear(i) BY <1>4, HearQuiet
<1>5. CASE OpenConnectorForm \/ ImportRegistryConnector \/ ApplyPreset \/ (\E field \in FormBoxes : TickBox(field))
           \/ CancelForm \/ \E x \in Id : EditConnector(x) \/ EditSkill(x)
  BY <1>5, UserQuiet
<1>6. CASE SubmitConnector \/ SubmitSkill \/ SubmitImport \/ ToggleConnector \/ ToggleSkill \/ RemoveConnector
           \/ RemoveSkill \/ SaveConnectorScope \/ SaveSkillScope \/ Refresh
  BY <1>6, AskQuiet
<1> QED BY <1>1, <1>2, <1>3, <1>4, <1>5, <1>6 DEF Next

LEMMA InitQuiet == Init => QuietInv
<1> SUFFICES ASSUME Init PROVE QuietInv OBVIOUS
<1> DEFINE op == IF page = "skills" THEN "own" ELSE "list"
           e == Request(op, <<"page">>)
<1>1. calls = <<e>> /\ fails = 0 BY DEF Init, Reload
<1>2. e.at = "out" /\ e.op = op BY DEF Request
<1> HIDE DEF e
<1>3. DOMAIN calls = {1} /\ calls[1] = e BY <1>1, ShortLists
<1>4. Loaded(calls[1]) /\ ListComes(calls[1]) /\ (page = "skills" => OwnComes(calls[1]))
  BY <1>2, <1>3 DEF Loaded, ListComes, OwnComes
<1> QED BY <1>1, <1>3, <1>4 DEF QuietInv, Corrected

(* With nothing on its way the page shows what the interface would answer, *)
(* in whatever order its changes and loads went: each change is followed   *)
(* by a load, and a list that is to be replaced by a newer one is so when  *)
(* the two answers are not there at once (refresh, loadData).              *)
THEOREM QuietPagesAreRight == Spec => []QuietPageIsRight
<1>1. QuietInv => QuietPageIsRight
  BY ShortLists DEF QuietInv, Corrected, ListRight, OwnRight, QuietPageIsRight
<1> QED BY <1>1, InitQuiet, NextQuiet, FormStands, PTL DEF Spec

----------------------------------------------------------------------------
(* The task console: what holds of its requests, rows and notifications.   *)

IsCreation(c) == c.op = "create"

(* submitting keeps the user from a second creation.                       *)
OneCreation(s) == \A j, k \in DOMAIN s : IsCreation(s[j]) /\ IsCreation(s[k]) => j = k

(* After k submissions, with n rows, task t active and the effect run for  *)
(* e: a poll is about e; a creation has no row yet, or its answer is about *)
(* the newest row, which the page does not know yet.                       *)
OnItsWay(c, k, n, t, e) ==
  /\ IsRequest(c)
  /\ IsPoll(c) => c.arg[1] = e
  /\ IsCreation(c) =>
       /\ c.at = "out" => n < k /\ c.ok = FALSE
       /\ c.at = "back" /\ c.ok => c.body.id = n /\ t < n

(* Of what is on its way.  Polls about another task than the effect's are  *)
(* gone: the effect that asked for them was cleaned up.                    *)
PolledList ==
  /\ IsSeq(calls) /\ OneCreation(calls)
  /\ \A j \in DOMAIN calls : /\ OnItsWay(calls[j], submits, Len(rows), active, effect.task)
                             /\ IsCreation(calls[j]) => submitting

(* Rows, one for a submission at most.                                     *)
IsRow(r) == r = [status |-> r.status, submit |-> r.submit]

Submitted ==
  /\ IsSeq(rows) /\ Len(rows) <= submits /\ submits \in 0 .. MaxTasks
  /\ \A t \in DOMAIN rows : IsRow(rows[t]) /\ rows[t].submit \in 0 .. submits
  /\ active \in 0 .. Len(rows)
  /\ shown = [id |-> shown.id, status |-> shown.status]

(* The effect is that of the active task or of a former one, and what the  *)
(* page noted as announced was polled by it or by an effect before.        *)
EffectInv ==
  /\ effect = [task |-> effect.task, told |-> effect.told, machine |-> effect.machine]
  /\ effect.task \in 0 .. active /\ notified \in 0 .. active
  /\ effect.task # active => notified # active

(* What is polled, or will be, may be announced once more until it is.     *)
Room(t) == IF t \in {active, effect.task} /\ notified # t THEN 1 ELSE 0

(* A task that was never active was never announced; one that was, once    *)
(* for each submission from its own on, unless there is room still, and    *)
(* once more for each repetition by an effect yet to be cleaned up.        *)
Announced ==
  /\ notices \in [Task -> Nat] /\ repeats \in [Task -> Nat]
  /\ \A t \in Task : t > active => notices[t] = 0
  /\ \A t \in DOMAIN rows :
       notices[t] + Room(t) + rows[t].submit <= submits + 1 + repeats[t]

(* The inductive invariant.  What was announced is bounded through it: the *)
(* answer to a creation names a task that was not active before, and none  *)
(* of the polls still heard is about another task than the effect's.       *)
ConsoleInv == Submitted /\ EffectInv /\ PolledList /\ Announced

(* A list with one creation at most, and what asking, cleaning up and      *)
(* hearing make of it.                                                     *)
LEMMA AppendCreation ==
  ASSUME NEW s, IsSeq(s), OneCreation(s), NEW e,
         IsCreation(e) => \A j \in DOMAIN s : ~IsCreation(s[j])
  PROVE  IsSeq(Append(s, e)) /\ OneCreation(Append(s, e))
<1>1. DOMAIN s = 1 .. Len(s) /\ Len(s) \in Nat BY ListFacts
<1>2. /\ IsSeq(Append(s, e)) /\ DOMAIN Append(s, e) = 1 .. Len(s) + 1
      /\ \A j \in DOMAIN s : Append(s, e)[j] = s[j]
      /\ Append(s, e)[Len(s) + 1] = e
  BY AppendList
<1> DEFINE a == Append(s, e)
<1> HIDE DEF a
<1>3. ASSUME NEW j \in DOMAIN a, NEW k \in DOMAIN a, IsCreation(a[j]), IsCreation(a[k])
      PROVE  j = k
  <2>1. (j \in DOMAIN s \/ j = Len(s) + 1) /\ (k \in DOMAIN s \/ k = Len(s) + 1)
    BY <1>1, <1>2 DEF a
  <2> QED BY <1>2, <1>3, <2>1 DEF a, OneCreation
<1> QED BY <1>2, <1>3 DEF OneCreation, a

(* The cleanup of the polling effect leaves each other request once.       *)
LEMMA StoppedList ==
  ASSUME NEW cs, IsSeq(cs), OneCreation(cs)
  PROVE  /\ IsSeq(StopPolls(cs)) /\ OneCreation(StopPolls(cs))
         /\ \A j \in DOMAIN StopPolls(cs) :
              ~IsPoll(StopPolls(cs)[j]) /\ \E k \in DOMAIN cs : StopPolls(cs)[j] = cs[k]
<1> DEFINE S == {c \in ToSet(cs) : ~IsPoll(c)}
           n == Cardinality(S)
           f == StopPolls(cs)
<1>1. DOMAIN cs = 1 .. Len(cs) /\ Len(cs) \in Nat BY ListFacts
<1>2. \A c \in S : ~IsPoll(c) /\ \E k \in DOMAIN cs : c = cs[k] BY DEF ToSet
<1>3. IsFiniteSet(ToSet(cs))
  <2>1. IsFiniteSet(DOMAIN cs) BY <1>1, FS_Interval
  <2>2. cs \in Surjection(DOMAIN cs, ToSet(cs))
    <3>1. cs \in [DOMAIN cs -> ToSet(cs)] BY <1>1, LenProperties DEF IsSeq, ToSet
    <3> QED BY <3>1 DEF Surjection, ToSet
  <2> QED BY <2>1, <2>2, FS_Surjection
<1>4. IsFiniteSet(S) BY <1>3, FS_Subset
<1> HIDE DEF S
<1>5. n \in Nat /\ ExistsBijection(1 .. n, S) BY <1>4, FS_CardinalityType
<1> HIDE DEF n
<1>6. \E g \in [1 .. n -> S] : IsInjective(g)
  <2>1. PICK g : g \in Bijection(1 .. n, S) BY <1>5 DEF ExistsBijection
  <2> QED BY <2>1 DEF Bijection, Injection, IsInjective
<1>7. f = CHOOSE g \in [1 .. n -> S] : IsInjective(g)
  BY DEF f, StopPolls, SetToSeq, n, S
<1> HIDE DEF f
<1>8. f \in [1 .. n -> S] /\ IsInjective(f) BY <1>6, <1>7
<1>9. f \in Seq(S) BY <1>5, <1>8, SeqDef
<1>10. OneCreation(f)
  <2>1. ASSUME NEW j \in DOMAIN f, NEW k \in DOMAIN f, IsCreation(f[j]), IsCreation(f[k])
        PROVE  f[j] = f[k]
    <3>1. f[j] \in S /\ f[k] \in S BY <1>8
    <3>2. PICK i \in DOMAIN cs : f[j] = cs[i] BY <1>2, <3>1
    <3>3. PICK m \in DOMAIN cs : f[k] = cs[m] BY <1>2, <3>1
    <3> QED BY <2>1, <3>2, <3>3 DEF OneCreation
  <2> QED BY <1>8, <2>1 DEF OneCreation, IsInjective
<1>11. \A j \in DOMAIN f : ~IsPoll(f[j]) /\ \E k \in DOMAIN cs : f[j] = cs[k] BY <1>2, <1>8
<1> QED BY <1>9, <1>10, <1>11, ListOf DEF f

LEMMA RepolledList ==
  ASSUME NEW cs, IsSeq(cs), OneCreation(cs), NEW t
  PROVE  /\ IsSeq(Repoll(cs, t)) /\ OneCreation(Repoll(cs, t))
         /\ \A j \in DOMAIN Repoll(cs, t) :
              \/ Repoll(cs, t)[j] = Request("get", <<t>>)
              \/ ~IsPoll(Repoll(cs, t)[j]) /\ \E k \in DOMAIN cs : Repoll(cs, t)[j] = cs[k]
<1> DEFINE s == StopPolls(cs)
           e == Request("get", <<t>>)
<1>1. /\ IsSeq(s) /\ OneCreation(s)
      /\ \A j \in DOMAIN s : ~IsPoll(s[j]) /\ \E k \in DOMAIN cs : s[j] = cs[k]
  BY StoppedList
<1>2. ~IsCreation(e) BY FreshRequest DEF IsCreation
<1>3. Repoll(cs, t) = s \o (IF t = NoTask THEN <<>> ELSE <<e>>) BY DEF Repoll
<1> HIDE DEF s, e
<1>4. s \o <<>> = s BY <1>1, ConcatEmptySeq DEF IsSeq
<1>5. s \o <<e>> = Append(s, e) BY <1>1, JoinOne
<1>6. CASE t = NoTask BY <1>1, <1>3, <1>4, <1>6
<1>7. CASE t # NoTask
  <2>1. Repoll(cs, t) = Append(s, e) BY <1>3, <1>5, <1>7
  <2>2. IsSeq(Append(s, e)) /\ OneCreation(Append(s, e)) BY <1>1, <1>2, AppendCreation
  <2>3. \A j \in DOMAIN Append(s, e) : Append(s, e)[j] = e \/ \E k \in DOMAIN s : Append(s, e)[j] = s[k]
    <3>1. /\ DOMAIN Append(s, e) = 1 .. Len(s) + 1 /\ Append(s, e)[Len(s) + 1] = e
          /\ \A j \in DOMAIN s : Append(s, e)[j] = s[j]
      BY <1>1, AppendList
    <3>2. DOMAIN s = 1 .. Len(s) /\ Len(s) \in Nat BY <1>1, ListFacts
    <3>3. \A j \in 1 .. Len(s) + 1 : j \in 1 .. Len(s) \/ j = Len(s) + 1 BY <3>2
    <3> QED BY <3>1, <3>2, <3>3
  <2> QED BY <1>1, <2>1, <2>2, <2>3 DEF e
<1> QED BY <1>6, <1>7

(* A request that was heard; a creation was the only one.                  *)
LEMMA HeardList ==
  ASSUME IsSeq(calls), OneCreation(calls), NEW i \in DOMAIN calls
  PROVE  /\ IsSeq(Without(i, <<>>)) /\ OneCreation(Without(i, <<>>))
         /\ \A j \in DOMAIN Without(i, <<>>) :
              /\ \E k \in DOMAIN calls : Without(i, <<>>)[j] = calls[k]
              /\ IsCreation(calls[i]) => ~IsCreation(Without(i, <<>>)[j])
<1> DEFINE w == Without(i, <<>>)
           P(j) == IF j < i THEN j ELSE j + 1
<1>1. /\ IsSeq(w)
      /\ \A j \in DOMAIN w : j \in Nat /\ P(j) \in DOMAIN calls \ {i} /\ w[j] = calls[P(j)]
  BY WithoutPlaces
<1>2. i \in Nat BY ListFacts
<1> HIDE DEF w
<1>3. ASSUME NEW j \in DOMAIN w, NEW k \in DOMAIN w, IsCreation(w[j]), IsCreation(w[k])
      PROVE  j = k
  <2>1. P(j) = P(k) BY <1>1, <1>3 DEF OneCreation
  <2> QED BY <1>1, <1>2, <2>1
<1>4. ASSUME NEW j \in DOMAIN w
      PROVE  /\ \E k \in DOMAIN calls : w[j] = calls[k]
             /\ IsCreation(calls[i]) => ~IsCreation(w[j])
  <2>1. P(j) \in DOMAIN calls \ {i} /\ w[j] = calls[P(j)] BY <1>1
  <2> HIDE DEF P
  <2> QED BY <2>1 DEF OneCreation
<1> QED BY <1>1, <1>3, <1>4 DEF OneCreation, w

----------------------------------------------------------------------------
(* The steps.                                                              *)

LEMMA AskedOnItsWay ==
  ASSUME NEW k, NEW n, NEW t, NEW e, NEW op, NEW arg, op # "create",
         op \in {"get", "output"} => arg[1] = e
  PROVE  OnItsWay(Request(op, arg), k, n, t, e) /\ ~IsCreation(Request(op, arg))
<1> DEFINE c == Request(op, arg)
<1>1. IsRequest(c) /\ c.op = op /\ c.arg = arg BY DEF IsRequest, Request
<1> HIDE DEF c
<1> QED BY <1>1 DEF OnItsWay, IsPoll, IsCreation, c

(* Nothing but the status of a row changes on the server.                  *)
LEMMA RowStep ==
  ASSUME Submitted, Announced, EffectInv, NEW t \in DOMAIN rows, NEW status,
         rows' = [rows EXCEPT ![t].status = status],
         UNCHANGED <<active, shown, effect, submits, notices, repeats, notified>>
  PROVE  Submitted' /\ EffectInv' /\ Announced' /\ Len(rows') = Len(rows)
<1>1. /\ IsSeq(rows) /\ DOMAIN rows = 1 .. Len(rows) /\ Len(rows) \in Nat
      /\ rows[t] = [status |-> rows[t].status, submit |-> rows[t].submit]
  BY ListFacts DEF Submitted, IsRow
<1> DEFINE r == [rows[t] EXCEPT !.status = status]
<1>2. r = [status |-> status, submit |-> rows[t].submit] BY <1>1
<1>3. rows' = [rows EXCEPT ![t] = r] OBVIOUS
<1>4. IsRow(r) /\ r.submit = rows[t].submit BY <1>2 DEF IsRow
<1> HIDE DEF r
<1> DEFINE s == [rows EXCEPT ![t] = r]
<1>5. /\ IsSeq(s) /\ DOMAIN s = DOMAIN rows
      /\ \A u \in DOMAIN rows : s[u] = IF u = t THEN r ELSE rows[u]
  BY <1>1, ExceptList
<1>6. rows' = s BY <1>3
<1> HIDE DEF s
<1>7. Len(rows') = Len(rows) BY <1>1, <1>5, <1>6, ListFacts
<1>8. \A u \in DOMAIN rows : rows'[u].submit = rows[u].submit BY <1>4, <1>5, <1>6
<1>9. Submitted' BY <1>4, <1>5, <1>6, <1>7, <1>8 DEF Submitted, IsRow
<1>10. Announced' BY <1>5, <1>6, <1>8 DEF Announced, Room
<1>11. EffectInv' BY DEF EffectInv
<1> QED BY <1>7, <1>9, <1>10, <1>11

LEMMA CompleteStep ==
  ASSUME ConsoleInv, NEW t \in Task, Complete(t)
  PROVE  ConsoleInv'
<1>1. Submitted' /\ EffectInv' /\ Announced' /\ Len(rows') = Len(rows)
  BY RowStep DEF ConsoleInv, Complete, consolePage
<1>2. UNCHANGED <<calls, active, effect, submits, submitting>>
  BY DEF Complete, consolePage, apiVars
<1>3. PolledList' BY <1>1, <1>2 DEF ConsoleInv, PolledList
<1> QED BY <1>1, <1>3 DEF ConsoleInv

(* An answer, or none, while rows and page are as they were.               *)
LEMMA AnsweredList ==
  ASSUME ConsoleInv, NEW i \in DOMAIN calls, NEW ok, NEW body,
         Answer(i, ok, body) \/ NeverArrives(i),
         UNCHANGED consolePage,
         ~IsCreation(calls[i]) => Len(rows') = Len(rows),
         IsCreation(calls[i]) =>
           /\ calls[i].at = "out"
           /\ calls'[i].ok => body.id = Len(rows') /\ active < Len(rows')
  PROVE  PolledList'
<1>1. /\ IsSeq(calls) /\ OneCreation(calls)
      /\ \A j \in DOMAIN calls : /\ OnItsWay(calls[j], submits, Len(rows), active, effect.task)
                                 /\ IsCreation(calls[j]) => submitting
      /\ \A j \in DOMAIN calls : IsRequest(calls[j])
  BY DEF ConsoleInv, PolledList, OnItsWay
<1>2. /\ IsSeq(calls') /\ DOMAIN calls' = DOMAIN calls
      /\ \A j \in DOMAIN calls : j # i => calls'[j] = calls[j]
      /\ IsRequest(calls'[i])
      /\ calls'[i].op = calls[i].op /\ calls'[i].arg = calls[i].arg /\ calls'[i].at = "back"
      /\ \/ calls'[i].ok = ok /\ calls'[i].body = body
         \/ calls'[i].ok = calls[i].ok /\ calls'[i].body = calls[i].body
  BY <1>1, AnsweredRequest
<1>3. UNCHANGED <<active, effect, submits, submitting>>
  BY DEF consolePage
<1>4. \A j \in DOMAIN calls : IsCreation(calls'[j]) <=> IsCreation(calls[j])
  BY <1>2 DEF IsCreation
<1>5. OneCreation(calls') BY <1>1, <1>2, <1>4 DEF OneCreation
<1>6. ASSUME NEW j \in DOMAIN calls PROVE OnItsWay(calls'[j], submits, Len(rows'), active, effect.task)
  <2>1. CASE j # i /\ ~IsCreation(calls[i]) BY <1>1, <1>2, <2>1
  <2>2. CASE j # i /\ IsCreation(calls[i])
    <3>1. ~IsCreation(calls[j]) BY <1>1, <2>2 DEF OneCreation
    <3> QED BY <1>1, <1>2, <2>2, <3>1 DEF OnItsWay
  <2>3. CASE j = i /\ ~IsCreation(calls[i])
    <3>1. IsPoll(calls'[i]) <=> IsPoll(calls[i]) BY <1>2 DEF IsPoll
    <3> QED BY <1>1, <1>2, <1>4, <2>3, <3>1 DEF OnItsWay
  <2>4. CASE j = i /\ IsCreation(calls[i])
    <3>1. calls[i].ok = FALSE BY <1>1, <2>4 DEF OnItsWay
    <3>2. ~IsPoll(calls'[i]) BY <1>2, <2>4 DEF IsPoll, IsCreation
    <3>3. calls'[i].at # "out" BY <1>2
    <3>4. calls'[i].ok => calls'[i].body.id = Len(rows') /\ active < Len(rows')
      BY <1>2, <2>4, <3>1
    <3> QED BY <1>2, <2>4, <3>2, <3>3, <3>4 DEF OnItsWay
  <2> QED BY <2>1, <2>2, <2>3, <2>4
<1> QED BY <1>1, <1>2, <1>3, <1>4, <1>5, <1>6 DEF PolledList

(* A list made of what was there and of polls and cancellations.           *)
LEMMA OthersOnItsWay ==
  ASSUME PolledList, NEW s, IsSeq(s), OneCreation(s), NEW t,
         \A j \in DOMAIN s :
           \/ s[j] = Request("get", <<t>>) \/ s[j] = Request("output", <<t>>)
           \/ \E k \in DOMAIN calls : s[j] = calls[k] /\ (IsPoll(s[j]) => t = effect.task)
  PROVE  \A j \in DOMAIN s : /\ OnItsWay(s[j], submits, Len(rows), active, t)
                             /\ IsCreation(s[j]) => submitting
<1> SUFFICES ASSUME NEW j \in DOMAIN s
             PROVE  /\ OnItsWay(s[j], submits, Len(rows), active, t)
                    /\ IsCreation(s[j]) => submitting
  OBVIOUS
<1>1. CASE s[j] = Request("get", <<t>>) \/ s[j] = Request("output", <<t>>)
  BY <1>1, AskedOnItsWay
<1>2. CASE \E k \in DOMAIN calls : s[j] = calls[k] /\ (IsPoll(s[j]) => t = effect.task)
  BY <1>2 DEF PolledList, OnItsWay
<1> QED BY <1>1, <1>2

----------------------------------------------------------------------------

(* (Zenon, as SMT does not take the empty string.)                         *)
LEMMA TasksBounded == MaxTasks \in Nat BY ConsoleAssumption, Zenon

LEMMA ServeCreateStep ==
  ASSUME ConsoleInv, NEW i \in DOMAIN calls, ServeCreate(i)
  PROVE  ConsoleInv'
<1>1. /\ IsCreation(calls[i]) /\ calls[i].at = "out"
      /\ UNCHANGED consolePage
  BY DEF ServeCreate, Is, IsCreation
<1>2. /\ Len(rows) < submits /\ calls[i].ok = FALSE
      /\ \A j \in DOMAIN calls : IsRequest(calls[j])
      /\ IsSeq(calls) /\ IsSeq(rows) /\ DOMAIN rows = 1 .. Len(rows) /\ Len(rows) \in Nat
      /\ active \in 0 .. Len(rows) /\ submits \in 0 .. MaxTasks
  BY <1>1, ListFacts DEF ConsoleInv, PolledList, OnItsWay, Submitted
<1>3. /\ Len(rows) \in Nat /\ submits \in Nat /\ MaxTasks \in Nat /\ active \in Nat
      /\ Len(rows) + 1 <= submits /\ submits <= MaxTasks /\ active < Len(rows) + 1
  BY <1>2, TasksBounded
<1> DEFINE r == [status |-> "active", submit |-> submits]
           body == [id |-> Len(rows'), status |-> "active"]
<1>4. CASE rows' = Append(rows, r) /\ Answer(i, TRUE, body)
  <2>1. /\ IsSeq(rows') /\ DOMAIN rows' = 1 .. Len(rows) + 1
        /\ \A t \in DOMAIN rows : rows'[t] = rows[t]
        /\ rows'[Len(rows) + 1] = r
    BY <1>2, <1>4, AppendList
  <2>2. Len(rows') = Len(rows) + 1 BY <1>2, <2>1, ListFacts
  <2>3. body.id = Len(rows') /\ active < Len(rows') BY <1>2, <2>2
  <2>4. IsRow(r) /\ r.submit = submits BY DEF IsRow
  <2> HIDE DEF r, body
  <2>5. PolledList' BY <1>1, <1>4, <2>3, AnsweredList
  <2>6. Submitted'
    <3>1. UNCHANGED <<submits, active, shown>> BY <1>1 DEF consolePage
    <3>2. active \in 0 .. Len(rows') /\ Len(rows') <= submits /\ submits \in 0 .. submits
      BY <1>3, <2>2
    <3>3. ASSUME NEW t \in DOMAIN rows' PROVE IsRow(rows'[t]) /\ rows'[t].submit \in 0 .. submits
      <4>1. t \in DOMAIN rows \/ t = Len(rows) + 1 BY <1>2, <2>1
      <4> QED BY <2>1, <2>4, <3>2, <4>1 DEF ConsoleInv, Submitted
    <3> QED BY <2>1, <3>1, <3>2, <3>3 DEF ConsoleInv, Submitted, IsRow
  <2>8. EffectInv' BY <1>1 DEF ConsoleInv, EffectInv, consolePage
  <2>7. Announced'
    <3>1. Len(rows) + 1 \in Task /\ Len(rows) + 1 > active
      BY <1>3 DEF Task
    <3>2. notices[Len(rows) + 1] = 0 /\ active # Len(rows) + 1
      BY <1>2, <3>1 DEF ConsoleInv, Announced
    <3>3. effect.task # Len(rows) + 1 /\ repeats[Len(rows) + 1] \in Nat
      BY <1>3, <3>1 DEF ConsoleInv, EffectInv, Announced
    <3> QED BY <1>1, <1>2, <2>1, <2>4, <3>1, <3>2, <3>3 DEF ConsoleInv, Announced, Room, consolePage
  <2> QED BY <2>5, <2>6, <2>7, <2>8 DEF ConsoleInv
<1>5. CASE rows' = rows /\ Answer(i, FALSE, NoBody)
  <2>1. calls'[i].ok = FALSE BY <1>2, <1>5, AnsweredRequest
  <2>2. PolledList' BY <1>1, <1>5, <2>1, AnsweredList
  <2>3. Submitted' /\ EffectInv' /\ Announced'
    BY <1>1, <1>5 DEF ConsoleInv, Submitted, EffectInv, Announced, Room, consolePage
  <2> QED BY <2>2, <2>3 DEF ConsoleInv
<1> QED BY <1>4, <1>5 DEF ServeCreate

LEMMA SameRows ==
  ASSUME ConsoleInv, rows' = rows, UNCHANGED consolePage
  PROVE  Submitted' /\ EffectInv' /\ Announced'
BY DEF ConsoleInv, Submitted, EffectInv, Announced, Room, consolePage

LEMMA ServeOthersStep ==
  ASSUME ConsoleInv, NEW i \in DOMAIN calls, ServeRead(i) \/ ServeCancel(i) \/ LostConsole(i)
  PROVE  ConsoleInv'
<1>1. IsSeq(rows) BY DEF ConsoleInv, Submitted
<1>2. \A j \in DOMAIN calls : IsRequest(calls[j])
  BY DEF ConsoleInv, PolledList, OnItsWay
<1>3. CASE ServeRead(i)
  <2>1. ~IsCreation(calls[i]) /\ UNCHANGED <<rows, consolePage>>
    BY <1>3 DEF ServeRead, Is, IsCreation
  <2>2. \E ok, body : Answer(i, ok, body) BY <1>3 DEF ServeRead
  <2>3. PolledList' BY <2>1, <2>2, AnsweredList
  <2> QED BY <2>1, <2>3, SameRows DEF ConsoleInv
<1>4. CASE ServeCancel(i)
  <2> DEFINE t == calls[i].arg[1]
  <2>1. ~IsCreation(calls[i]) /\ UNCHANGED consolePage
    BY <1>4 DEF ServeCancel, Is, IsCreation
  <2>2. \E ok, body : Answer(i, ok, body) BY <1>4 DEF ServeCancel
  <2>3. rows' = rows \/ rows' = [rows EXCEPT ![t].status = "cancelled"] BY <1>4 DEF ServeCancel
  <2>4. CASE rows' = rows \/ t \notin DOMAIN rows
    <3>1. rows' = rows
      BY <1>1, <2>3, <2>4, ListFacts DEF IsSeq
    <3>2. PolledList' BY <2>1, <2>2, <3>1, AnsweredList
    <3> QED BY <2>1, <3>1, <3>2, SameRows DEF ConsoleInv
  <2>5. CASE rows' = [rows EXCEPT ![t].status = "cancelled"] /\ t \in DOMAIN rows
    <3>1. UNCHANGED <<active, shown, effect, submits, notices, repeats, notified>>
      BY <2>1 DEF consolePage
    <3>2. Submitted /\ EffectInv /\ Announced BY DEF ConsoleInv
    <3> HIDE DEF t
    <3>3. Submitted' /\ EffectInv' /\ Announced' /\ Len(rows') = Len(rows) BY <2>5, <3>1, <3>2, RowStep
    <3>4. PolledList' BY <2>1, <2>2, <3>3, AnsweredList
    <3> QED BY <3>3, <3>4 DEF ConsoleInv
  <2> QED BY <2>3, <2>4, <2>5
<1>5. CASE LostConsole(i)
  <2>1. UNCHANGED <<rows, consolePage>> /\ NeverArrives(i) /\ calls[i].at = "out"
    BY <1>5 DEF LostConsole, NeverArrives
  <2>2. IsCreation(calls[i]) => ~calls'[i].ok
    <3>1. IsCreation(calls[i]) => calls[i].ok = FALSE
      BY <2>1 DEF ConsoleInv, PolledList, OnItsWay
    <3>2. IsSeq(calls) BY DEF ConsoleInv, PolledList
    <3>3. Answer(i, FALSE, NoBody) \/ NeverArrives(i) BY <2>1
    <3>4. calls'[i].ok = FALSE \/ calls'[i].ok = calls[i].ok
      BY <1>2, <3>2, <3>3, AnsweredRequest
    <3> QED BY <3>1, <3>4
  <2>3. PolledList'
    <3>1. Answer(i, FALSE, NoBody) \/ NeverArrives(i) BY <2>1
    <3> QED BY <2>1, <2>2, <3>1, AnsweredList
  <2> QED BY <2>1, <2>3, SameRows DEF ConsoleInv
<1> QED BY <1>3, <1>4, <1>5

----------------------------------------------------------------------------
(* What the page hears.                                                    *)

LEMMA PollsAreOfEffect ==
  ASSUME ConsoleInv, NEW i \in DOMAIN calls, IsPoll(calls[i])
  PROVE  calls[i].arg[1] = effect.task
BY DEF ConsoleInv, PolledList, OnItsWay

LEMMA HearTaskStep ==
  ASSUME ConsoleInv, NEW i \in DOMAIN calls, HearTask(i)
  PROVE  ConsoleInv' /\ (shown' = shown \/ shown'.id = effect.task) /\ UNCHANGED <<effect, output>>
<1> DEFINE w == Without(i, <<>>)
           e == Request("output", <<effect.task>>)
<1>1. IsSeq(calls) /\ OneCreation(calls) /\ PolledList BY DEF ConsoleInv, PolledList
<1>2. /\ IsSeq(w) /\ OneCreation(w)
      /\ \A j \in DOMAIN w : \E k \in DOMAIN calls : w[j] = calls[k]
  BY <1>1, HeardList
<1>3. calls[i].arg[1] = effect.task
  BY PollsAreOfEffect DEF HearTask, Is, IsPoll
<1>4. /\ calls' = w \/ calls' = Without(i, <<e>>)
      /\ shown' = shown \/ \E status : shown' = [id |-> effect.task, status |-> status]
      /\ UNCHANGED <<rows, active, output, effect, notified, submitting, notices, repeats, submits>>
  BY <1>3 DEF HearTask
<1>5. Without(i, <<e>>) = Append(w, e) BY <1>1, WithoutAppends
<1>6. ~IsCreation(e) BY AskedOnItsWay
<1> HIDE DEF w, e
<1>7. /\ IsSeq(Append(w, e)) /\ OneCreation(Append(w, e)) BY <1>2, <1>6, AppendCreation
<1>8. \A j \in DOMAIN Append(w, e) : Append(w, e)[j] = e \/ \E k \in DOMAIN calls : Append(w, e)[j] = calls[k]
  <2>1. /\ DOMAIN Append(w, e) = 1 .. Len(w) + 1 /\ Append(w, e)[Len(w) + 1] = e
        /\ \A j \in DOMAIN w : Append(w, e)[j] = w[j]
    BY <1>2, AppendList
  <2>2. DOMAIN w = 1 .. Len(w) /\ Len(w) \in Nat BY <1>2, ListFacts
  <2>3. \A j \in 1 .. Len(w) + 1 : j \in 1 .. Len(w) \/ j = Len(w) + 1 BY <2>2
  <2> QED BY <1>2, <2>1, <2>2, <2>3
<1>9. /\ IsSeq(calls') /\ OneCreation(calls')
      /\ \A j \in DOMAIN calls' : calls'[j] = e \/ \E k \in DOMAIN calls : calls'[j] = calls[k]
  <2>1. CASE calls' = w BY <1>2, <2>1
  <2>2. CASE calls' = Append(w, e) BY <1>7, <1>8, <2>2
  <2> QED BY <1>4, <1>5, <2>1, <2>2
<1>10. \A j \in DOMAIN calls' : /\ OnItsWay(calls'[j], submits, Len(rows), active, effect.task)
                                /\ IsCreation(calls'[j]) => submitting
  BY <1>1, <1>9, OthersOnItsWay DEF e
<1>11. PolledList' BY <1>4, <1>9, <1>10 DEF PolledList
<1>12. Submitted' BY <1>4 DEF ConsoleInv, Submitted
<1>13. EffectInv' /\ Announced' BY <1>4 DEF ConsoleInv, EffectInv, Announced, Room
<1> QED BY <1>4, <1>11, <1>12, <1>13 DEF ConsoleInv

LEMMA HearOutputStep ==
  ASSUME ConsoleInv, NEW i \in DOMAIN calls, HearOutput(i)
  PROVE  ConsoleInv' /\ (output' = output \/ output' = effect.task) /\ UNCHANGED <<effect, shown>>
<1> DEFINE w == Without(i, <<>>)
           e == effect.task
<1>1. IsSeq(calls) /\ OneCreation(calls) /\ PolledList BY DEF ConsoleInv, PolledList
<1>2. /\ IsSeq(w) /\ OneCreation(w)
      /\ \A j \in DOMAIN w : \E k \in DOMAIN calls : w[j] = calls[k]
  BY <1>1, HeardList
<1>3. calls[i].arg[1] = e
  BY PollsAreOfEffect DEF HearOutput, Is, IsPoll
<1>4. /\ calls' = w
      /\ output' = output \/ output' = e
      /\ \/ UNCHANGED <<notified, notices, repeats>>
         \/ /\ notified' = e /\ notices' = [notices EXCEPT ![e] = @ + 1]
            /\ \/ notified # e /\ repeats' = repeats
               \/ notified = e /\ repeats' = [repeats EXCEPT ![e] = @ + 1]
      /\ UNCHANGED <<rows, active, shown, effect, submitting, submits>>
  BY <1>3 DEF HearOutput, ToAnnounce
<1> HIDE DEF w
<1>5. PolledList' BY <1>1, <1>2, <1>4 DEF PolledList
<1>6. Submitted' BY <1>4 DEF ConsoleInv, Submitted
<1>7. EffectInv' BY <1>4 DEF ConsoleInv, EffectInv
<1>8. Announced'
  <2>1. CASE UNCHANGED <<notified, notices, repeats>>
    BY <1>4, <2>1 DEF ConsoleInv, Announced, Room
  <2>2. CASE /\ notified' = e /\ notices' = [notices EXCEPT ![e] = @ + 1]
             /\ \/ notified # e /\ repeats' = repeats
                \/ notified = e /\ repeats' = [repeats EXCEPT ![e] = @ + 1]
    <3>1. /\ notices \in [Task -> Nat] /\ notices' \in [Task -> Nat]
          /\ repeats \in [Task -> Nat] /\ repeats' \in [Task -> Nat]
          /\ \A t \in Task : /\ notices'[t] = IF t = e THEN notices[t] + 1 ELSE notices[t]
                             /\ notices[t] \in Nat /\ repeats[t] \in Nat
                             /\ \/ notified # e /\ repeats'[t] = repeats[t]
                                \/ /\ notified = e
                                   /\ repeats'[t] = IF t = e THEN repeats[t] + 1 ELSE repeats[t]
      <4>1. notices \in [Task -> Nat] /\ repeats \in [Task -> Nat] BY DEF ConsoleInv, Announced
      <4>2. ASSUME NEW f \in [Task -> Nat], NEW g, g = [f EXCEPT ![e] = @ + 1]
            PROVE  /\ g \in [Task -> Nat]
                   /\ \A t \in Task : f[t] \in Nat /\ g[t] = IF t = e THEN f[t] + 1 ELSE f[t]
        <5>1. DOMAIN g = Task /\ g = [t \in Task |-> g[t]] BY <4>2
        <5>2. \A t \in Task : f[t] \in Nat /\ g[t] = IF t = e THEN f[t] + 1 ELSE f[t]
          BY <4>2
        <5>3. \A t \in Task : g[t] \in Nat BY <5>2
        <5> QED BY <5>1, <5>2, <5>3
      <4> HIDE DEF e
      <4> QED BY <2>2, <4>1, <4>2
    <3>2. \A t \in DOMAIN rows : t \in Task /\ rows[t].submit \in Nat /\ submits \in Nat
      <4>1. /\ DOMAIN rows = 1 .. Len(rows) /\ Len(rows) \in Nat /\ submits \in 0 .. MaxTasks
            /\ Len(rows) <= submits
        BY ListFacts DEF ConsoleInv, Submitted
      <4>2. \A t \in DOMAIN rows : t \in Task BY <4>1, TasksBounded DEF Task
      <4>3. \A t \in DOMAIN rows : rows[t].submit \in 0 .. submits BY DEF ConsoleInv, Submitted
      <4> QED BY <4>1, <4>2, <4>3, TasksBounded
    <3>3. ASSUME NEW t \in DOMAIN rows
          PROVE  notices'[t] + Room(t)' + rows'[t].submit <= submits' + 1 + repeats'[t]
      <4>1. /\ notices[t] + Room(t) + rows[t].submit <= submits + 1 + repeats[t]
            /\ notices[t] \in Nat /\ repeats[t] \in Nat /\ rows[t].submit \in Nat /\ submits \in Nat
        BY <3>1, <3>2 DEF ConsoleInv, Announced
      <4>2. rows'[t] = rows[t] /\ submits' = submits BY <1>4
      <4>3. Room(t) \in {0, 1} /\ Room(t)' \in {0, 1} BY DEF Room
      <4>4. CASE t = e
        <5>1. Room(t)' = 0 BY <2>2, <4>4, <1>4 DEF Room
        <5>2. CASE notified # e
          <6>1. Room(t) = 1 BY <4>4, <5>2 DEF Room
          <6>2. notices'[t] = notices[t] + 1 /\ repeats'[t] = repeats[t] BY <3>1, <3>2, <4>4, <5>2
          <6> HIDE DEF Room
          <6> QED BY <4>1, <4>2, <5>1, <6>1, <6>2
        <5>3. CASE notified = e
          <6>1. notices'[t] = notices[t] + 1 /\ repeats'[t] = repeats[t] + 1 BY <3>1, <3>2, <4>4, <5>3
          <6> HIDE DEF Room
          <6> QED BY <4>1, <4>2, <4>3, <5>1, <6>1
        <5> QED BY <5>2, <5>3
      <4>5. CASE t # e
        <5>1. notices'[t] = notices[t] /\ repeats'[t] = repeats[t] BY <3>1, <3>2, <4>5
        <5>2. Room(t)' = Room(t)
          BY <1>4, <2>2, <4>5 DEF Room, ConsoleInv, EffectInv
        <5> HIDE DEF Room
        <5> QED BY <4>1, <4>2, <5>1, <5>2
      <4> QED BY <4>4, <4>5
    <3>4. active \in Int /\ e \in Int /\ e <= active
      BY ListFacts DEF ConsoleInv, Submitted, EffectInv
    <3>5. \A t \in Task : t > active' => notices'[t] = 0
      BY <1>4, <3>1, <3>4 DEF ConsoleInv, Announced, Task
    <3> QED BY <1>4, <3>1, <3>3, <3>5 DEF Announced
  <2> QED BY <1>4, <2>1, <2>2
<1> QED BY <1>4, <1>5, <1>6, <1>7, <1>8 DEF ConsoleInv

LEMMA HearCreatedStep ==
  ASSUME ConsoleInv, NEW i \in DOMAIN calls, HearCreated(i)
  PROVE  ConsoleInv' /\ UNCHANGED <<shown, output>>
<1> DEFINE w == Without(i, <<>>)
<1>1. IsSeq(calls) /\ OneCreation(calls) /\ PolledList BY DEF ConsoleInv, PolledList
<1>2. IsCreation(calls[i]) /\ calls[i].at = "back" BY DEF HearCreated, Is, IsCreation
<1>3. /\ IsSeq(w) /\ OneCreation(w)
      /\ \A j \in DOMAIN w : ~IsCreation(w[j]) /\ \E k \in DOMAIN calls : w[j] = calls[k]
  BY <1>1, <1>2, HeardList
<1>4. /\ calls' = w
      /\ (calls[i].ok /\ active' = calls[i].body.id) \/ active' = active
      /\ UNCHANGED <<rows, shown, output, effect, notified, notices, repeats, submits>>
  BY DEF HearCreated
<1> HIDE DEF w
<1>5. PolledList'
  <2>1. \A j \in DOMAIN w : OnItsWay(w[j], submits, Len(rows), active', effect.task) /\ ~IsCreation(w[j])
    BY <1>1, <1>3 DEF PolledList, OnItsWay
  <2> QED BY <1>3, <1>4, <2>1 DEF PolledList
<1>6. /\ DOMAIN rows = 1 .. Len(rows) /\ Len(rows) \in Nat /\ submits \in Nat
      /\ active \in 0 .. Len(rows) /\ Len(rows) <= submits /\ submits <= MaxTasks
      /\ \A t \in DOMAIN rows : rows[t].submit \in 0 .. submits
  BY ListFacts, TasksBounded DEF ConsoleInv, Submitted
<1>7. CASE active' = Len(rows) /\ active < Len(rows)
  <2>1. Submitted' BY <1>4, <1>6, <1>7 DEF ConsoleInv, Submitted
  <2>2. EffectInv' BY <1>4, <1>6, <1>7 DEF ConsoleInv, EffectInv
  <2>3. Announced'
    <3>1. /\ notices \in [Task -> Nat] /\ repeats \in [Task -> Nat]
          /\ \A t \in Task : t > active => notices[t] = 0
          /\ \A t \in DOMAIN rows : notices[t] + Room(t) + rows[t].submit <= submits + 1 + repeats[t]
      BY DEF ConsoleInv, Announced
    <3>2. \A t \in Task : t > active' => notices[t] = 0
      <4>1. \A t \in Task : t \in Int /\ (t > active' => t > active) BY <1>6, <1>7 DEF Task
      <4> QED BY <3>1, <4>1
    <3>3. ASSUME NEW t \in DOMAIN rows
          PROVE  notices[t] + Room(t)' + rows[t].submit <= submits + 1 + repeats[t]
      <4>1. /\ t \in Task /\ notices[t] \in Nat /\ repeats[t] \in Nat
            /\ rows[t].submit \in Nat /\ rows[t].submit <= submits
        <5>1. t \in Task BY <1>6, TasksBounded DEF Task
        <5>2. rows[t].submit \in 0 .. submits BY <1>6
        <5>3. rows[t].submit \in Nat /\ rows[t].submit <= submits BY <1>6, <5>2
        <5> QED BY <3>1, <5>1, <5>3
      <4>4. submits \in Int BY <1>6
      <4>2. CASE t = active'
        <5>1. notices[t] = 0 /\ Room(t)' \in {0, 1}
          BY <1>6, <1>7, <3>1, <4>1, <4>2 DEF Room
        <5> HIDE DEF Room
        <5> QED BY <4>1, <4>4, <5>1
      <4>3. CASE t # active'
        <5>1. Room(t)' \in {0, 1} /\ Room(t) \in {0, 1} /\ (Room(t)' = 1 => Room(t) = 1)
          BY <1>4, <4>3 DEF Room
        <5>2. notices[t] + Room(t) + rows[t].submit <= submits + 1 + repeats[t] BY <3>1
        <5> HIDE DEF Room
        <5> QED BY <4>1, <4>4, <5>1, <5>2
      <4> QED BY <4>2, <4>3
    <3> QED BY <1>4, <3>1, <3>2, <3>3 DEF Announced
  <2> QED BY <1>4, <1>5, <2>1, <2>2, <2>3 DEF ConsoleInv
<1>8. CASE active' = active
  <2>1. Submitted' BY <1>4, <1>8 DEF ConsoleInv, Submitted
  <2>2. EffectInv' /\ Announced' BY <1>4, <1>8 DEF ConsoleInv, EffectInv, Announced, Room
  <2> QED BY <1>4, <1>5, <2>1, <2>2 DEF ConsoleInv
<1>9. calls[i].ok => calls[i].body.id = Len(rows) /\ active < Len(rows)
  BY <1>1, <1>2 DEF PolledList, OnItsWay
<1> QED BY <1>4, <1>7, <1>8, <1>9

LEMMA HearCancelledStep ==
  ASSUME ConsoleInv, NEW i \in DOMAIN calls, HearCancelled(i)
  PROVE  ConsoleInv' /\ shown'.id = shown.id /\ UNCHANGED output
<1> DEFINE w == Without(i, <<>>)
<1>1. IsSeq(calls) /\ OneCreation(calls) /\ PolledList BY DEF ConsoleInv, PolledList
<1>2. /\ IsSeq(w) /\ OneCreation(w)
      /\ \A j \in DOMAIN w : \E k \in DOMAIN calls : w[j] = calls[k]
  BY <1>1, HeardList
<1>3. shown = [id |-> shown.id, status |-> shown.status] BY DEF ConsoleInv, Submitted
<1>4. /\ calls' = w
      /\ shown' = shown \/ shown' = [shown EXCEPT !.status = "cancelled"]
      /\ UNCHANGED <<rows, active, output, effect, notified, submitting, notices, repeats, submits>>
  BY DEF HearCancelled
<1> HIDE DEF w
<1>5. shown'.id = shown.id /\ shown' = [id |-> shown'.id, status |-> shown'.status]
  <2>1. CASE shown' = shown BY <1>3, <2>1
  <2>2. CASE shown' = [shown EXCEPT !.status = "cancelled"]
    <3>1. shown' = [id |-> shown.id, status |-> "cancelled"] BY <1>3, <2>2
    <3> QED BY <3>1
  <2> QED BY <1>4, <2>1, <2>2
<1>6. PolledList' BY <1>1, <1>2, <1>4 DEF PolledList
<1>7. Submitted' BY <1>4, <1>5 DEF ConsoleInv, Submitted
<1>8. EffectInv' /\ Announced' BY <1>4 DEF ConsoleInv, EffectInv, Announced, Room
<1> QED BY <1>4, <1>5, <1>6, <1>7, <1>8 DEF ConsoleInv

----------------------------------------------------------------------------
(* What the user does, and the interval.                                   *)

(* One request more, that is no creation.                                  *)
LEMMA AskedList ==
  ASSUME PolledList, NEW op, NEW arg, op # "create",
         op \in {"get", "output"} => arg[1] = effect.task,
         calls' = Append(calls, Request(op, arg)),
         UNCHANGED <<rows, active, effect, submits, submitting>>
  PROVE  PolledList'
<1> DEFINE e == Request(op, arg)
<1>1. /\ IsSeq(calls) /\ OneCreation(calls)
      /\ \A j \in DOMAIN calls : /\ OnItsWay(calls[j], submits, Len(rows), active, effect.task)
                                 /\ IsCreation(calls[j]) => submitting
  BY DEF PolledList
<1>2. OnItsWay(e, submits, Len(rows), active, effect.task) /\ ~IsCreation(e) BY AskedOnItsWay
<1> HIDE DEF e
<1>3. IsSeq(Append(calls, e)) /\ OneCreation(Append(calls, e)) BY <1>1, <1>2, AppendCreation
<1>4. /\ DOMAIN Append(calls, e) = 1 .. Len(calls) + 1
      /\ \A j \in DOMAIN calls : Append(calls, e)[j] = calls[j]
      /\ Append(calls, e)[Len(calls) + 1] = e
  BY <1>1, AppendList
<1>5. \A j \in 1 .. Len(calls) + 1 : j \in DOMAIN calls \/ j = Len(calls) + 1
  BY <1>1, ListFacts
<1>6. calls' = Append(calls, e) BY DEF e
<1> QED BY <1>1, <1>2, <1>3, <1>4, <1>5, <1>6 DEF PolledList

(* The polling effect runs again, for the active task.                     *)
LEMMA RepolledCalls ==
  ASSUME PolledList
  PROVE  LET p == Repoll(calls, active)
         IN /\ IsSeq(p) /\ OneCreation(p)
            /\ \A j \in DOMAIN p : /\ OnItsWay(p[j], submits, Len(rows), active, active)
                                   /\ IsCreation(p[j]) => submitting
<1> DEFINE p == Repoll(calls, active)
<1>1. /\ IsSeq(p) /\ OneCreation(p)
      /\ \A j \in DOMAIN p : \/ p[j] = Request("get", <<active>>)
                             \/ ~IsPoll(p[j]) /\ \E k \in DOMAIN calls : p[j] = calls[k]
  BY RepolledList DEF PolledList
<1> HIDE DEF p
<1>2. \A j \in DOMAIN p : /\ OnItsWay(p[j], submits, Len(rows), active, active)
                          /\ IsCreation(p[j]) => submitting
  BY <1>1, OthersOnItsWay
<1> QED BY <1>1, <1>2 DEF p

LEMMA RerunStep ==
  ASSUME ConsoleInv, Rerun
  PROVE  ConsoleInv' /\ UNCHANGED <<shown, output>>
<1>1. /\ calls' = Repoll(calls, active) /\ effect' = Deps
      /\ UNCHANGED <<rows, active, shown, output, notified, submitting, notices, repeats, submits>>
  BY DEF Rerun
<1>2. effect' = [task |-> active, told |-> notified, machine |-> selected] BY <1>1 DEF Deps
<1>3. /\ effect'.task = active
      /\ effect' = [task |-> effect'.task, told |-> effect'.told, machine |-> effect'.machine]
  BY <1>2
<1>4. PolledList' BY <1>1, <1>3, RepolledCalls DEF ConsoleInv, PolledList
<1>5. Submitted' BY <1>1 DEF ConsoleInv, Submitted
<1>6. EffectInv'
  <2>1. active \in Nat BY ListFacts DEF ConsoleInv, Submitted
  <2> QED BY <1>1, <1>3, <2>1 DEF ConsoleInv, EffectInv
<1>7. Announced'
  <2>1. ASSUME NEW t \in DOMAIN rows
        PROVE  notices[t] + Room(t)' + rows[t].submit <= submits + 1 + repeats[t]
    <3>1. /\ notices[t] + Room(t) + rows[t].submit <= submits + 1 + repeats[t]
          /\ notices[t] \in Nat /\ repeats[t] \in Nat /\ rows[t].submit \in Nat /\ submits \in Nat
      <4>1. /\ DOMAIN rows = 1 .. Len(rows) /\ Len(rows) \in Nat /\ submits \in 0 .. MaxTasks
            /\ Len(rows) <= submits /\ rows[t].submit \in 0 .. submits
        BY ListFacts DEF ConsoleInv, Submitted
      <4>2. t \in Task BY <4>1, TasksBounded DEF Task
      <4> QED BY <4>1, <4>2, TasksBounded DEF ConsoleInv, Announced
    <3>2. Room(t) \in {0, 1} /\ Room(t)' \in {0, 1} /\ (Room(t)' = 1 => Room(t) = 1)
      BY <1>1, <1>3 DEF Room
    <3> HIDE DEF Room
    <3> QED BY <3>1, <3>2
  <2> QED BY <1>1, <2>1 DEF ConsoleInv, Announced
<1> QED BY <1>1, <1>4, <1>5, <1>6, <1>7 DEF ConsoleInv

LEMMA ChangeMachineStep ==
  ASSUME ConsoleInv, NEW m, ChangeMachine(m)
  PROVE  ConsoleInv' /\ UNCHANGED <<shown, output>>
<1>1. UNCHANGED <<rows, calls, active, shown, output, effect, notified, submitting, notices, repeats,
                  submits>>
  BY DEF ChangeMachine, apiVars
<1>2. PolledList' /\ EffectInv' BY <1>1 DEF ConsoleInv, PolledList, EffectInv
<1>3. Submitted' BY <1>1 DEF ConsoleInv, Submitted
<1>4. Announced' BY <1>1 DEF ConsoleInv, Announced, Room
<1> QED BY <1>1, <1>2, <1>3, <1>4 DEF ConsoleInv

LEMMA AskingStep ==
  ASSUME ConsoleInv, Tick \/ \E t \in Task : CancelTask(t)
  PROVE  ConsoleInv' /\ UNCHANGED <<shown, output>>
<1>1. /\ \/ calls' = Append(calls, Request("get", <<effect.task>>))
         \/ \E t : calls' = Append(calls, Request("cancel", <<t>>))
      /\ UNCHANGED <<rows, active, shown, output, effect, notified, submitting, notices, repeats,
                     submits>>
  BY DEF Tick, CancelTask, consolePage
<1>2. PolledList'
  <2>1. CASE calls' = Append(calls, Request("get", <<effect.task>>))
    BY <1>1, <2>1, AskedList DEF ConsoleInv
  <2>2. CASE \E t : calls' = Append(calls, Request("cancel", <<t>>))
    BY <1>1, <2>2, AskedList DEF ConsoleInv
  <2> QED BY <1>1, <2>1, <2>2
<1>3. Submitted' BY <1>1 DEF ConsoleInv, Submitted
<1>4. EffectInv' /\ Announced' BY <1>1 DEF ConsoleInv, EffectInv, Announced, Room
<1> QED BY <1>1, <1>2, <1>3, <1>4 DEF ConsoleInv

LEMMA SubmitTaskStep ==
  ASSUME ConsoleInv, SubmitTask
  PROVE  ConsoleInv' /\ shown' = Nothing /\ output' = NoTask
<1>1. /\ submits < MaxTasks /\ submits' = submits + 1 /\ ~submitting /\ submitting' = TRUE
      /\ shown' = Nothing /\ output' = NoTask /\ notified' = NoTask
      /\ effect.task = active /\ effect' = [effect EXCEPT !.told = NoTask]
      /\ UNCHANGED <<rows, active, notices, repeats>>
  BY Zenon DEF SubmitTask, CanSubmit
<1>2. \E arg : calls' = (IF effect' = effect THEN calls ELSE Repoll(calls, active))
                        \o <<Request("create", arg)>>
  BY Zenon DEF SubmitTask
<1> DEFINE s == IF effect' = effect THEN calls ELSE Repoll(calls, active)
<1>3. /\ IsSeq(s) /\ OneCreation(s)
      /\ \A j \in DOMAIN s : OnItsWay(s[j], submits, Len(rows), active, active) /\ ~IsCreation(s[j])
  BY <1>1, RepolledCalls DEF ConsoleInv, PolledList
<1>16. effect' = [task |-> active, told |-> NoTask, machine |-> effect.machine]
  BY <1>1 DEF ConsoleInv, EffectInv
<1>17. effect'.task = active /\ effect' = [task |-> effect'.task, told |-> effect'.told, machine |-> effect'.machine]
  BY <1>16
<1>4. PICK arg : calls' = s \o <<Request("create", arg)>> BY <1>2
<1> DEFINE e == Request("create", arg)
<1>5. IsRequest(e) /\ e.op = "create" /\ e.at = "out" /\ e.ok = FALSE
  BY DEF IsRequest, Request
<1> HIDE DEF s, e
<1>6. calls' = Append(s, e) BY <1>3, <1>4, JoinOne DEF e
<1>7. IsSeq(Append(s, e)) /\ OneCreation(Append(s, e)) BY <1>3, AppendCreation
<1>8. /\ DOMAIN Append(s, e) = 1 .. Len(s) + 1
      /\ \A j \in DOMAIN s : Append(s, e)[j] = s[j]
      /\ Append(s, e)[Len(s) + 1] = e
  BY <1>3, AppendList
<1>9. \A j \in 1 .. Len(s) + 1 : j \in DOMAIN s \/ j = Len(s) + 1
  BY <1>3, ListFacts
<1>10. /\ Len(rows) \in Nat /\ Len(rows) <= submits /\ submits \in Nat /\ submits <= MaxTasks
       /\ MaxTasks \in Nat /\ DOMAIN rows = 1 .. Len(rows)
  BY TasksBounded, ListFacts DEF ConsoleInv, Submitted
<1>11. OnItsWay(e, submits + 1, Len(rows), active, active)
  BY <1>5, <1>10 DEF OnItsWay, IsPoll
<1>12. \A j \in DOMAIN s : OnItsWay(s[j], submits + 1, Len(rows), active, active)
  BY <1>3 DEF OnItsWay
<1>13. PolledList'
  BY <1>1, <1>6, <1>7, <1>8, <1>9, <1>11, <1>12, <1>17 DEF PolledList
<1>14. Submitted'
  <2>1. \A t \in DOMAIN rows : IsRow(rows[t]) /\ rows[t].submit \in 0 .. submits + 1
    <3>1. \A t \in DOMAIN rows : IsRow(rows[t]) /\ rows[t].submit \in 0 .. submits
      BY DEF ConsoleInv, Submitted
    <3> QED BY <1>10, <3>1
  <2>2. shown' = [id |-> shown'.id, status |-> shown'.status] BY <1>1 DEF Nothing
  <2>3. submits + 1 \in 0 .. MaxTasks /\ Len(rows) <= submits + 1 BY <1>1, <1>10
  <2> QED BY <1>1, <2>1, <2>2, <2>3 DEF ConsoleInv, Submitted
<1>15. Announced'
  <2>1. /\ notices \in [Task -> Nat] /\ repeats \in [Task -> Nat]
        /\ \A t \in Task : t > active => notices[t] = 0
        /\ \A t \in DOMAIN rows : notices[t] + Room(t) + rows[t].submit <= submits + 1 + repeats[t]
    BY DEF ConsoleInv, Announced
  <2>2. ASSUME NEW t \in DOMAIN rows
        PROVE  notices[t] + Room(t)' + rows[t].submit <= (submits + 1) + 1 + repeats[t]
    <3>1. t \in Task BY <1>10 DEF Task
    <3>2. notices[t] \in Nat /\ repeats[t] \in Nat /\ rows[t].submit \in 0 .. submits
      BY <2>1, <3>1 DEF ConsoleInv, Submitted
    <3>3. Room(t) \in {0, 1} /\ Room(t)' \in {0, 1} BY DEF Room
    <3>4. notices[t] + Room(t) + rows[t].submit <= submits + 1 + repeats[t] BY <2>1
    <3>5. rows[t].submit \in Int /\ submits \in Int BY <1>10, <3>2
    <3> HIDE DEF Room
    <3> QED BY <3>2, <3>3, <3>4, <3>5
  <2> QED BY <1>1, <2>1, <2>2 DEF Announced
<1>18. EffectInv' BY <1>1, <1>10, <1>17 DEF ConsoleInv, Submitted, EffectInv, NoTask
<1> QED BY <1>1, <1>13, <1>14, <1>15, <1>18 DEF ConsoleInv

----------------------------------------------------------------------------

(* What no step may do to the result panel.                                *)
StaysAway ==
  /\ shown' # shown => shown'.id \in {NoTask, shown.id, effect'.task}
  /\ output' # output => output' \in {NoTask, effect'.task}

LEMMA ConsoleStep ==
  ASSUME ConsoleInv, ConsoleNext
  PROVE  ConsoleInv' /\ StaysAway
<1>1. ASSUME NEW t \in Task, Complete(t) PROVE ConsoleInv' /\ StaysAway
  <2>1. UNCHANGED <<shown, output>> BY <1>1 DEF Complete, consolePage
  <2> QED BY <1>1, <2>1, CompleteStep DEF StaysAway
<1>2. ASSUME NEW i \in DOMAIN calls, ServeConsole(i) \/ LostConsole(i)
      PROVE  ConsoleInv' /\ StaysAway
  <2>1. UNCHANGED <<shown, output>>
    BY <1>2 DEF ServeConsole, ServeCreate, ServeRead, ServeCancel, LostConsole, consolePage
  <2>2. ConsoleInv' BY <1>2, ServeCreateStep, ServeOthersStep DEF ServeConsole
  <2> QED BY <2>1, <2>2 DEF StaysAway
<1>3. ASSUME NEW i \in DOMAIN calls, HearConsole(i) PROVE ConsoleInv' /\ StaysAway
  <2>1. CASE HearTask(i) BY <2>1, HearTaskStep DEF StaysAway
  <2>2. CASE HearOutput(i) BY <2>2, HearOutputStep DEF StaysAway
  <2>3. CASE HearCreated(i) BY <2>3, HearCreatedStep DEF StaysAway
  <2>4. CASE HearCancelled(i) BY <2>4, HearCancelledStep DEF StaysAway
  <2> QED BY <1>3, <2>1, <2>2, <2>3, <2>4 DEF HearConsole
<1>4. ASSUME NEW m, ChangeMachine(m) PROVE ConsoleInv' /\ StaysAway
  BY <1>4, ChangeMachineStep DEF StaysAway
<1>5. ASSUME Tick \/ \E t \in Task : CancelTask(t) PROVE ConsoleInv' /\ StaysAway
  BY <1>5, AskingStep DEF StaysAway
<1>6. ASSUME SubmitTask PROVE ConsoleInv' /\ StaysAway
  BY <1>6, SubmitTaskStep DEF StaysAway, Nothing
<1>7. ASSUME Rerun PROVE ConsoleInv' /\ StaysAway
  BY <1>7, RerunStep DEF StaysAway
<1> QED BY <1>1, <1>2, <1>3, <1>4, <1>5, <1>6, <1>7, Zenon DEF ConsoleNext

LEMMA ConsoleStart == ConsoleInit => ConsoleInv
<1> SUFFICES ASSUME ConsoleInit PROVE ConsoleInv OBVIOUS
<1>1. /\ rows = <<>> /\ active = NoTask /\ shown = Nothing /\ notified = NoTask
      /\ notices = [t \in Task |-> 0] /\ repeats = notices /\ submits = 0 /\ calls = <<>>
      /\ effect = [task |-> active, told |-> notified, machine |-> selected]
  BY Zenon DEF ConsoleInit, Deps
<1>2. Len(rows) = 0 /\ DOMAIN rows = {} /\ IsSeq(rows) /\ DOMAIN calls = {} /\ IsSeq(calls)
  BY <1>1, ShortLists
<1>3. Submitted BY <1>1, <1>2, TasksBounded DEF Submitted, NoTask, Nothing
<1>4. PolledList BY <1>2 DEF PolledList, OneCreation
<1>5. Announced BY <1>1, <1>2 DEF Announced
<1>6. EffectInv BY <1>1 DEF EffectInv, NoTask
<1> QED BY <1>3, <1>4, <1>5, <1>6 DEF ConsoleInv

LEMMA ConsoleHolds == ConsoleSpec => []ConsoleInv
<1>1. ConsoleInv /\ [ConsoleNext]_consoleVars => ConsoleInv'
  <2> SUFFICES ASSUME ConsoleInv, [ConsoleNext]_consoleVars PROVE ConsoleInv' OBVIOUS
  <2>1. CASE ConsoleNext BY <2>1, ConsoleStep
  <2>2. CASE UNCHANGED consoleVars
    BY <2>2 DEF consoleVars, consolePage, apiVars, ConsoleInv, Submitted, PolledList,
                EffectInv, Announced, Room
  <2> QED BY <2>1, <2>2
<1> QED BY <1>1, ConsoleStart, PTL DEF ConsoleSpec

(* A task is announced at most once for each time the user submits, its    *)
(* own submission first (pollTask, notifiedTaskId, submitTask), and again  *)
(* only by polls of an effect that is yet to be cleaned up, whatever polls *)
(* overlap or fail and however often the polling effect runs again.        *)
THEOREM TasksAnnouncedOnce == ConsoleSpec => []AnnouncedOncePerSubmission
<1>1. ConsoleInv => AnnouncedOncePerSubmission
  <2> SUFFICES ASSUME ConsoleInv, NEW t \in DOMAIN rows
               PROVE  notices[t] <= submits - rows[t].submit + 1 + repeats[t]
    BY DEF AnnouncedOncePerSubmission
  <2>1. /\ DOMAIN rows = 1 .. Len(rows) /\ Len(rows) \in Nat /\ Len(rows) <= submits
        /\ submits \in 0 .. MaxTasks /\ rows[t].submit \in 0 .. submits
    BY ListFacts DEF ConsoleInv, Submitted
  <2>2. t \in Task BY <2>1, TasksBounded DEF Task
  <2>3. /\ notices[t] \in Nat /\ repeats[t] \in Nat
        /\ notices[t] + Room(t) + rows[t].submit <= submits + 1 + repeats[t]
    BY <2>2 DEF ConsoleInv, Announced
  <2>4. Room(t) \in {0, 1} BY DEF Room
  <2>5. rows[t].submit \in Int /\ submits \in Int BY <2>1, TasksBounded
  <2> HIDE DEF Room
  <2> QED BY <2>3, <2>4, <2>5
<1> QED BY <1>1, ConsoleHolds, PTL

(* No answer about a former task brings it, or its output, back into the   *)
(* result panel (pollTask's stopped, the polling effect's cleanup).        *)
THEOREM FormerTasksStayAway == ConsoleSpec => FormerTaskStaysAway
<1>1. ConsoleInv /\ [ConsoleNext]_consoleVars => [StaysAway]_consoleVars
  BY ConsoleStep
<1>2. [][StaysAway]_consoleVars => FormerTaskStaysAway
  BY PTL DEF FormerTaskStaysAway, StaysAway
<1> QED BY <1>1, <1>2, ConsoleHolds, PTL DEF ConsoleSpec
=============================================================================
