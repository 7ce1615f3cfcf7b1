------------------------------ MODULE Catalog ------------------------------
(***************************************************************************)
(* The pages where an administrator keeps what the agent may use: the      *)
(* connectors (web/app/admin/connectors) and the skills (web/app/skills),  *)
(* with the server behind them (server/app/connector_admin.py, skills.py). *)
(* One page is open.  Other administrators change the same items.  A       *)
(* handler's session is one step: it reads one row and commits it.         *)
(*                                                                         *)
(* Of an item, what is kept is whether it is enabled (a skill: for the     *)
(* page's user), whether its calls need an approval (connectors) and who   *)
(* may use it; names, commands, prompts and credentials are left out, and  *)
(* so are search and filters.                                              *)
(***************************************************************************)
EXTENDS ApiCalls, FiniteSets

CONSTANTS
  User, Me,       \* users, and the one who has the page open
  MaxItems,       \* bound: items, numbered as they are created
  MaxActs         \* bound: what the page's user asks for or changes in the form,
                  \* and what others change

ASSUME CatalogAssumption ==
  /\ Me \in User
  /\ {MaxItems, MaxActs} \subseteq Nat

VARIABLES
  page,      \* "connectors" or "skills"
  admin,     \* the page's user is one (the skills page is for others too)
  items,     \* the tables connectors, skills: of each that there is, its Item
  created,   \* how many there ever were: a new id is another one
  list,      \* the page's connectors, adminSkills
  own,       \* the skills page's skills, NoBody until they are there
  form,      \* the form: editingId, its fields, and what they come from (history)
  toggling,  \* togglingId
  crossed,   \* two lists were on their way at once (history)
  acts,
  others     \* another administrator made a change (history)

serverVars == <<items, created>>
pageVars == <<list, own, form, toggling, crossed>>
counts == <<acts, others>>
vars == <<page, admin, serverVars, pageVars, counts, apiVars>>

Id == 1 .. MaxItems
NoItem == 0

(* ver counts the item's changes (history).                                *)
Item == [enabled : BOOLEAN, approval : BOOLEAN, all : BOOLEAN, users : SUBSET User, ver : Nat]

(* The boxes of the connector's form; a skill's has the last.              *)
FormBoxes == {"enabled", "approval", "all"}

PageBoxes == IF page = "connectors" THEN FormBoxes ELSE {"all"}

(* id is editingId.  Name and command are those of the item program, or of *)
(* an entry of the market, or else of a preset or blank.  The history:     *)
(* seen is the version whose fields were loaded, touched the boxes changed *)
(* by hand since.                                                          *)
NoForm == [open |-> FALSE, id |-> NoItem, program |-> NoItem, market |-> FALSE,
           enabled |-> TRUE, approval |-> FALSE, all |-> FALSE, seen |-> 0, touched |-> {}]

(* Nobody is given a new item by name.  A connector is created enabled,    *)
(* whatever the form says; a skill is off until its user switches it on.   *)
NewItem(enabled, approval, all) ==
  [enabled |-> enabled, approval |-> approval, all |-> all, users |-> {}, ver |-> 1]

(* refresh, loadData: the skills page first asks for the user's own.       *)
Reload(tag) == <<Request(IF page = "skills" THEN "own" ELSE "list", <<tag>>)>>

Init ==
  /\ page \in {"connectors", "skills"}
  /\ admin \in BOOLEAN /\ (page = "connectors" => admin)   \* AdminGuard
  /\ \E approval \in BOOLEAN, all \in BOOLEAN :
       /\ page = "skills" => ~approval
       /\ items = [x \in {1} |-> NewItem(page = "connectors", approval, all)]
  /\ created = 1
  /\ list = <<>> /\ own = NoBody /\ form = NoForm /\ toggling = NoItem /\ crossed = FALSE
  /\ acts = 0 /\ others = FALSE
  /\ calls = Reload("page") /\ fails = 0

----------------------------------------------------------------------------
(* The interface.                                                          *)

Arg(i) == calls[i].arg

(* The fields of a form that is saved.                                     *)
Sent(i) == Arg(i)[2]

(* toggle_skill, my_skills.                                                *)
Authorized(x) == items[x].all \/ Me \in items[x].users

Allowed(e) == [x \in {x \in DOMAIN e : e[x].all \/ Me \in e[x].users} |-> e[x]]

Adds(item) ==
  /\ created < MaxItems
  /\ created' = created + 1
  /\ items' = [x \in DOMAIN items \cup {created'} |-> IF x \in DOMAIN items THEN items[x] ELSE item]

Changes(x, item) == items' = [items EXCEPT ![x] = [item EXCEPT !.ver = items[x].ver + 1]] /\ UNCHANGED created

Removes(x) == items' = [y \in DOMAIN items \ {x} |-> items[y]] /\ UNCHANGED created

(* The handler makes its change and says so, or refuses: an item that is   *)
(* not there, a field that is blank, a name that another has.              *)
Says(i, may, change) ==
  /\ \/ may /\ change /\ Answer(i, TRUE, NoBody)
     \/ Answer(i, FALSE, NoBody) /\ UNCHANGED serverVars
  /\ UNCHANGED <<page, admin, pageVars, counts>>

(* The same for what is refused only when it may not be.                   *)
Decides(i, may, change) ==
  /\ IF may THEN change /\ Answer(i, TRUE, NoBody)
            ELSE Answer(i, FALSE, NoBody) /\ UNCHANGED serverVars
  /\ UNCHANGED <<page, admin, pageVars, counts>>

There(i) == Arg(i)[1] \in DOMAIN items

CreateConnector(i) ==
  /\ page = "connectors" /\ Is(i, "create", "out")
  /\ Says(i, TRUE, Adds(NewItem(TRUE, Sent(i).approval, Sent(i).all)))

(* With the form's fields, or with nothing but enabled.                    *)
UpdateConnector(i) ==
  LET x == Arg(i)[1] IN
  /\ page = "connectors"
  /\ \/ /\ Is(i, "update", "out")
        /\ Says(i, There(i), Changes(x, [items[x] EXCEPT !.enabled = Sent(i).enabled,
                                        !.approval = Sent(i).approval, !.all = Sent(i).all]))
     \/ /\ Is(i, "switch", "out")
        /\ Decides(i, There(i), Changes(x, [items[x] EXCEPT !.enabled = Arg(i)[2]]))

DeleteConnector(i) ==
  /\ page = "connectors" /\ Is(i, "delete", "out")
  /\ Decides(i, There(i), Removes(Arg(i)[1]))

PutConnectorScope(i) ==
  /\ page = "connectors" /\ Is(i, "scope", "out")
  /\ Decides(i, There(i), Changes(Arg(i)[1], [items[Arg(i)[1]] EXCEPT !.users = Arg(i)[2]]))

CreateSkill(i) ==
  /\ page = "skills" /\ Is(i, "create", "out")
  /\ Says(i, TRUE, Adds(NewItem(FALSE, FALSE, Sent(i).all)))

UpdateSkill(i) ==
  LET x == Arg(i)[1] IN
  /\ page = "skills" /\ Is(i, "update", "out")
  /\ Says(i, There(i), Changes(x, [items[x] EXCEPT !.all = Sent(i).all]))

DeleteSkill(i) ==
  /\ page = "skills" /\ Is(i, "delete", "out")
  /\ Decides(i, There(i), Removes(Arg(i)[1]))

PutSkillScope(i) ==
  /\ page = "skills" /\ Is(i, "scope", "out")
  /\ Decides(i, There(i), Changes(Arg(i)[1], [items[Arg(i)[1]] EXCEPT !.users = Arg(i)[2]]))

ImportSkill(i) ==
  /\ page = "skills" /\ Is(i, "import", "out")
  /\ Says(i, TRUE, Adds(NewItem(FALSE, FALSE, Arg(i)[2])))

(* Whoever may not use a skill is refused.                                 *)
SetSkillEnabled(i) ==
  /\ page = "skills" /\ Is(i, "switch", "out")
  /\ Decides(i, There(i) /\ Authorized(Arg(i)[1]),
             Changes(Arg(i)[1], [items[Arg(i)[1]] EXCEPT !.enabled = Arg(i)[2]]))

(* list_connectors, list_skills; my_skills.                                *)
ServeLists(i) ==
  /\ \/ Is(i, "list", "out") /\ Answer(i, TRUE, items)
     \/ Is(i, "own", "out") /\ Answer(i, TRUE, Allowed(items))
  /\ UNCHANGED <<page, admin, serverVars, pageVars, counts>>

Serve(i) ==
  \/ CreateConnector(i) \/ UpdateConnector(i) \/ DeleteConnector(i) \/ PutConnectorScope(i)
  \/ CreateSkill(i) \/ UpdateSkill(i) \/ DeleteSkill(i) \/ PutSkillScope(i)
  \/ ImportSkill(i) \/ SetSkillEnabled(i) \/ ServeLists(i)

(* Another administrator.                                                  *)
Elsewhere ==
  /\ acts < MaxActs /\ acts' = acts + 1 /\ others' = TRUE
  /\ \E x \in DOMAIN items :
       \/ Removes(x)
       \/ Changes(x, [items[x] EXCEPT !.all = ~@])
  /\ UNCHANGED <<page, admin, pageVars, apiVars>>

----------------------------------------------------------------------------
(* The form.                                                               *)

Opens(f) ==
  /\ acts < MaxActs /\ acts' = acts + 1
  /\ admin
  /\ form' = f
  /\ UNCHANGED <<page, admin, serverVars, list, own, toggling, crossed, others, apiVars>>

(* applyPreset.                                                            *)
FromPreset(f) ==
  [f EXCEPT !.program = NoItem, !.market = FALSE, !.approval = FALSE, !.touched = @ \ {"approval"}]

(* The button is there while another form is open.  The preset's fields    *)
(* are filled in if it is one of those that were loaded; whatever it does  *)
(* not say stays as the form had it: the boxes "enabled" and "everyone",   *)
(* and without a preset everything but editingId.                          *)
OpenConnectorForm ==
  /\ page = "connectors"
  /\ LET f == [form EXCEPT !.open = TRUE, !.id = NoItem]
     IN  Opens(f) \/ Opens(FromPreset(f))

ImportedNeedsApproval == TRUE

ImportRegistryConnector ==
  /\ page = "connectors"
  /\ Opens([NoForm EXCEPT !.open = TRUE, !.approval = ImportedNeedsApproval, !.market = TRUE])

(* Mutant: the box for approvals is not filled in.                         *)
EditKeepsApproval(x) ==
  /\ page = "connectors" /\ x \in DOMAIN list
  /\ Opens([open |-> TRUE, id |-> x, program |-> x, market |-> FALSE,
            enabled |-> list[x].enabled, approval |-> form.approval, all |-> list[x].all,
            seen |-> list[x].ver, touched |-> {}])

(* startEdit of each page: one opens the form, the other has it open.      *)
EditConnector(x) ==
  /\ page = "connectors" /\ x \in DOMAIN list
  /\ Opens([open |-> TRUE, id |-> x, program |-> x, market |-> FALSE,
            enabled |-> list[x].enabled, approval |-> list[x].approval, all |-> list[x].all,
            seen |-> list[x].ver, touched |-> {}])

SkillForm(x) == [NoForm EXCEPT !.id = x, !.program = x, !.all = list[x].all, !.seen = list[x].ver]

EditSkill(x) == page = "skills" /\ x \in DOMAIN list /\ Opens(SkillForm(x))

(* The form is there: openConnectorForm's, or the skills page's, once it   *)
(* knows that the user is an administrator.                                *)
FormShown == IF page = "connectors" THEN form.open ELSE admin /\ own # NoBody

Ticked(field) == [form EXCEPT ![field] = ~@, !.touched = @ \cup {field}]

TickBox(field) == FormShown /\ field \in PageBoxes /\ Opens(Ticked(field))

(* A preset is chosen in the form of a new connector.                      *)
ApplyPreset ==
  /\ page = "connectors" /\ form.open /\ form.id = NoItem
  /\ Opens(FromPreset(form))

(* resetForm.                                                              *)
Reset == NoForm

CancelForm ==
  /\ IF page = "connectors" THEN form.open ELSE form.id # NoItem
  /\ form' = Reset
  /\ UNCHANGED <<page, admin, serverVars, list, own, toggling, crossed, counts, apiVars>>

----------------------------------------------------------------------------
(* What the user asks for.                                                 *)

Ask(op, arg) ==
  /\ acts < MaxActs /\ acts' = acts + 1
  /\ calls' = Append(calls, Request(op, arg)) /\ Fits
  /\ UNCHANGED <<page, admin, serverVars, list, own, form, crossed, others, fails>>

(* A button is off from its click until the lists are there again.         *)
Busy(op, tag) ==
  \E i \in DOMAIN calls : calls[i].op \in op \/ (calls[i].op \in {"own", "list"} /\ Arg(i) = <<tag>>)

(* submitConnector and submitSkill: create or update by editingId.         *)
Submit == Ask(IF form.id = NoItem THEN "create" ELSE "update", <<form.id, form>>)

SubmitConnector ==
  /\ page = "connectors" /\ FormShown /\ ~Busy({"create", "update"}, "form")
  /\ Submit /\ UNCHANGED toggling

SubmitSkill ==
  /\ page = "skills" /\ FormShown /\ ~Busy({"create", "update"}, "form")
  /\ Submit /\ UNCHANGED toggling

SubmitImport ==
  /\ page = "skills" /\ FormShown /\ ~Busy({"import"}, "import")
  /\ \E all \in BOOLEAN : Ask("import", <<NoItem, all>>)
  /\ UNCHANGED toggling

ToggleConnector ==
  /\ page = "connectors"
  /\ \E x \in DOMAIN list : Ask("switch", <<x, ~list[x].enabled>>)
  /\ UNCHANGED toggling

(* The button is off while this skill is the one that is toggled, and not  *)
(* there while the user waits for a refresh.                               *)
ToggleSkill ==
  /\ page = "skills" /\ own # NoBody /\ ~Busy({}, "page")
  /\ \E x \in DOMAIN own \ {toggling} : Ask("switch", <<x, ~own[x].enabled>>) /\ toggling' = x

RemoveConnector ==
  /\ page = "connectors"
  /\ \E x \in DOMAIN list : Ask("delete", <<x, FALSE>>)
  /\ UNCHANGED toggling

(* The page remembers whether the form had the skill when it was clicked.  *)
RemoveSkill ==
  /\ page = "skills" /\ admin
  /\ \E x \in DOMAIN list : Ask("delete", <<x, form.id = x>>)
  /\ UNCHANGED toggling

(* saveScope of each page: no user or one.                                 *)
SaveScope(x) ==
  /\ admin /\ x \in DOMAIN list
  /\ \E users \in {{}} \cup {{u} : u \in User} : Ask("scope", <<x, users>>)
  /\ UNCHANGED toggling

SaveConnectorScope == page = "connectors" /\ \E x \in Id : SaveScope(x)

SaveSkillScope == page = "skills" /\ \E x \in Id : SaveScope(x)

Refresh ==
  /\ acts < MaxActs /\ acts' = acts + 1
  /\ calls' = calls \o Reload("page") /\ Fits
  /\ UNCHANGED <<page, admin, serverVars, pageVars, others, fails>>

----------------------------------------------------------------------------
(* What the page makes of the answers.                                     *)

Heard(i, more) ==
  /\ calls' = Without(i, more)
  /\ UNCHANGED <<page, admin, serverVars, counts, fails>>

IsList(c) == c.op \in {"own", "list"}

(* Another list is on its way, which may be the newer one.                 *)
Crosses(i) == crossed \/ \E j \in DOMAIN calls \ {i} : IsList(calls[j]) /\ calls[j].at = "back"

(* The button of a skill is on again when its list is there.               *)
Released(tag) == IF tag = "switch" THEN NoItem ELSE toggling

HearOwn(i) ==
  /\ Is(i, "own", "back")
  /\ own' = IF calls[i].ok THEN calls[i].body ELSE own
  /\ Heard(i, IF calls[i].ok /\ admin THEN <<Request("list", Arg(i))>> ELSE <<>>)
  /\ toggling' = IF calls[i].ok /\ admin THEN toggling ELSE Released(Arg(i)[1])
  /\ crossed' = Crosses(i)
  /\ UNCHANGED <<list, form>>

HearList(i) ==
  /\ Is(i, "list", "back")
  /\ list' = IF calls[i].ok THEN calls[i].body ELSE list
  /\ Heard(i, <<>>)
  /\ toggling' = Released(Arg(i)[1])
  /\ crossed' = Crosses(i)
  /\ UNCHANGED <<own, form>>

(* Mutant: the row goes without a new list.                                *)
ReloadsNotDeleted(op, tag) == IF op = "delete" THEN <<>> ELSE Reload(tag)

ReloadAfter(op, tag) == Reload(tag)

(* What follows a change: the form as the page leaves it, and the lists.   *)
Done(i, tag, after) ==
  /\ calls[i].at = "back"
  /\ form' = IF calls[i].ok THEN after ELSE form
  /\ Heard(i, IF calls[i].ok THEN ReloadAfter(calls[i].op, tag) ELSE <<>>)
  /\ toggling' = IF calls[i].ok THEN toggling ELSE Released(tag)
  /\ UNCHANGED <<list, own, crossed>>

Of(i, name, ops) == page = name /\ i \in DOMAIN calls /\ calls[i].op \in ops

(* submitConnector, submitSkill.                                           *)
HearConnectorSaved(i) == Of(i, "connectors", {"create", "update"}) /\ Done(i, "form", Reset)

HearSkillSaved(i) == Of(i, "skills", {"create", "update"}) /\ Done(i, "form", Reset)

(* toggleConnector, removeConnector, saveScope.                            *)
HearConnectorChanged(i) == Of(i, "connectors", {"switch", "delete", "scope"}) /\ Done(i, "row", form)

HearSkillToggled(i) == Of(i, "skills", {"switch"}) /\ Done(i, "switch", form)

HearSkillRemoved(i) ==
  Of(i, "skills", {"delete"}) /\ Done(i, "row", IF Arg(i)[2] THEN Reset ELSE form)

HearSkillScope(i) == Of(i, "skills", {"scope"}) /\ Done(i, "row", form)

HearImported(i) == Of(i, "skills", {"import"}) /\ Done(i, "import", form)

Hear(i) ==
  \/ HearOwn(i) \/ HearList(i)
  \/ HearConnectorSaved(i) \/ HearConnectorChanged(i)
  \/ HearSkillSaved(i) \/ HearSkillToggled(i) \/ HearSkillRemoved(i)
  \/ HearSkillScope(i) \/ HearImported(i)

Lost(i) == NeverArrives(i) /\ UNCHANGED <<page, admin, serverVars, pageVars, counts>>

Next ==
  \/ \E i \in DOMAIN calls : Serve(i) \/ Lost(i) \/ Hear(i)
  \/ OpenConnectorForm \/ ImportRegistryConnector \/ ApplyPreset
  \/ CancelForm \/ Elsewhere \/ \E field \in FormBoxes : TickBox(field)
  \/ \E x \in Id : EditConnector(x) \/ EditSkill(x)
  \/ SubmitConnector \/ SubmitSkill \/ SubmitImport \/ ToggleConnector \/ ToggleSkill
  \/ RemoveConnector \/ RemoveSkill \/ SaveConnectorScope \/ SaveSkillScope \/ Refresh

Spec == Init /\ [][Next]_vars

----------------------------------------------------------------------------
(* Properties.                                                             *)

(* When the page has nothing on its way it shows what there is, whatever   *)
(* the order of its changes and loads: every change is followed by a load  *)
(* (refresh, loadData).  Two loads whose answers are there at once, a load *)
(* that failed and a change made elsewhere are excepted: nothing corrects  *)
(* those lists but the user.                                               *)
QuietPageIsRight ==
  (calls = <<>> /\ fails = 0 /\ ~crossed /\ ~others) =>
    /\ admin => list = items
    /\ page = "skills" => own = Allowed(items)

(* Saving a form changes only what was changed in it by hand: while the    *)
(* item is as it was when the form was opened, the boxes that nobody       *)
(* touched are sent as they are, and with them the item's own name and     *)
(* command, however forms are opened, left and reset while another save is *)
(* answered.  (Once the item has changed meanwhile, by a switch in its row *)
(* or by somebody else, the save puts the older fields back.)  And a       *)
(* connector filled in from the market is created with approval of each    *)
(* call, unless the box was touched (docs T-WEB-14: ticked by default).    *)
SaveKeepsTheRest ==
  \A i \in DOMAIN calls :
    LET x == Arg(i)[1] IN
    /\ calls[i].op = "update" =>
         /\ Sent(i).program = x
         /\ calls[i].at = "out" /\ x \in DOMAIN items /\ items[x].ver = Sent(i).seen =>
              \A field \in PageBoxes \ Sent(i).touched : Sent(i)[field] = items[x][field]
    /\ calls[i].op = "create" /\ Sent(i).market /\ "approval" \notin Sent(i).touched =>
         Sent(i).approval
=============================================================================
