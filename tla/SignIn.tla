------------------------------- MODULE SignIn -------------------------------
(***************************************************************************)
(* Accounts: the first registration, registrations and their approval,     *)
(* sign-in and sign-out.  The server (server/app/routes.py, auth.py)       *)
(* behind the web console's login page, shell, administrator's guard and   *)
(* users page (web/app/login, web/components, web/app/admin/users), each   *)
(* browser with one window of the console open.                            *)
(*                                                                         *)
(* Going to another page takes time: until the router has it, the page     *)
(* that is left hears answers and takes clicks.                            *)
(*                                                                         *)
(* Passwords are right or wrong; display names, notes and the table of     *)
(* users are left out.                                                     *)
(***************************************************************************)
EXTENDS ApiCalls, FiniteSets

CONSTANTS
  Browser,
  Name,           \* usernames
  Open,           \* settings.allow_registration
  MaxRows,        \* bound: rows ever inserted into users
  MaxTokens,      \* bound: tokens ever issued
  MaxActs         \* bound: what the people at the browsers do, after their first form

ASSUME SignInAssumption ==
  /\ Open \in BOOLEAN
  /\ {MaxRows, MaxTokens, MaxActs} \subseteq Nat

VARIABLES
  rows,      \* users: of each row ever inserted, its name, role and status
  issued,    \* auth_tokens: of each token ever issued, the row it is for
  live,      \* the tokens that are in auth_tokens and have not expired
  cookie,    \* agent_token, of each browser
  tab,       \* what each browser's window shows
  acts

serverVars == <<rows, issued, live>>
vars == <<serverVars, cookie, tab, acts, apiVars>>

None == 0

There(u) == u \in DOMAIN rows /\ rows[u].status # "gone"
Taken(n) == \E u \in DOMAIN rows : There(u) /\ rows[u].name = n
Count == Cardinality({u \in DOMAIN rows : There(u)})

(* page: pathname ("machines" stands for every page that is neither the    *)
(* login page nor the users page); form: firstRunSetup, mode and           *)
(* checkingSetup of the login page; user: the shell's user; guard: what    *)
(* AdminGuard shows; regs: the users page's registrations; busy:           *)
(* submitting, loggingOut and registrationAction; to: the page that the    *)
(* router is going to; hasty: its user did not wait for the router to      *)
(* leave a login page or to reach one (history).                           *)
Window(page, user) ==
  [page |-> page, user |-> user, busy |-> {}, regs |-> {}, to |-> "none", hasty |-> FALSE,
   form |-> IF page = "login" THEN "checking" ELSE "none",
   guard |-> IF page = "users" THEN "loading" ELSE "none"]

(* What is asked for when a page is opened: getSetupStatus by the login    *)
(* page, getMe by the shell, which shows the other pages after it.         *)
Opening(b, page, t) ==
  IF page = "login" THEN <<Request("setup", <<b, None>>)>> ELSE <<Request("me", <<b, t>>)>>

(* What the page asks for when the shell shows it: AdminGuard's getMe.     *)
Shown(b) == IF tab[b].page = "users" THEN <<Request("guard", <<b, cookie[b]>>)>> ELSE <<>>

(* A new server.                                                           *)
Fresh ==
  /\ rows = <<>> /\ issued = <<>> /\ live = {}
  /\ cookie = [b \in Browser |-> None]
  /\ tab = [b \in Browser |-> Window("closed", None)]

(* One with two administrators, who are signed in, and a registration.     *)
Established ==
  \E n1, n2, n3 \in Name, who \in [Browser -> 1 .. 2] :
    /\ Cardinality({n1, n2, n3}) = 3 /\ \A b, c \in Browser : who[b] = who[c] => b = c
    /\ rows = <<[name |-> n1, role |-> "admin", status |-> "active"],
                [name |-> n2, role |-> "admin", status |-> "active"],
                [name |-> n3, role |-> "user", status |-> "pending"]>>
    /\ issued = <<1, 2>> /\ live = {1, 2}
    /\ cookie = who
    /\ tab = [b \in Browser |-> Window("machines", who[b])]

Init ==
  /\ Fresh \/ Established
  /\ acts = 0 /\ calls = <<>> /\ fails = 0

----------------------------------------------------------------------------
(* The server.                                                             *)

Arg(i) == calls[i].arg

(* require_user, require_admin: the row a token is of.                     *)
Who(t) == IF t \in live /\ There(issued[t]) THEN issued[t] ELSE None
IsAdmin(u) == u # None /\ rows[u].role = "admin"

NewRow(n, role, status) == Append(rows, [name |-> n, role |-> role, status |-> status])

(* The rows a request has read, kept while it awaits the database.         *)
Reads(i, seen) ==
  /\ calls' = [calls EXCEPT ![i] = [@ EXCEPT !.at = "read", !.body = seen]]
  /\ UNCHANGED fails

(* setup_status.                                                           *)
ServeSetup(i) ==
  /\ Is(i, "setup", "out")
  /\ Answer(i, TRUE, Count = 0)
  /\ UNCHANGED <<serverVars, cookie, tab, acts>>

(* register, to its first await after the checks: is_bootstrap.            *)
ReadRegister(i) ==
  LET boot == Count = 0 IN
  /\ Is(i, "register", "out")
  /\ IF (~boot /\ ~Open) \/ Taken(Arg(i)[2])
     THEN Answer(i, FALSE, NoBody)
     ELSE Reads(i, boot)
  /\ UNCHANGED <<serverVars, cookie, tab, acts>>

(* Mutant: the first registration, too, waits for an administrator.        *)
RegisteredPending(n, boot) == NewRow(n, IF boot THEN "admin" ELSE "user", "pending")

Registered(n, boot) ==
  IF boot THEN NewRow(n, "admin", "active") ELSE NewRow(n, "user", "pending")

(* register's commit: the column is unique.                                *)
ServeRegister(i) ==
  /\ Is(i, "register", "read")
  /\ IF Taken(Arg(i)[2])
     THEN Answer(i, FALSE, NoBody) /\ UNCHANGED rows
     ELSE /\ Len(rows) < MaxRows
          /\ rows' = Registered(Arg(i)[2], calls[i].body)
          /\ Answer(i, TRUE, IF calls[i].body THEN "active" ELSE "pending")
  /\ UNCHANGED <<issued, live, cookie, tab, acts>>

(* login: a row that is active, and the right password.  The browser keeps *)
(* the token when the answer comes (the web server's setTokenCookie).      *)
MaySignIn(u) == rows[u].status = "active"

ServeLogin(i) ==
  /\ Is(i, "login", "out")
  /\ \/ Answer(i, FALSE, NoBody) /\ UNCHANGED <<issued, live>>
     \/ \E u \in DOMAIN rows :
          /\ rows[u].name = Arg(i)[2] /\ MaySignIn(u)
          /\ Len(issued) < MaxTokens
          /\ issued' = Append(issued, u)
          /\ live' = live \cup {Len(issued')}
          /\ Answer(i, TRUE, Len(issued'))
  /\ UNCHANGED <<rows, cookie, tab, acts>>

(* whoami, for the shell and for AdminGuard.                               *)
ServeMe(i) ==
  /\ \E op \in {"me", "guard"} : Is(i, op, "out")
  /\ LET u == Who(Arg(i)[2]) IN Answer(i, u # None, IF u = None THEN NoBody ELSE u)
  /\ UNCHANGED <<serverVars, cookie, tab, acts>>

(* logout at the server: the token it was called with.                     *)
ServeLogout(i) ==
  LET u == Who(Arg(i)[2]) IN
  /\ Is(i, "logout", "out")
  /\ live' = IF u = None THEN live ELSE live \ {Arg(i)[2]}
  /\ Answer(i, u # None, NoBody)
  /\ UNCHANGED <<rows, issued, cookie, tab, acts>>

(* logout at the web server, which clears the cookie.                      *)
ServeClear(i) ==
  /\ Is(i, "clear", "out")
  /\ Answer(i, TRUE, NoBody)
  /\ UNCHANGED <<serverVars, cookie, tab, acts>>

(* list_registrations (and list_users, asked for with it).                 *)
ServeLists(i) ==
  /\ Is(i, "lists", "out")
  /\ IF IsAdmin(Who(Arg(i)[2]))
     THEN Answer(i, TRUE, {u \in DOMAIN rows : rows[u].status = "pending"})
     ELSE Answer(i, FALSE, NoBody)
  /\ UNCHANGED <<serverVars, cookie, tab, acts>>

(* create_user.                                                            *)
ServeCreate(i) ==
  /\ Is(i, "create", "out")
  /\ \/ /\ IsAdmin(Who(Arg(i)[2])) /\ ~Taken(Arg(i)[3]) /\ Len(rows) < MaxRows
        /\ \E role \in {"user", "admin"} : rows' = NewRow(Arg(i)[3], role, "active")
        /\ Answer(i, TRUE, NoBody)
     \/ /\ ~IsAdmin(Who(Arg(i)[2])) \/ Taken(Arg(i)[3])
        /\ Answer(i, FALSE, NoBody) /\ UNCHANGED rows
  /\ UNCHANGED <<issued, live, cookie, tab, acts>>

Decision == {"approve", "reject"}

(* approve_registration, reject_registration, to their commit.             *)
Pending(u) == There(u) /\ rows[u].status = "pending"

ReadDecision(i) ==
  /\ \E op \in Decision : Is(i, op, "out")
  /\ IF IsAdmin(Who(Arg(i)[2])) /\ Pending(Arg(i)[3])
     THEN Reads(i, TRUE)
     ELSE Answer(i, FALSE, NoBody)
  /\ UNCHANGED <<serverVars, cookie, tab, acts>>

(* Their commit: an update of a row that is gone fails, and a row that was *)
(* approved meanwhile is deleted like any other.                           *)
ServeDecision(i) ==
  LET u == Arg(i)[3] IN
  /\ \/ /\ Is(i, "approve", "read")
        /\ IF There(u)
           THEN rows' = [rows EXCEPT ![u].status = "active"] /\ Answer(i, TRUE, NoBody)
           ELSE Answer(i, FALSE, NoBody) /\ UNCHANGED rows
     \/ /\ Is(i, "reject", "read")
        /\ rows' = [rows EXCEPT ![u].status = "gone"]
        /\ Answer(i, TRUE, NoBody)
  /\ UNCHANGED <<issued, live, cookie, tab, acts>>

(* _expired.                                                               *)
Expire ==
  /\ acts < MaxActs /\ acts' = acts + 1
  /\ \E t \in live : live' = live \ {t}
  /\ UNCHANGED <<rows, issued, cookie, tab, apiVars>>

----------------------------------------------------------------------------
(* A browser.                                                              *)

Effects == {"setup", "me", "guard", "lists"}

Cancelled(b, seq, ops) ==
  [i \in DOMAIN seq |-> IF seq[i].arg[1] = b /\ seq[i].op \in ops
                        THEN [seq[i] EXCEPT !.op = "cancelled"] ELSE seq[i]]

(* Mutant: the shell's effect has no clean-up.                             *)
KeptWithMe(b, seq) == Cancelled(b, seq, Effects \ {"me"})

(* What is on its way when a page is left: the clean-ups of the effects    *)
(* cancel the reads; the rest is answered to a page that is gone.          *)
Kept(b, seq) == Cancelled(b, seq, Effects)

(* router.replace, or a link: a later one takes the place of an earlier.   *)
Going(b, page) == [tab EXCEPT ![b].to = page]

(* The pathname changes, in the window of b.  On the login page the shell  *)
(* forgets the user.                                                       *)
Goes(b, page) ==
  /\ tab' = [tab EXCEPT ![b] =
       [Window(page, IF page = "login" THEN None ELSE @.user) EXCEPT
          !.busy = tab[b].busy \cap {"logout"}, !.hasty = tab[b].hasty]]
  /\ calls' = Kept(b, calls) \o Opening(b, page, cookie[b])

(* The router is there; no effect runs if that is where the window was.    *)
Arrive(b) ==
  /\ tab[b].to # "none"
  /\ IF tab[b].to = tab[b].page THEN tab' = Going(b, "none") /\ UNCHANGED calls
     ELSE Goes(b, tab[b].to)
  /\ UNCHANGED <<serverVars, cookie, acts, fails>>

Ask(b, op, arg, does) ==
  /\ does \notin tab[b].busy
  /\ tab' = [tab EXCEPT ![b] =
       [@ EXCEPT !.busy = tab[b].busy \cup {does},
                 !.hasty = tab[b].hasty \/ (does = "submit" /\ tab[b].to # "none")]]
  /\ calls' = Append(calls, Request(op, arg))
  /\ UNCHANGED <<serverVars, cookie, fails>>

(* The console is opened, without a cookie: the shell would go to the      *)
(* login page.                                                             *)
OpenConsole(b) ==
  /\ tab[b].page = "closed"
  /\ tab' = [tab EXCEPT ![b] = Window("login", None)]
  /\ calls' = calls \o Opening(b, "login", None)
  /\ UNCHANGED <<serverVars, cookie, acts, fails>>

Acts == acts < MaxActs /\ acts' = acts + 1

(* A link of the shell.                                                    *)
Follow(b) ==
  /\ Acts
  /\ \E page \in {"machines", "users", "login"} :
       /\ tab[b].page \notin {"closed", "login"}
       /\ page # tab[b].page \/ tab[b].to # "none"
       /\ page = "users" => IsAdmin(tab[b].user)     \* visibleNavItems
       /\ page = "login" => tab[b].user = None
       /\ tab' = [tab EXCEPT ![b] = [@ EXCEPT !.to = page, !.hasty = tab[b].hasty \/ tab[b].to = "login"]]
  /\ UNCHANGED <<serverVars, cookie, apiVars>>

(* switchMode.                                                             *)
SwitchMode(b) ==
  /\ tab[b].form \in {"login", "register"}
  /\ tab' = [tab EXCEPT ![b].form = IF @ = "login" THEN "register" ELSE "login"]
  /\ UNCHANGED <<serverVars, cookie, acts, apiVars>>

(* handleSubmit.                                                           *)
Submit(b) ==
  /\ Acts
  /\ \E n \in Name :
       \/ tab[b].form = "setup" /\ Ask(b, "register", <<b, n, "setup">>, "submit")
       \/ tab[b].form = "register" /\ Ask(b, "register", <<b, n, "register">>, "submit")
       \/ tab[b].form = "login" /\ Ask(b, "login", <<b, n, "machines">>, "submit")

(* handleLogout.                                                           *)
LogOut(b) ==
  /\ tab[b].user # None /\ Acts
  /\ Ask(b, "logout", <<b, cookie[b]>>, "logout")

(* submitUser and handleRegistration, of the users page.                   *)
Manage(b) ==
  /\ tab[b].guard = "admin" /\ Acts
  /\ \/ \E n \in Name : Ask(b, "create", <<b, cookie[b], n>>, "create")
     \/ \E u \in tab[b].regs, op \in Decision : Ask(b, op, <<b, cookie[b], u>>, "decide")

(* refreshUsers, from its button.                                          *)
Refresh(b) ==
  /\ tab[b].guard = "admin" /\ Acts
  /\ calls' = Append(calls, Request("lists", <<b, cookie[b]>>))
  /\ UNCHANGED <<serverVars, cookie, tab, fails>>

----------------------------------------------------------------------------
(* Answers.                                                                *)

Heard(i, b) == i \in DOMAIN calls /\ calls[i].at = "back" /\ Arg(i)[1] = b

(* The effect of the login page.                                           *)
HearSetup(i, b) ==
  /\ Is(i, "setup", "back") /\ Heard(i, b)
  /\ tab' = [tab EXCEPT ![b].form = IF calls[i].ok /\ calls[i].body THEN "setup" ELSE "login"]
  /\ calls' = Without(i, <<>>)
  /\ UNCHANGED <<serverVars, cookie, acts, fails>>

(* What awaits the answer, in the window; it is seen only while the page   *)
(* that asked is there: a page has one of each on its way, so a later one  *)
(* is another page's.                                                      *)
Does(i) ==
  CASE calls[i].op \in {"register", "login"} -> "submit"
    [] calls[i].op = "create" -> "create"
    [] calls[i].op \in Decision -> "decide"
    [] OTHER -> "none"

Here(i, b) ==
  /\ Does(i) \in tab[b].busy
  /\ \A j \in DOMAIN calls : j > i => Arg(j)[1] # b \/ Does(j) # Does(i)

Done(i, b) == IF Here(i, b) THEN tab[b].busy \ {Does(i)} ELSE tab[b].busy

(* registerUser's answer: the first registration signs in at once; one     *)
(* that was not the first leaves the form of the first on the page.        *)
HearRegister(i, b) ==
  LET first == calls[i].ok /\ Arg(i)[3] = "setup" /\ calls[i].body = "active"
      back == Here(i, b) /\ calls[i].ok /\ Arg(i)[3] = "register" IN
  /\ Is(i, "register", "back") /\ Heard(i, b)
  /\ \/ /\ first
        /\ calls' = Without(i, <<Request("login", <<b, Arg(i)[2], "users">>)>>)
        /\ UNCHANGED tab
     \/ /\ ~first
        /\ calls' = Without(i, <<>>)
        /\ tab' = [tab EXCEPT ![b] = [@ EXCEPT !.busy = Done(i, b),
                                               !.form = IF back THEN "login" ELSE tab[b].form]]
  /\ UNCHANGED <<serverVars, cookie, acts, fails>>

(* login's answer, with the cookie; the button is free before the router   *)
(* has left the page.                                                      *)
HearLogin(i, b) ==
  /\ Is(i, "login", "back") /\ Heard(i, b)
  /\ cookie' = IF calls[i].ok THEN [cookie EXCEPT ![b] = calls[i].body] ELSE cookie
  /\ tab' = [tab EXCEPT ![b] =
       [@ EXCEPT !.busy = Done(i, b), !.to = IF calls[i].ok THEN Arg(i)[3] ELSE tab[b].to]]
  /\ calls' = Without(i, <<>>)
  /\ UNCHANGED <<serverVars, acts, fails>>

(* The effect of the shell: after an error, too, the page is shown, and    *)
(* after a 401 until the router has left it.                               *)
HearMe(i, b) ==
  /\ Is(i, "me", "back") /\ Heard(i, b)
  /\ \/ /\ calls[i].ok
        /\ tab' = [tab EXCEPT ![b].user = calls[i].body]
        /\ calls' = Without(i, Shown(b))
     \/ /\ ~calls[i].ok
        /\ tab' \in {tab, Going(b, "login")}
        /\ calls' = Without(i, Shown(b))
  /\ UNCHANGED <<serverVars, cookie, acts, fails>>

(* AdminGuard; the users page behind it asks for its lists.                *)
HearGuard(i, b) ==
  LET admin == calls[i].ok /\ IsAdmin(calls[i].body) IN
  /\ Is(i, "guard", "back") /\ Heard(i, b)
  /\ tab' = [tab EXCEPT ![b].guard = IF admin THEN "admin" ELSE "denied"]
  /\ calls' = Without(i, IF admin THEN <<Request("lists", <<b, cookie[b]>>)>> ELSE <<>>)
  /\ UNCHANGED <<serverVars, cookie, acts, fails>>

HearLists(i, b) ==
  /\ Is(i, "lists", "back") /\ Heard(i, b)
  /\ tab' = IF calls[i].ok THEN [tab EXCEPT ![b].regs = calls[i].body] ELSE tab
  /\ calls' = Without(i, <<>>)
  /\ UNCHANGED <<serverVars, cookie, acts, fails>>

(* submitUser and handleRegistration go on: refreshUsers when it was done. *)
HearManage(i, b) ==
  /\ Heard(i, b) /\ Does(i) \in {"create", "decide"}
  /\ tab' = [tab EXCEPT ![b].busy = Done(i, b)]
  /\ calls' = Without(i, IF Here(i, b) /\ calls[i].ok THEN <<Request("lists", <<b, cookie[b]>>)>>
                         ELSE <<>>)
  /\ UNCHANGED <<serverVars, cookie, acts, fails>>

(* The answer of a read that was cancelled is not looked at.               *)
HearCancelled(i) ==
  /\ \E at \in {"out", "back"} : Is(i, "cancelled", at)
  /\ calls' = Without(i, <<>>)
  /\ UNCHANGED <<serverVars, cookie, tab, acts, fails>>

(* logout goes on to the web server whatever the server answered; then the *)
(* cookie is gone, the shell forgets the user and goes to the login page.  *)
(* If even that failed the shell stays as it is.                           *)
HearLogout(i, b) ==
  /\ Heard(i, b)
  /\ \/ /\ calls[i].op = "logout"
        /\ calls' = Without(i, <<Request("clear", <<b, None>>)>>)
        /\ UNCHANGED <<cookie, tab>>
     \/ /\ calls[i].op = "clear" /\ calls[i].ok
        /\ cookie' = [cookie EXCEPT ![b] = None]
        /\ tab' = [tab EXCEPT ![b] =
             [@ EXCEPT !.user = None, !.busy = tab[b].busy \ {"logout"}, !.to = "login"]]
        /\ calls' = Without(i, <<>>)
     \/ /\ calls[i].op = "clear" /\ ~calls[i].ok
        /\ tab' = [tab EXCEPT ![b].busy = @ \ {"logout"}]
        /\ calls' = Without(i, <<>>)
        /\ UNCHANGED cookie
  /\ UNCHANGED <<serverVars, acts, fails>>

Lost(i) == calls[i].op # "cancelled" /\ NeverArrives(i) /\ UNCHANGED <<serverVars, cookie, tab, acts>>

Serve(i) ==
  \/ ServeSetup(i) \/ ReadRegister(i) \/ ServeRegister(i) \/ ServeLogin(i) \/ ServeMe(i)
  \/ ServeLogout(i) \/ ServeClear(i) \/ ServeLists(i) \/ ServeCreate(i)
  \/ ReadDecision(i) \/ ServeDecision(i)

Hear(i, b) ==
  \/ HearSetup(i, b) \/ HearRegister(i, b) \/ HearLogin(i, b) \/ HearMe(i, b)
  \/ HearGuard(i, b) \/ HearLists(i, b) \/ HearManage(i, b) \/ HearLogout(i, b)

Act(b) ==
  \/ Arrive(b) \/ OpenConsole(b) \/ Follow(b) \/ SwitchMode(b) \/ Submit(b) \/ LogOut(b) \/ Manage(b)
  \/ Refresh(b)

Next ==
  /\ \/ \E i \in DOMAIN calls : Serve(i) \/ Lost(i)
     \/ \E i \in DOMAIN calls : HearCancelled(i)
     \/ \E i \in DOMAIN calls, b \in Browser : Hear(i, b)
     \/ \E b \in Browser : Act(b)
     \/ Expire
  /\ Fits

Spec == Init /\ [][Next]_vars

----------------------------------------------------------------------------
(* Properties.                                                             *)

(* Once there is an account there is an administrator who may sign in, so  *)
(* that registrations can be approved (routes.py:229, register's           *)
(* docstring), whichever registrations and decisions overlap.              *)
AdminRemains ==
  Count > 0 => \E u \in DOMAIN rows : rows[u].role = "admin" /\ rows[u].status = "active"

(* The name at the top of the console is the account whose requests the    *)
(* browser makes: no answer that comes late, after a sign-out, a sign-in   *)
(* as someone else or from a page that was left, puts another one there,   *)
(* but for the moments until the router reaches the login page             *)
(* (app-shell.tsx:87-137), and unless a form was sent again or a link      *)
(* followed in such a moment.                                              *)
ShownIsSignedIn ==
  \A b \in Browser : tab[b].user # None =>
    \/ cookie[b] # None /\ issued[cookie[b]] = tab[b].user
    \/ tab[b].to = "login" \/ tab[b].hasty
=============================================================================
