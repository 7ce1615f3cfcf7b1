----------------------------- MODULE ModelAdmin -----------------------------
(***************************************************************************)
(* The administration of the models: the page web/app/admin/models over    *)
(* the server (server/app/model_admin.py).  One page is modelled; what     *)
(* other administrators ask for is on its way among the page's requests,   *)
(* and its answers are theirs.                                             *)
(*                                                                         *)
(* A handler of the server takes a step where it awaits something that     *)
(* another could change: between the rows it reads and its commit, while   *)
(* the OAuth provider answers, and between the commit, the load of the     *)
(* gateway and its assignment.                                             *)
(*                                                                         *)
(* Of a backend, what is kept is whether it is a default and enabled, and  *)
(* its OAuth configuration; names, keys, limits and the scope of tokens    *)
(* are left out, and tokens do not expire.                                 *)
(***************************************************************************)
EXTENDS ApiCalls, FiniteSets

CONSTANTS
  User,
  Offered,       \* bound: the sets of flows that a configuration offers
  MaxBackends,   \* bound: backends, numbered as they are created
  MaxAttempts,   \* polls of a device login (30 in the code)
  MaxActs        \* bound: requests that the user of the page or others make

ASSUME AdminAssumption ==
  /\ Offered \subseteq SUBSET {"device", "code"} \ {{}}
  /\ MaxBackends \in Nat /\ MaxAttempts \in Nat \ {0} /\ MaxActs \in Nat

VARIABLES
  backends,   \* the table model_backends: of each that there is, its Backend
  created,    \* how many there ever were: a new id is another one
  routes,     \* the table of routes: the user's backend, or NoBackend
  gateway,    \* app.state.gateway
  version,    \* commits that the gateway is to follow (history)
  newest,     \* the version of the newest load that was assigned (history)
  contested,  \* the last default was made over a stale read (history)
  clobbered,  \* configurations that were saved over a newer one (history)
  list,       \* the page's backends, with the marks it made
  dialog,     \* the page's oauthDialog
  ended,      \* logins whose polls ended without success (history)
  acts

tables == <<backends, created, routes>>
histories == <<version, newest, contested, clobbered>>
serverVars == <<tables, gateway, histories>>
pageVars == <<list, dialog, ended>>
vars == <<serverVars, pageVars, acts, apiVars>>

Id == 1 .. MaxBackends
NoBackend == 0

(* flows are those that the OAuth configuration offers; one that offers    *)
(* none is as good as an API key.  token: it holds an access token, code:  *)
(* a pending_device_code.                                                  *)
Flows == SUBSET {"device", "code"}
Backend == [default : BOOLEAN, enabled : BOOLEAN, flows : Flows, token : BOOLEAN, code : BOOLEAN]

NewBackend(default, flows) ==
  [default |-> default, enabled |-> TRUE, flows |-> flows, token |-> FALSE, code |-> FALSE]

(* load_gateway_from_db: the backends that are enabled and, of these, the  *)
(* defaults (the first is taken, or the first of all) and those with a     *)
(* token.                                                                  *)
Enabled == {b \in DOMAIN backends : backends[b].enabled}
Loaded ==
  [backends |-> Enabled, defaults |-> {b \in Enabled : backends[b].default},
   tokens |-> {b \in Enabled : backends[b].token}, routes |-> routes, ver |-> version]

(* _backend_out, of a backend with a configuration.                        *)
Shown ==
  [b \in DOMAIN backends |->
     [default |-> backends[b].default, enabled |-> backends[b].enabled, flows |-> backends[b].flows,
      status |-> IF backends[b].flows = {} THEN "none"
                 ELSE IF backends[b].token THEN "authorized" ELSE "pending"]]

NoDialog == [mode |-> "none", id |-> NoBackend, status |-> "pending", login |-> 0]

Init ==
  /\ \E flows \in Offered, token \in BOOLEAN :
       backends = [b \in 1 .. 2 |-> IF b = 1 THEN NewBackend(TRUE, {})
                                    ELSE [NewBackend(FALSE, flows) EXCEPT !.token = token]]
  /\ created = 2
  /\ routes = [u \in User |-> NoBackend]
  /\ version = 0 /\ newest = 0 /\ contested = FALSE /\ clobbered = {}
  /\ gateway = Loaded
  /\ list = Shown /\ dialog = NoDialog /\ ended = {}
  /\ acts = 0
  /\ calls = <<>> /\ fails = 0

----------------------------------------------------------------------------
(* The server.  A request is "out", then "held" while its handler waits    *)
(* between a read and the write that uses it, then about to "load" the     *)
(* gateway and about to "assign" it; body is what its handler holds.       *)

Arg(i) == calls[i].arg

Goes(i, at, body) ==
  /\ calls' = [calls EXCEPT ![i] = [@ EXCEPT !.at = at, !.body = body]]
  /\ UNCHANGED fails

Refuse(i) == Answer(i, FALSE, NoBody) /\ UNCHANGED serverVars

Waits(i, body) == Goes(i, "held", body) /\ UNCHANGED serverVars

(* A commit that the gateway is to follow.                                 *)
Commits(i) ==
  /\ version' = version + 1
  /\ Goes(i, "load", NoBody)
  /\ UNCHANGED <<gateway, newest>>

ServeList(i) ==
  /\ Is(i, "list", "out") \/ Is(i, "relist", "out")
  /\ Answer(i, TRUE, Shown)
  /\ UNCHANGED <<serverVars, pageVars, acts>>

Defaults == {b \in DOMAIN backends : backends[b].default}

(* What a handler has read of the backends when it makes one the default.  *)
Read == [defaults |-> Defaults, enabled |-> Enabled]

(* create_model, update_model: what the form says.                         *)
SaysDefault(i) == Arg(i).default

Inserted(default, flows) ==
  /\ created < MaxBackends
  /\ created' = created + 1
  /\ backends' = [b \in DOMAIN backends \cup {created'} |->
                    IF b = created' THEN NewBackend(default, flows) ELSE backends[b]]

(* create_model up to the commit; a name may be taken.                     *)
ServeCreate(i) ==
  /\ Is(i, "create", "out")
  /\ \/ Refuse(i)
     \/ SaysDefault(i) /\ Waits(i, Read)
     \/ /\ ~SaysDefault(i)
        /\ Inserted(FALSE, Arg(i).flows) /\ Commits(i)
        /\ UNCHANGED <<routes, contested, clobbered>>
  /\ UNCHANGED <<pageVars, acts>>

(* A field that is set to what was read is not written.                    *)
Switched(b, enabled, read) ==
  IF enabled = "keep" \/ (enabled = "on") = (b \in read) THEN backends[b].enabled ELSE enabled = "on"

(* update_model up to the commit, of the form, or of a row's button with   *)
(* one field.  No patch changes the OAuth configuration or takes the       *)
(* default away; a limit may be out of range.                              *)
ServeUpdate(i) ==
  LET b == Arg(i).id IN
  /\ Is(i, "update", "out")
  /\ \/ Refuse(i)
     \/ b \in DOMAIN backends /\ SaysDefault(i) /\ Waits(i, Read)
     \/ /\ b \in DOMAIN backends /\ ~SaysDefault(i)
        /\ backends' = [backends EXCEPT ![b].enabled = Switched(b, Arg(i).enabled, Enabled)] /\ Commits(i)
        /\ UNCHANGED <<created, routes, contested, clobbered>>
  /\ UNCHANGED <<pageVars, acts>>

(* Mutant: the former defaults stay.                                       *)
ClearedNone(read) == backends

(* _clear_default: the rows that were the defaults when they were read.    *)
Cleared(read) == [b \in DOMAIN backends |-> IF b \in read THEN [backends[b] EXCEPT !.default = FALSE] ELSE backends[b]]

(* The commit of a default.  A row that was deleted since it was read      *)
(* fails the commit, and so does a form's name that another has.  A row    *)
(* that is cleared and set again is not written.                           *)
MakeDefault(i) ==
  LET read == calls[i].body.defaults
      b == IF calls[i].op = "update" THEN Arg(i).id ELSE NoBackend
      cleared == Cleared(read \ {b}) IN
  /\ Is(i, "create", "held") \/ Is(i, "update", "held")
  /\ \/ /\ \/ ~(read \subseteq DOMAIN backends)
           \/ calls[i].op = "update" /\ b \notin DOMAIN backends
           \/ Arg(i).from = "form"
        /\ Refuse(i)
     \/ /\ read \subseteq DOMAIN backends
        /\ \/ /\ calls[i].op = "create" /\ created < MaxBackends
              /\ created' = created + 1
              /\ backends' = [x \in DOMAIN backends \cup {created'} |->
                                IF x = created' THEN NewBackend(TRUE, Arg(i).flows) ELSE cleared[x]]
           \/ /\ calls[i].op = "update" /\ b \in DOMAIN backends
              /\ backends' = [cleared EXCEPT ![b] =
                   [@ EXCEPT !.default = (backends[b].default \/ b \notin read),
                             !.enabled = Switched(b, Arg(i).enabled, calls[i].body.enabled)]]
              /\ UNCHANGED created
        /\ contested' = (read # Defaults)
        /\ Commits(i)
        /\ UNCHANGED <<routes, clobbered>>
  /\ UNCHANGED <<pageVars, acts>>

(* delete_model: the row, and nothing else.                                *)
ServeDelete(i) ==
  LET b == Arg(i).id IN
  /\ Is(i, "delete", "out")
  /\ IF b \in DOMAIN backends
     THEN /\ backends' = [x \in DOMAIN backends \ {b} |-> backends[x]]
          /\ Commits(i) /\ UNCHANGED <<created, routes, contested, clobbered>>
     ELSE Refuse(i)
  /\ UNCHANGED <<pageVars, acts>>

(* set_route: whether the backend exists is not asked.  The user's row may *)
(* have come or gone since it was read, which fails the commit.            *)
ServeRoute(i) ==
  /\ Is(i, "route", "out")
  /\ \/ Refuse(i)
     \/ /\ routes' = [routes EXCEPT ![Arg(i).user] = Arg(i).id]
        /\ Commits(i)
        /\ UNCHANGED <<backends, created, contested, clobbered>>
  /\ UNCHANGED <<pageVars, acts>>

----------------------------------------------------------------------------
(* The server: OAuth.                                                      *)

Offers(b, flow) == b \in DOMAIN backends /\ flow \in backends[b].flows

Config(b) == [token |-> backends[b].token, code |-> backends[b].code]

(* _load_oauth_cfg and a flow's own conditions; then the provider is       *)
(* asked.  Whether a refresh token was given is the provider's choice.     *)
AskProvider(i) ==
  LET b == Arg(i).id IN
  /\ \/ Is(i, "start", "out") /\ Offers(b, "device")
     \/ Is(i, "poll", "out") /\ b \in DOMAIN backends /\ backends[b].flows # {} /\ backends[b].code
     \/ Is(i, "callback", "out") /\ b \in DOMAIN backends /\ backends[b].flows # {}
     \/ Is(i, "refresh", "out") /\ b \in DOMAIN backends /\ backends[b].token
  /\ Waits(i, Config(b))
  /\ UNCHANGED <<pageVars, acts>>

(* Those conditions are not met, the states differ, or the provider says   *)
(* no.                                                                     *)
OAuthRefused(i) ==
  /\ \/ /\ Is(i, "start", "out") \/ Is(i, "url", "out")
        /\ ~Offers(Arg(i).id, IF calls[i].op = "start" THEN "device" ELSE "code")
     \/ /\ Is(i, "poll", "out")
        /\ Arg(i).id \in DOMAIN backends => backends[Arg(i).id].flows = {} \/ ~backends[Arg(i).id].code
     \/ Is(i, "callback", "out") \/ Is(i, "refresh", "out")
     \/ \E op \in {"start", "poll", "callback", "refresh"} : Is(i, op, "held")
  /\ Refuse(i)
  /\ UNCHANGED <<pageVars, acts>>

(* _save_oauth_cfg: the whole configuration, as it was read and changed;   *)
(* a row that is gone fails the commit (OAuthRefused).                     *)
Saves(i, token, code) ==
  LET b == Arg(i).id IN
  /\ b \in DOMAIN backends
  /\ backends' = [backends EXCEPT ![b] = [@ EXCEPT !.token = token, !.code = code]]
  /\ clobbered' = IF calls[i].body # Config(b) THEN clobbered \cup {b} ELSE clobbered
  /\ UNCHANGED <<created, routes, contested>>

(* oauth_device_start: the gateway is not loaded again.                    *)
DeviceStarted(i) ==
  /\ Is(i, "start", "held")
  /\ Saves(i, calls[i].body.token, TRUE)
  /\ Answer(i, TRUE, NoBody)
  /\ UNCHANGED <<gateway, version, newest, pageVars, acts>>

(* oauth_device_poll: pending for as long as the provider says so.         *)
StillPending(i) ==
  /\ Is(i, "poll", "held")
  /\ Answer(i, TRUE, [status |-> "pending"])
  /\ UNCHANGED <<serverVars, pageVars, acts>>

(* oauth_device_poll, oauth_callback, oauth_refresh: a token.              *)
Granted(i) ==
  /\ \E op \in {"poll", "callback", "refresh"} : Is(i, op, "held")
  /\ Saves(i, TRUE, calls[i].body.code /\ calls[i].op # "poll")
  /\ Commits(i)
  /\ UNCHANGED <<pageVars, acts>>

(* oauth_authorize_url reads and saves without waiting for anyone.         *)
ServeUrl(i) ==
  /\ Is(i, "url", "out") /\ Offers(Arg(i).id, "code")
  /\ Answer(i, TRUE, NoBody)
  /\ UNCHANGED <<serverVars, pageVars, acts>>

----------------------------------------------------------------------------
(* The server: rebuild_gateway.                                            *)

(* load_gateway_from_db.                                                   *)
LoadGateway(i) ==
  /\ i \in DOMAIN calls /\ calls[i].at = "load"
  /\ Goes(i, "assign", Loaded)
  /\ UNCHANGED <<serverVars, pageVars, acts>>

(* What is assigned, and the answer.                                       *)
AssignGateway(i) ==
  /\ i \in DOMAIN calls /\ calls[i].at = "assign"
  /\ gateway' = calls[i].body
  /\ newest' = IF gateway'.ver > newest THEN gateway'.ver ELSE newest
  /\ Answer(i, TRUE, IF calls[i].op = "poll" THEN [status |-> "authorized"] ELSE NoBody)
  /\ UNCHANGED <<tables, version, contested, clobbered, pageVars, acts>>

Serve(i) ==
  \/ ServeList(i) \/ ServeCreate(i) \/ ServeUpdate(i) \/ MakeDefault(i)
  \/ ServeDelete(i) \/ ServeRoute(i)
  \/ AskProvider(i) \/ OAuthRefused(i) \/ DeviceStarted(i) \/ StillPending(i) \/ Granted(i) \/ ServeUrl(i)
  \/ LoadGateway(i) \/ AssignGateway(i)

----------------------------------------------------------------------------
(* The page: what the user does.                                           *)

Ask(op, arg) ==
  /\ acts < MaxActs /\ acts' = acts + 1
  /\ calls' = Append(calls, Request(op, arg)) /\ Fits
  /\ UNCHANGED <<serverVars, fails>>

Change(b, from, default, enabled) == [id |-> b, from |-> from, default |-> default, enabled |-> enabled]

(* The form's button is off until the list is there again.                 *)
Submitting ==
  \E i \in DOMAIN calls :
    \/ calls[i].op = "relist"
    \/ calls[i].op \in {"create", "update"} /\ Arg(i).from = "form"

(* submitBackend: a new one, or the one that was taken to be edited, which *)
(* need not be there any more.  The rest that a form says of an edited     *)
(* one, the server does not take.                                          *)
SubmitBackend ==
  /\ ~Submitting
  /\ \E default \in BOOLEAN :
       \/ \E flows \in Offered \cup {{}} : Ask("create", [from |-> "form", default |-> default, flows |-> flows])
       \/ \E b \in DOMAIN list, enabled \in {"on", "off"} : Ask("update", Change(b, "form", default, enabled))
  /\ UNCHANGED pageVars

(* setDefaultBackend, toggleBackend, removeBackend: a row's buttons.       *)
SetDefaultBackend(b) ==
  /\ b \in DOMAIN list /\ ~list[b].default
  /\ Ask("update", Change(b, "row", TRUE, "keep"))
  /\ UNCHANGED pageVars

ToggleBackend(b) ==
  /\ b \in DOMAIN list
  /\ Ask("update", Change(b, "row", FALSE, IF list[b].enabled THEN "off" ELSE "on"))
  /\ UNCHANGED pageVars

RemoveBackend(b) ==
  /\ b \in DOMAIN list
  /\ Ask("delete", [id |-> b, from |-> "row"])
  /\ UNCHANGED pageVars

(* saveRoute.                                                              *)
SaveRoute ==
  /\ \E u \in User, b \in DOMAIN list \cup {NoBackend} : Ask("route", [id |-> b, from |-> "row", user |-> u])
  /\ UNCHANGED pageVars

(* The button over the list.                                               *)
RefreshList == Ask("list", NoBody) /\ UNCHANGED pageVars

(* startOAuthLogin, refreshOAuthToken: a row's buttons.  A login has the   *)
(* number of the act.                                                      *)
StartLogin(b) ==
  /\ b \in DOMAIN list
  /\ \/ "device" \in list[b].flows /\ Ask("start", [id |-> b, login |-> acts + 1])
     \/ list[b].flows = {"code"} /\ Ask("url", [id |-> b])
  /\ UNCHANGED pageVars

RefreshToken(b) ==
  /\ b \in DOMAIN list /\ list[b].status = "authorized"
  /\ Ask("refresh", [id |-> b])
  /\ UNCHANGED pageVars

(* submitAuthorizationCode.                                                *)
SubmitCode ==
  /\ dialog.mode = "code"
  /\ \A i \in DOMAIN calls : calls[i].op # "callback"
  /\ Ask("callback", [id |-> dialog.id])
  /\ UNCHANGED pageVars

CloseDialog ==
  /\ dialog # NoDialog
  /\ dialog' = NoDialog
  /\ UNCHANGED <<serverVars, list, ended, acts, apiVars>>

(* Another administrator's page asks for a change.                         *)
Elsewhere ==
  /\ \E b \in DOMAIN backends :
       \/ Ask("delete", [id |-> b, from |-> "other"])
       \/ Ask("update", Change(b, "other", TRUE, "keep"))
       \/ \E enabled \in {"on", "off"} : Ask("update", Change(b, "other", FALSE, enabled))
  /\ UNCHANGED pageVars

----------------------------------------------------------------------------
(* The page: what it makes of the answers.                                 *)

Heard(i, more) == calls' = Without(i, more) /\ UNCHANGED <<serverVars, acts, fails>>

HearList(i) ==
  /\ Is(i, "list", "back") \/ Is(i, "relist", "back")
  /\ list' = IF calls[i].ok THEN calls[i].body ELSE list
  /\ Heard(i, <<>>)
  /\ UNCHANGED <<dialog, ended>>

(* After a change that was made, refresh.                                  *)
HearChange(i) ==
  /\ \E op \in {"create", "update", "delete", "route"} : Is(i, op, "back")
  /\ LET reload == IF Arg(i).from = "form" THEN "relist" ELSE "list"
     IN Heard(i, IF calls[i].ok /\ Arg(i).from # "other" THEN <<Request(reload, NoBody)>> ELSE <<>>)
  /\ UNCHANGED pageVars

(* Mutant: every row that has a configuration is marked.                   *)
MarkAll(b) ==
  [x \in DOMAIN list |-> IF list[x].status # "none" THEN [list[x] EXCEPT !.status = "authorized"] ELSE list[x]]

(* markOAuthAuthorized.                                                    *)
Mark(b) ==
  [x \in DOMAIN list |-> IF x = b /\ list[x].status # "none"
                         THEN [list[x] EXCEPT !.status = "authorized"] ELSE list[x]]

Attempt(b, login, n) == [id |-> b, login |-> login, attempt |-> n]

(* The rest of startOAuthLogin: a dialog, and the first poll.              *)
HearStart(i) ==
  /\ Is(i, "start", "back") /\ calls[i].ok
  /\ dialog' = [mode |-> "device", id |-> Arg(i).id, status |-> "pending", login |-> Arg(i).login]
  /\ Heard(i, <<Request("poll", Attempt(Arg(i).id, Arg(i).login, 1))>>)
  /\ UNCHANGED <<list, ended>>

HearUrl(i) ==
  /\ Is(i, "url", "back") /\ calls[i].ok
  /\ dialog' = [mode |-> "code", id |-> Arg(i).id, status |-> "pending", login |-> 0]
  /\ Heard(i, <<>>)
  /\ UNCHANGED <<list, ended>>

(* The rest of submitAuthorizationCode: whatever dialog is open is closed. *)
HearCallback(i) ==
  /\ Is(i, "callback", "back") /\ calls[i].ok
  /\ list' = Mark(Arg(i).id) /\ dialog' = NoDialog
  /\ Heard(i, <<>>)
  /\ UNCHANGED ended

HearRefreshed(i) ==
  /\ Is(i, "refresh", "back") /\ calls[i].ok
  /\ list' = Mark(Arg(i).id)
  /\ Heard(i, <<>>)
  /\ UNCHANGED <<dialog, ended>>

HearRefusal(i) ==
  /\ \E op \in {"start", "url", "callback", "refresh"} : Is(i, op, "back")
  /\ ~calls[i].ok
  /\ Heard(i, <<>>)
  /\ UNCHANGED pageVars

(* Mutant: the loop is left at the first answer.                           *)
PollAgainNever(i) == FALSE

PollAgain(i) == calls[i].body.status = "pending" /\ Arg(i).attempt < MaxAttempts

(* pollDeviceUntilAuthorized.  It goes on when its dialog is closed or     *)
(* another is opened.  It ends without success when the last attempt finds *)
(* the login pending, or with an error, for which there is no handler: the *)
(* dialog goes on saying that it waits.                                    *)
HearPoll(i) ==
  LET b == Arg(i).id
      authorized == calls[i].ok /\ calls[i].body.status = "authorized"
      givesUp == ~calls[i].ok \/ (calls[i].body.status = "pending" /\ Arg(i).attempt = MaxAttempts) IN
  /\ Is(i, "poll", "back")
  /\ list' = IF authorized THEN Mark(b) ELSE list
  /\ dialog' = IF authorized /\ dialog.mode = "device" /\ dialog.id = b
               THEN [dialog EXCEPT !.status = "authorized"] ELSE dialog
  /\ ended' = IF givesUp THEN ended \cup {Arg(i).login} ELSE ended
  /\ Heard(i, IF calls[i].ok /\ PollAgain(i) THEN <<Request("poll", Attempt(b, Arg(i).login, Arg(i).attempt + 1))>> ELSE <<>>)

Lost(i) == NeverArrives(i) /\ UNCHANGED <<serverVars, pageVars, acts>>

Hear(i) ==
  \/ HearList(i) \/ HearChange(i) \/ HearStart(i) \/ HearUrl(i) \/ HearCallback(i)
  \/ HearRefreshed(i) \/ HearRefusal(i) \/ HearPoll(i)

Next ==
  \/ \E i \in DOMAIN calls : Serve(i) \/ Lost(i) \/ Hear(i)
  \/ SubmitBackend \/ SaveRoute \/ RefreshList \/ SubmitCode \/ CloseDialog \/ Elsewhere
  \/ \E b \in Id : \/ SetDefaultBackend(b) \/ ToggleBackend(b) \/ RemoveBackend(b)
                   \/ StartLogin(b) \/ RefreshToken(b)

Spec == Init /\ [][Next]_vars

(* The server answers and promises settle.                                 *)
FairSpec == Spec /\ WF_vars(\E i \in DOMAIN calls : Serve(i) \/ Hear(i))

----------------------------------------------------------------------------
(* Properties.                                                             *)

(* There is one default at most (_clear_default), unless the last one was  *)
(* made by a handler that had read the defaults before another one's       *)
(* commit.                                                                 *)
OneDefault == contested \/ \A a, b \in Defaults : a = b

(* A change takes effect at once (rebuild_gateway): with no handler        *)
(* between its commit and its assignment, the gateway has the backends,    *)
(* defaults, routes and tokens of the tables, unless an older load was     *)
(* assigned after a newer one, and but for tokens that a login of the same *)
(* backend had written over.                                               *)
GatewayFollows ==
  (/\ \A i \in DOMAIN calls : calls[i].at \notin {"load", "assign"}
   /\ gateway.ver = newest)
  => /\ gateway.backends = Loaded.backends /\ gateway.defaults = Loaded.defaults
     /\ gateway.routes = routes
     /\ gateway.tokens \ clobbered = Loaded.tokens \ clobbered

(* What administrators set is what the platform uses, for requests of any  *)
(* number of pages that overlap between their reads and commits, and       *)
(* between commits and the assignment of the gateway (model_admin.py).     *)
ChangesTakeEffect == OneDefault /\ GatewayFollows

(* The page calls a backend authorized, in its list or in the dialog, only *)
(* if that very backend has a token on the server, was deleted, or had its *)
(* configuration written over by a login that overlapped: an answer about  *)
(* another one, a list that comes late or a refresh does not make it so.   *)
AuthorizedHasToken ==
  LET fine(b) == b \in DOMAIN backends => backends[b].token \/ b \in clobbered IN
  /\ \A b \in DOMAIN list : list[b].status = "authorized" => fine(b)
  /\ dialog.status = "authorized" => fine(dialog.id)

(* A device dialog that waits for the login says in the end that it is     *)
(* done, or is closed, unless the polls of that very login ended without   *)
(* success: with an error, or after the last attempt (30 in the code,      *)
(* pollDeviceUntilAuthorized), and the dialog is left as it is.            *)
DialogSettles ==
  (dialog.mode = "device" /\ dialog.status = "pending") ~>
    (dialog.mode # "device" \/ dialog.status = "authorized" \/ dialog.login \in ended)
=============================================================================
