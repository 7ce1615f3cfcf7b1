------------------------- MODULE ModelAdmin_proofs --------------------------
(***************************************************************************)
(* What administrators set is what the platform uses, and the page calls a *)
(* backend authorized only if it is: for any users, backends and pages,    *)
(* and any number of handlers between their reads, their commits and the   *)
(* assignment of the gateway.                                              *)
(***************************************************************************)
EXTENDS ModelAdmin, ApiCalls_proofs

(* A row of backends, with any contents but for the default.               *)
IsRow(r) ==
  /\ r = [default |-> r.default, enabled |-> r.enabled, flows |-> r.flows, token |-> r.token, code |-> r.code]
  /\ r.default \in BOOLEAN

Tables ==
  /\ created \in Nat
  /\ \A b \in DOMAIN backends : b \in 1 .. created /\ IsRow(backends[b])

(* The backends that have a token, were deleted, or whose configuration    *)
(* was written over: once in it, always in it.                             *)
Held == {b \in 1 .. created : b \in DOMAIN backends => backends[b].token \/ b \in clobbered}

Rightly(bs, g) == \A b \in DOMAIN bs : bs[b].status = "authorized" => b \in g

(* A load l that holds what the tables hold at s, and one that does unless *)
(* it is of an earlier version.                                            *)
Follows(l, s, cl) ==
  /\ l.backends = s.backends /\ l.defaults = s.defaults /\ l.routes = s.routes
  /\ l.tokens \ cl = s.tokens \ cl

Agrees(l, s, cl) ==
  /\ l.ver \in Nat /\ l.ver <= s.ver
  /\ l.ver = s.ver => Follows(l, s, cl)

(* What a request says is right, while the backends in g hold a token and  *)
(* the tables are s.                                                       *)
Good(c, g, s, cl) ==
  /\ IsRequest(c)
  /\ c.ok => c.at = "back"
  /\ c.op \in {"list", "relist"} => c.at \in {"out", "back"}
  /\ c.op \in {"callback", "poll", "refresh"} /\ c.at \in {"load", "assign"} => c.arg.id \in g
  /\ c.ok => /\ c.op \in {"list", "relist"} => Rightly(c.body, g)
             /\ c.op \in {"callback", "refresh"} => c.arg.id \in g
             /\ c.op = "poll" /\ c.body.status = "authorized" => c.arg.id \in g
  /\ c.at = "assign" => Agrees(c.body, s, cl)

GoodList(q, g, s, cl) == IsSeq(q) /\ \A j \in DOMAIN q : Good(q[j], g, s, cl)

(* A handler that will assign a gateway of version v.                      *)
Due(c, v) == c.at = "load" \/ (c.at = "assign" /\ c.body.ver = v)

Counts ==
  /\ version \in Nat /\ newest \in Nat /\ newest <= version
  /\ gateway.ver <= newest /\ Agrees(gateway, Loaded, clobbered)

ShowsRightly ==
  /\ Rightly(list, Held)
  /\ DOMAIN dialog = {"mode", "id", "status", "login"}
  /\ dialog.status = "authorized" => dialog.id \in Held

(* The inductive invariant.                                                *)
Inv ==
  /\ Tables /\ OneDefault /\ Counts
  /\ GoodList(calls, Held, Loaded, clobbered)
  /\ newest = version \/ \E j \in DOMAIN calls : Due(calls[j], version)
  /\ ShowsRightly

----------------------------------------------------------------------------
(* How the tables move.                                                    *)

(* A step keeps tokens or says that it does not; a new row has a new       *)
(* number.                                                                 *)
Moves ==
  /\ created' \in Nat /\ created <= created' /\ clobbered \subseteq clobbered'
  /\ \A x \in DOMAIN backends' :
       /\ x \in 1 .. created' /\ IsRow(backends'[x])
       /\ x \in DOMAIN backends => (backends[x].token => backends'[x].token \/ x \in clobbered')
       /\ x \notin DOMAIN backends => ~(x <= created)

LEMMA MovesKeep ==
  ASSUME Tables, Moves PROVE Tables' /\ Held \subseteq Held'
<1>1. Tables' BY DEF Tables, Moves
<1>2. ASSUME NEW b \in Held PROVE b \in Held'
  <2>1. b \in 1 .. created /\ b \in 1 .. created' BY <1>2 DEF Held, Tables, Moves
  <2>2. ASSUME b \in DOMAIN backends' PROVE backends'[b].token \/ b \in clobbered'
    <3>1. b \in DOMAIN backends BY <2>1, <2>2 DEF Moves
    <3>2. backends[b].token \/ b \in clobbered BY <1>2, <3>1 DEF Held
    <3> QED BY <2>2, <3>1, <3>2 DEF Moves
  <2> QED BY <2>1, <2>2 DEF Held
<1> QED BY <1>1, <1>2

(* Rows after a change of their fields.                                    *)
RowOf(d, e, f, t, c) == [default |-> d, enabled |-> e, flows |-> f, token |-> t, code |-> c]

LEMMA RowsOf ==
  ASSUME NEW d, NEW e, NEW f, NEW t, NEW c
  PROVE  LET r == RowOf(d, e, f, t, c)
         IN /\ r.default = d /\ r.enabled = e /\ r.flows = f /\ r.token = t /\ r.code = c
            /\ d \in BOOLEAN => IsRow(r)
  BY DEF RowOf, IsRow

LEMMA WithDefault ==
  ASSUME NEW r, IsRow(r), NEW d \in BOOLEAN
  PROVE  LET s == [r EXCEPT !.default = d]
         IN IsRow(s) /\ s.default = d /\ s.token = r.token /\ s.enabled = r.enabled
<1>1. [r EXCEPT !.default = d] = RowOf(d, r.enabled, r.flows, r.token, r.code) BY DEF IsRow, RowOf
<1> QED BY <1>1, RowsOf

LEMMA WithEnabled ==
  ASSUME NEW r, IsRow(r), NEW e
  PROVE  LET s == [r EXCEPT !.enabled = e]
         IN IsRow(s) /\ s.default = r.default /\ s.token = r.token
<1>1. [r EXCEPT !.enabled = e] = RowOf(r.default, e, r.flows, r.token, r.code) BY DEF IsRow, RowOf
<1> QED BY <1>1, RowsOf DEF IsRow

Both(r, d, e) == [r EXCEPT !.default = d, !.enabled = e]

LEMMA WithBoth ==
  ASSUME NEW r, IsRow(r), NEW d \in BOOLEAN, NEW e
  PROVE  IsRow(Both(r, d, e)) /\ Both(r, d, e).default = d /\ Both(r, d, e).token = r.token
<1> DEFINE q == Both(r, d, e)
<1>1. DOMAIN r = {"default", "enabled", "flows", "token", "code"} BY DEF IsRow
<1>2. /\ DOMAIN q = {"default", "enabled", "flows", "token", "code"} /\ q = [f \in DOMAIN q |-> q[f]]
      /\ q.default = d /\ q.enabled = e /\ q.flows = r.flows /\ q.token = r.token /\ q.code = r.code
  BY <1>1 DEF Both
<1> HIDE DEF q
<1>3. q = RowOf(d, e, r.flows, r.token, r.code) BY <1>2 DEF RowOf
<1>4. IsRow(q) BY <1>3, RowsOf DEF IsRow
<1> QED BY <1>2, <1>4 DEF q

Configured(r, t, c) == [r EXCEPT !.token = t, !.code = c]

LEMMA WithConfig ==
  ASSUME NEW r, IsRow(r), NEW t, NEW c
  PROVE  /\ IsRow(Configured(r, t, c)) /\ Configured(r, t, c).token = t
         /\ Configured(r, t, c).default = r.default /\ Configured(r, t, c).enabled = r.enabled
<1> DEFINE q == Configured(r, t, c)
<1>1. DOMAIN r = {"default", "enabled", "flows", "token", "code"} BY DEF IsRow
<1>2. /\ DOMAIN q = {"default", "enabled", "flows", "token", "code"} /\ q = [f \in DOMAIN q |-> q[f]]
      /\ q.default = r.default /\ q.enabled = r.enabled /\ q.flows = r.flows /\ q.token = t /\ q.code = c
  BY <1>1 DEF Configured
<1> HIDE DEF q
<1>3. q = RowOf(r.default, r.enabled, r.flows, t, c) BY <1>2 DEF RowOf
<1>4. IsRow(q) BY <1>3, RowsOf DEF IsRow
<1> QED BY <1>2, <1>4 DEF q

LEMMA WithToken ==
  ASSUME NEW r, IsRow(r), NEW t
  PROVE  LET s == [r EXCEPT !.token = t] IN IsRow(s) /\ s.default = r.default
<1>1. [r EXCEPT !.token = t] = RowOf(r.default, r.enabled, r.flows, t, r.code) BY DEF IsRow, RowOf
<1> QED BY <1>1, RowsOf DEF IsRow

LEMMA NewRow ==
  ASSUME NEW d \in BOOLEAN, NEW flows
  PROVE  IsRow(NewBackend(d, flows)) /\ NewBackend(d, flows).default = d /\ NewBackend(d, flows).token = FALSE
  BY DEF IsRow, NewBackend

LEMMA ClearedRows ==
  ASSUME Tables, NEW R
  PROVE  /\ DOMAIN Cleared(R) = DOMAIN backends
         /\ \A x \in DOMAIN backends :
              /\ IsRow(Cleared(R)[x]) /\ Cleared(R)[x].token = backends[x].token
              /\ Cleared(R)[x].default = (backends[x].default /\ x \notin R)
<1>1. DOMAIN Cleared(R) = DOMAIN backends BY DEF Cleared
<1>2. ASSUME NEW x \in DOMAIN backends
      PROVE  /\ IsRow(Cleared(R)[x]) /\ Cleared(R)[x].token = backends[x].token
             /\ Cleared(R)[x].default = (backends[x].default /\ x \notin R)
  <2>1. IsRow(backends[x]) /\ backends[x].default \in BOOLEAN BY DEF Tables, IsRow
  <2>2. CASE x \in R
    <3>1. Cleared(R)[x] = [backends[x] EXCEPT !.default = FALSE] BY <2>2 DEF Cleared
    <3> QED BY <2>1, <2>2, <3>1, WithDefault
  <2>3. CASE x \notin R
    <3>1. Cleared(R)[x] = backends[x] BY <2>3 DEF Cleared
    <3> QED BY <2>1, <2>3, <3>1
  <2> QED BY <2>2, <2>3
<1> QED BY <1>1, <1>2

LEMMA InsertMoves ==
  ASSUME Tables, OneDefault, NEW flows, Inserted(FALSE, flows), UNCHANGED <<contested, clobbered>>
  PROVE  Moves /\ OneDefault'
<1> DEFINE r == NewBackend(FALSE, flows)
<1>1. IsRow(r) /\ r.default = FALSE BY NewRow
<1>2. created' = created + 1 /\ DOMAIN backends' = DOMAIN backends \cup {created'}
      /\ \A b \in DOMAIN backends' : backends'[b] = IF b = created' THEN r ELSE backends[b]
  BY DEF Inserted
<1> HIDE DEF r
<1>3. created \in Nat /\ \A b \in DOMAIN backends : b \in 1 .. created /\ IsRow(backends[b])
  BY DEF Tables
<1>4. \A b \in DOMAIN backends : b # created' /\ b \in 1 .. created' BY <1>2, <1>3
<1>5. created' \in 1 .. created' /\ ~(created' <= created) BY <1>2, <1>3
<1>6. Moves BY <1>1, <1>2, <1>3, <1>4, <1>5 DEF Moves
<1>7. Defaults' = Defaults BY <1>1, <1>2, <1>4 DEF Defaults
<1> QED BY <1>6, <1>7 DEF OneDefault

LEMMA SwitchMoves ==
  ASSUME Tables, OneDefault, NEW b \in DOMAIN backends, NEW e,
         backends' = [backends EXCEPT ![b].enabled = e], UNCHANGED <<created, contested, clobbered>>
  PROVE  Moves /\ OneDefault'
<1>1. DOMAIN backends' = DOMAIN backends BY DEF Tables
<1>2. ASSUME NEW x \in DOMAIN backends
      PROVE IsRow(backends'[x]) /\ backends'[x].default = backends[x].default
            /\ backends'[x].token = backends[x].token
  <2>1. IsRow(backends[x]) BY DEF Tables
  <2>2. backends'[x] = backends[x] \/ backends'[x] = [backends[x] EXCEPT !.enabled = e] OBVIOUS
  <2> QED BY <2>1, <2>2, WithEnabled
<1>3. Moves BY <1>1, <1>2 DEF Moves, Tables
<1>4. Defaults' = Defaults BY <1>1, <1>2 DEF Defaults
<1> QED BY <1>3, <1>4 DEF OneDefault

LEMMA DeleteMoves ==
  ASSUME Tables, OneDefault, NEW b, backends' = [x \in DOMAIN backends \ {b} |-> backends[x]],
         UNCHANGED <<created, contested, clobbered>>
  PROVE  Moves /\ OneDefault'
<1>1. Moves BY DEF Moves, Tables
<1>2. Defaults' \subseteq Defaults BY DEF Defaults
<1> QED BY <1>1, <1>2 DEF OneDefault

(* The commit of a default over a fresh read leaves that default only.     *)
LEMMA DefaultMoves ==
  ASSUME Tables, NEW i \in DOMAIN calls, MakeDefault(i), ~Refuse(i)
  PROVE  Moves /\ OneDefault'
<1> DEFINE read == calls[i].body.defaults
           b == IF calls[i].op = "update" THEN Arg(i).id ELSE NoBackend
           c == Cleared(read \ {b})
           r == NewBackend(TRUE, Arg(i).flows)
<1>1. created \in Nat /\ \A x \in DOMAIN backends : x \in 1 .. created /\ x \in Nat /\ IsRow(backends[x])
  BY DEF Tables
<1>2. /\ DOMAIN c = DOMAIN backends
      /\ \A x \in DOMAIN backends : /\ IsRow(c[x]) /\ c[x].token = backends[x].token
                                    /\ c[x].default = (backends[x].default /\ x \notin read \ {b})
  BY ClearedRows
<1>3. contested' = (read # Defaults) /\ clobbered' = clobbered BY DEF MakeDefault, Refuse
<1>4. \/ /\ calls[i].op = "create" /\ created' = created + 1
         /\ backends' = [x \in DOMAIN backends \cup {created'} |-> IF x = created' THEN r ELSE c[x]]
      \/ /\ calls[i].op = "update" /\ b \in DOMAIN backends /\ created' = created
         /\ backends' = [c EXCEPT ![b] =
              [@ EXCEPT !.default = (backends[b].default \/ b \notin read),
                        !.enabled = Switched(b, Arg(i).enabled, calls[i].body.enabled)]]
  BY DEF MakeDefault
<1>5. ASSUME read = Defaults, NEW x \in DOMAIN backends, c[x].default PROVE x = b
  BY <1>2, <1>5 DEF Defaults
<1>6. IsRow(r) /\ r.default = TRUE BY NewRow
<1> HIDE DEF c, r, read, b
<1>7. CASE calls[i].op = "create" /\ created' = created + 1
           /\ backends' = [x \in DOMAIN backends \cup {created'} |-> IF x = created' THEN r ELSE c[x]]
  <2>1. /\ DOMAIN backends' = DOMAIN backends \cup {created'}
        /\ backends'[created'] = r
        /\ \A x \in DOMAIN backends : x # created' /\ backends'[x] = c[x] /\ x \in 1 .. created'
        /\ created' \in 1 .. created' /\ ~(created' <= created)
    BY <1>1, <1>7
  <2>2. Moves BY <1>1, <1>2, <1>3, <1>6, <1>7, <2>1 DEF Moves
  <2>3. b \notin DOMAIN backends
    <3>1. b = NoBackend /\ NoBackend = 0 BY <1>7 DEF b, NoBackend
    <3>2. 0 \notin 1 .. created BY <1>1
    <3> QED BY <1>1, <3>1, <3>2
  <2>4. ASSUME read = Defaults PROVE Defaults' \subseteq {created'}
    BY <1>5, <2>1, <2>3, <2>4 DEF Defaults
  <2> QED BY <1>3, <2>2, <2>4 DEF OneDefault
<1>8. CASE /\ b \in DOMAIN backends /\ created' = created
           /\ backends' = [c EXCEPT ![b] =
                [@ EXCEPT !.default = (backends[b].default \/ b \notin read),
                        !.enabled = Switched(b, Arg(i).enabled, calls[i].body.enabled)]]
  <2> DEFINE d == backends[b].default \/ b \notin read
             e == Switched(b, Arg(i).enabled, calls[i].body.enabled)
  <2>1. d \in BOOLEAN OBVIOUS
  <2>9. backends'[b] = Both(c[b], d, e) BY <1>2, <1>8 DEF Both
  <2>2. DOMAIN backends' = DOMAIN backends /\ \A x \in DOMAIN backends : x # b => backends'[x] = c[x]
    BY <1>2, <1>8
  <2>3. IsRow(backends'[b]) /\ backends'[b].token = backends[b].token
    <3>1. IsRow(c[b]) /\ c[b].token = backends[b].token BY <1>2, <1>8
    <3> HIDE DEF d, e
    <3> QED BY <2>1, <2>9, <3>1, WithBoth
  <2>4. \A x \in DOMAIN backends : IsRow(backends'[x]) /\ backends'[x].token = backends[x].token
    BY <1>2, <2>2, <2>3
  <2>5. Moves BY <1>1, <1>3, <1>8, <2>2, <2>4 DEF Moves
  <2>6. ASSUME read = Defaults PROVE Defaults' \subseteq {b}
    BY <1>5, <2>2, <2>6 DEF Defaults
  <2> QED BY <1>3, <2>5, <2>6 DEF OneDefault
<1> QED BY <1>4, <1>7, <1>8

(* A configuration that is saved: a token is lost only over a stale read.  *)
LEMMA SaveMoves ==
  ASSUME Tables, OneDefault, NEW i \in DOMAIN calls, NEW token, NEW code, Saves(i, token, code),
         token # TRUE => token = calls[i].body.token
  PROVE  /\ Moves /\ OneDefault'
         /\ Enabled' = Enabled /\ Defaults' = Defaults /\ clobbered \subseteq clobbered'
         /\ token = calls[i].body.token =>
              \A x \in DOMAIN backends : backends'[x].token = backends[x].token \/ x \in clobbered'
         /\ DOMAIN backends' = DOMAIN backends
         /\ token = TRUE => Arg(i).id \in Held'
<1> DEFINE b == Arg(i).id
<1>1. /\ b \in DOMAIN backends /\ DOMAIN backends' = DOMAIN backends
      /\ backends'[b] = Configured(backends[b], token, code)
      /\ \A x \in DOMAIN backends : x # b => backends'[x] = backends[x]
      /\ clobbered \subseteq clobbered' /\ (calls[i].body # Config(b) => b \in clobbered')
      /\ UNCHANGED <<created, contested>>
  BY DEF Saves, Configured
<1>2. IsRow(backends[b]) /\ backends[b].default \in BOOLEAN BY <1>1 DEF Tables, IsRow
<1>3. /\ IsRow(backends'[b]) /\ backends'[b].default = backends[b].default
      /\ backends'[b].enabled = backends[b].enabled /\ backends'[b].token = token
  BY <1>1, <1>2, WithConfig
<1>4. token = calls[i].body.token => token = backends[b].token \/ b \in clobbered'
  BY <1>1 DEF Config
<1> HIDE DEF b
<1>5. \A x \in DOMAIN backends : /\ IsRow(backends'[x]) /\ backends'[x].default = backends[x].default
                                 /\ backends'[x].enabled = backends[x].enabled
                                 /\ backends'[x].token = backends[x].token \/ x \in clobbered' \/ (token = TRUE /\ backends'[x].token)
  BY <1>1, <1>3, <1>4 DEF Tables
<1>6. Moves BY <1>1, <1>3, <1>5 DEF Moves, Tables
<1>7. Enabled' = Enabled /\ Defaults' = Defaults BY <1>1, <1>5 DEF Enabled, Defaults
<1>8. token = TRUE => b \in Held' BY <1>1, <1>3 DEF Held, Tables
<1>9. token = calls[i].body.token =>
        \A x \in DOMAIN backends : backends'[x].token = backends[x].token \/ x \in clobbered'
  BY <1>1, <1>3, <1>4
<1> QED BY <1>1, <1>6, <1>7, <1>8, <1>9 DEF OneDefault, b

----------------------------------------------------------------------------
(* How what requests say lasts.                                            *)

LEMMA GoodLater ==
  ASSUME NEW g, NEW h, NEW s, NEW t, NEW cl, NEW dl, g \subseteq h,
         s.ver \in Nat, t.ver \in Nat, s.ver <= t.ver,
         s.ver = t.ver => \A l : Follows(l, s, cl) => Follows(l, t, dl)
  PROVE  /\ \A c : Good(c, g, s, cl) => Good(c, h, t, dl)
         /\ \A q : GoodList(q, g, s, cl) => GoodList(q, h, t, dl)
         /\ \A l : Agrees(l, s, cl) => Agrees(l, t, dl)
<1>1. ASSUME NEW l, Agrees(l, s, cl) PROVE Agrees(l, t, dl)
  <2>1. l.ver \in Nat /\ l.ver <= s.ver BY <1>1 DEF Agrees
  <2>2. l.ver <= t.ver /\ (l.ver = t.ver => l.ver = s.ver /\ s.ver = t.ver) BY <2>1
  <2> QED BY <1>1, <2>1, <2>2 DEF Agrees
<1>2. ASSUME NEW c, Good(c, g, s, cl) PROVE Good(c, h, t, dl)
  BY <1>1, <1>2 DEF Good, Rightly
<1> QED BY <1>1, <1>2 DEF GoodList

(* A request whose handler goes on.                                        *)
LEMMA GoesRequest ==
  ASSUME IsSeq(calls), \A j \in DOMAIN calls : IsRequest(calls[j]), NEW i \in DOMAIN calls,
         NEW at, NEW body, Goes(i, at, body)
  PROVE  /\ IsSeq(calls') /\ DOMAIN calls' = DOMAIN calls /\ fails' = fails
         /\ \A j \in DOMAIN calls : j # i => calls'[j] = calls[j]
         /\ IsRequest(calls'[i]) /\ calls'[i].op = calls[i].op /\ calls'[i].arg = calls[i].arg
         /\ calls'[i].at = at /\ calls'[i].ok = calls[i].ok /\ calls'[i].body = body
<1> DEFINE q == calls[i]
           e == [q EXCEPT !.at = at, !.body = body]
<1>1. calls' = [calls EXCEPT ![i] = e] /\ fails' = fails BY DEF Goes
<1>2. DOMAIN q = {"op", "arg", "at", "ok", "body"} BY DEF IsRequest
<1> HIDE DEF q
<1>3. /\ DOMAIN e = {"op", "arg", "at", "ok", "body"} /\ e = [f \in DOMAIN e |-> e[f]]
      /\ e.op = q.op /\ e.arg = q.arg /\ e.at = at /\ e.ok = q.ok /\ e.body = body
  BY <1>2
<1> HIDE DEF e
<1>4. e = [op |-> e.op, arg |-> e.arg, at |-> e.at, ok |-> e.ok, body |-> e.body] BY <1>3
<1>5. IsSeq(calls') /\ DOMAIN calls' = DOMAIN calls
      /\ \A j \in DOMAIN calls : calls'[j] = IF j = i THEN e ELSE calls[j]
  BY <1>1, ExceptList
<1> QED BY <1>1, <1>3, <1>4, <1>5 DEF IsRequest, q

LEMMA FreshGood ==
  ASSUME NEW op, NEW arg, NEW g, NEW s, NEW cl
  PROVE  Good(Request(op, arg), g, s, cl) /\ Request(op, arg).at = "out"
<1> DEFINE e == Request(op, arg)
<1>1. IsRequest(e) /\ e.ok = FALSE /\ e.at = "out" BY FreshRequest DEF Request
<1> HIDE DEF e
<1>2. Good(e, g, s, cl) BY <1>1 DEF Good
<1> QED BY <1>1, <1>2 DEF e

(* The page shows what it did, and tokens are kept.                        *)
LEMMA ShownLater ==
  ASSUME ShowsRightly, UNCHANGED pageVars, Held \subseteq Held' PROVE ShowsRightly'
  BY DEF ShowsRightly, pageVars, Rightly

LEMMA SameServer ==
  ASSUME UNCHANGED serverVars
  PROVE  /\ Held' = Held /\ Loaded' = Loaded /\ UNCHANGED <<clobbered, version, newest, gateway>>
         /\ Tables' = Tables /\ OneDefault' = OneDefault /\ Counts' = Counts
  BY DEF serverVars, tables, histories, Held, Loaded, Enabled, Tables, OneDefault, Defaults, Counts

LEMMA LoadedFields ==
  /\ Loaded.backends = Enabled /\ Loaded.defaults = {b \in Enabled : backends[b].default}
  /\ Loaded.tokens = {b \in Enabled : backends[b].token}
  /\ Loaded.routes = routes /\ Loaded.ver = version
  BY DEF Loaded

----------------------------------------------------------------------------
(* The steps of the server.                                                *)

(* A commit: everything loaded before is of an earlier version now.        *)
LEMMA CommitKeeps ==
  ASSUME Inv, NEW i \in DOMAIN calls, Commits(i), Moves, OneDefault', UNCHANGED pageVars,
         calls[i].at # "back", calls[i].op \notin {"list", "relist"},
         calls[i].op \in {"callback", "poll", "refresh"} => calls[i].arg.id \in Held'
  PROVE  Inv'
<1>1. Tables' /\ Held \subseteq Held' BY MovesKeep DEF Inv
<1>2. version' = version + 1 /\ newest' = newest /\ gateway' = gateway /\ Goes(i, "load", NoBody)
  BY DEF Commits
<1>3. version \in Nat /\ newest \in Nat /\ newest <= version /\ gateway.ver <= newest
      /\ Agrees(gateway, Loaded, clobbered)
  BY DEF Inv, Counts
<1>4. Loaded.ver = version /\ Loaded'.ver = version' BY LoadedFields DEF Loaded
<1>5. Loaded.ver \in Nat /\ Loaded'.ver \in Nat /\ Loaded.ver <= Loaded'.ver /\ Loaded.ver # Loaded'.ver
  BY <1>2, <1>3, <1>4
<1>6. /\ GoodList(calls, Held', Loaded', clobbered') /\ Agrees(gateway, Loaded', clobbered')
  BY <1>1, <1>3, <1>5, GoodLater DEF Inv
<1>7. IsSeq(calls) /\ \A j \in DOMAIN calls : IsRequest(calls[j]) BY <1>6 DEF GoodList, Good
<1>8. /\ IsSeq(calls') /\ DOMAIN calls' = DOMAIN calls
      /\ \A j \in DOMAIN calls : j # i => calls'[j] = calls[j]
      /\ IsRequest(calls'[i]) /\ calls'[i].op = calls[i].op /\ calls'[i].arg = calls[i].arg
      /\ calls'[i].at = "load" /\ calls'[i].ok = calls[i].ok
  BY <1>2, <1>7, GoesRequest
<1>9. Good(calls'[i], Held', Loaded', clobbered')
  <2>1. ~calls[i].ok BY <1>6 DEF GoodList, Good
  <2> QED BY <1>8, <2>1 DEF Good
<1>10. GoodList(calls', Held', Loaded', clobbered') BY <1>6, <1>8, <1>9 DEF GoodList
<1>11. Counts' BY <1>2, <1>3, <1>6 DEF Counts
<1>12. Due(calls'[i], version') BY <1>8 DEF Due
<1>13. ShowsRightly' BY <1>1, ShownLater DEF Inv
<1> QED BY <1>1, <1>8, <1>10, <1>11, <1>12, <1>13 DEF Inv

(* An answer of a handler that owes no gateway.                            *)
LEMMA AnswerKeeps ==
  ASSUME Inv, NEW i \in DOMAIN calls, NEW ok, NEW body, Answer(i, ok, body) \/ NeverArrives(i),
         UNCHANGED serverVars, UNCHANGED pageVars,
         calls[i].at \in {"out", "held"},
         ok => /\ calls[i].op \in {"list", "relist"} => Rightly(body, Held)
               /\ calls[i].op \in {"callback", "refresh"} => calls[i].arg.id \in Held
               /\ calls[i].op = "poll" /\ body.status = "authorized" => calls[i].arg.id \in Held
  PROVE  Inv'
<1>1. /\ Held' = Held /\ Loaded' = Loaded /\ UNCHANGED <<clobbered, version, newest, gateway>>
      /\ Tables' /\ OneDefault' /\ Counts'
  BY SameServer DEF Inv
<1>2. IsSeq(calls) /\ (\A j \in DOMAIN calls : IsRequest(calls[j])) /\ GoodList(calls, Held, Loaded, clobbered)
  BY DEF Inv, GoodList, Good
<1>3. /\ IsSeq(calls') /\ DOMAIN calls' = DOMAIN calls
      /\ \A j \in DOMAIN calls : j # i => calls'[j] = calls[j]
      /\ IsRequest(calls'[i])
      /\ calls'[i].op = calls[i].op /\ calls'[i].arg = calls[i].arg /\ calls'[i].at = "back"
      /\ \/ calls'[i].ok = ok /\ calls'[i].body = body
         \/ calls'[i].ok = calls[i].ok /\ calls'[i].body = calls[i].body
  BY <1>2, AnsweredRequest
<1>4. ~calls[i].ok BY <1>2 DEF GoodList, Good
<1>5. Good(calls'[i], Held, Loaded, clobbered) BY <1>3, <1>4 DEF Good
<1>6. GoodList(calls', Held, Loaded, clobbered) BY <1>2, <1>3, <1>5 DEF GoodList
<1>7. newest = version \/ \E j \in DOMAIN calls' : Due(calls'[j], version)
  <2>1. ~Due(calls[i], version) BY DEF Due
  <2> QED BY <1>3, <2>1 DEF Inv
<1>8. ShowsRightly' BY <1>1, ShownLater DEF Inv
<1> QED BY <1>1, <1>6, <1>7, <1>8 DEF Inv

LEMMA WaitKeeps ==
  ASSUME Inv, NEW i \in DOMAIN calls, NEW body, Waits(i, body), UNCHANGED pageVars, calls[i].at = "out",
         calls[i].op \notin {"list", "relist"}
  PROVE  Inv'
<1>1. Goes(i, "held", body) /\ UNCHANGED serverVars BY DEF Waits
<1>2. /\ Held' = Held /\ Loaded' = Loaded /\ UNCHANGED <<clobbered, version, newest, gateway>>
      /\ Tables' /\ OneDefault' /\ Counts'
  BY <1>1, SameServer DEF Inv
<1>3. IsSeq(calls) /\ (\A j \in DOMAIN calls : IsRequest(calls[j])) /\ GoodList(calls, Held, Loaded, clobbered)
  BY DEF Inv, GoodList, Good
<1>4. /\ IsSeq(calls') /\ DOMAIN calls' = DOMAIN calls
      /\ \A j \in DOMAIN calls : j # i => calls'[j] = calls[j]
      /\ IsRequest(calls'[i]) /\ calls'[i].op = calls[i].op
      /\ calls'[i].at = "held" /\ calls'[i].ok = calls[i].ok
  BY <1>1, <1>3, GoesRequest
<1>5. ~calls[i].ok BY <1>3 DEF GoodList, Good
<1>6. Good(calls'[i], Held, Loaded, clobbered) BY <1>4, <1>5 DEF Good
<1>7. GoodList(calls', Held, Loaded, clobbered) BY <1>3, <1>4, <1>6 DEF GoodList
<1>8. newest = version \/ \E j \in DOMAIN calls' : Due(calls'[j], version)
  <2>1. ~Due(calls[i], version) BY DEF Due
  <2> QED BY <1>4, <2>1 DEF Inv
<1>9. ShowsRightly' BY <1>2, ShownLater DEF Inv
<1> QED BY <1>2, <1>7, <1>8, <1>9 DEF Inv

LEMMA LoadKeeps ==
  ASSUME Inv, NEW i \in DOMAIN calls, LoadGateway(i) PROVE Inv'
<1>1. Goes(i, "assign", Loaded) /\ UNCHANGED serverVars /\ UNCHANGED pageVars /\ calls[i].at = "load"
  BY DEF LoadGateway
<1>2. /\ Held' = Held /\ Loaded' = Loaded /\ UNCHANGED <<clobbered, version, newest, gateway>>
      /\ Tables' /\ OneDefault' /\ Counts'
  BY <1>1, SameServer DEF Inv
<1>3. IsSeq(calls) /\ (\A j \in DOMAIN calls : IsRequest(calls[j])) /\ GoodList(calls, Held, Loaded, clobbered)
  BY DEF Inv, GoodList, Good
<1>4. /\ IsSeq(calls') /\ DOMAIN calls' = DOMAIN calls
      /\ \A j \in DOMAIN calls : j # i => calls'[j] = calls[j]
      /\ IsRequest(calls'[i]) /\ calls'[i].op = calls[i].op /\ calls'[i].arg = calls[i].arg
      /\ calls'[i].at = "assign" /\ calls'[i].ok = calls[i].ok /\ calls'[i].body = Loaded
  BY <1>1, <1>3, GoesRequest
<1>5. Agrees(Loaded, Loaded, clobbered)
  BY LoadedFields DEF Agrees, Follows, Inv, Counts
<1>6. Good(calls'[i], Held, Loaded, clobbered)
  <2>1. ~calls[i].ok /\ calls[i].op \notin {"list", "relist"} /\ (calls[i].op \in {"callback", "poll", "refresh"} => calls[i].arg.id \in Held)
    BY <1>1, <1>3 DEF GoodList, Good
  <2> QED BY <1>4, <1>5, <2>1 DEF Good
<1>7. GoodList(calls', Held, Loaded, clobbered) BY <1>3, <1>4, <1>6 DEF GoodList
<1>8. Due(calls'[i], version)
  <2>1. calls'[i].at = "assign" /\ calls'[i].body.ver = version BY <1>4, LoadedFields
  <2> QED BY <2>1 DEF Due
<1>9. ShowsRightly' BY <1>1, <1>2, ShownLater DEF Inv
<1> QED BY <1>2, <1>4, <1>7, <1>8, <1>9 DEF Inv

(* The assignment of a gateway, older than the one before or not.          *)
LEMMA AssignKeeps ==
  ASSUME Inv, NEW i \in DOMAIN calls, AssignGateway(i) PROVE Inv'
<1> DEFINE body == IF calls[i].op = "poll" THEN [status |-> "authorized"] ELSE NoBody
           l == calls[i].body
<1>1. /\ calls[i].at = "assign" /\ gateway' = l /\ Answer(i, TRUE, body)
      /\ newest' = IF l.ver > newest THEN l.ver ELSE newest
      /\ UNCHANGED <<tables, version, contested, clobbered, pageVars>>
  BY DEF AssignGateway
<1>2. Held' = Held /\ Loaded' = Loaded /\ Tables' /\ OneDefault'
  BY <1>1 DEF tables, Held, Loaded, Enabled, Tables, OneDefault, Defaults, Inv
<1>3. IsSeq(calls) /\ (\A j \in DOMAIN calls : IsRequest(calls[j])) /\ GoodList(calls, Held, Loaded, clobbered)
  BY DEF Inv, GoodList, Good
<1>4. Agrees(l, Loaded, clobbered) /\ ~calls[i].ok /\ calls[i].op \notin {"list", "relist"}
      /\ (calls[i].op \in {"callback", "poll", "refresh"} => calls[i].arg.id \in Held)
  BY <1>1, <1>3 DEF GoodList, Good
<1> HIDE DEF body, l
<1>5. /\ IsSeq(calls') /\ DOMAIN calls' = DOMAIN calls
      /\ \A j \in DOMAIN calls : j # i => calls'[j] = calls[j]
      /\ IsRequest(calls'[i])
      /\ calls'[i].op = calls[i].op /\ calls'[i].arg = calls[i].arg /\ calls'[i].at = "back"
      /\ \/ calls'[i].ok = TRUE /\ calls'[i].body = body
         \/ calls'[i].ok = calls[i].ok /\ calls'[i].body = calls[i].body
  BY <1>1, <1>3, AnsweredRequest
<1>6. l.ver \in Nat /\ l.ver <= version /\ version \in Nat /\ newest \in Nat /\ newest <= version
  <2>1. l.ver \in Nat /\ l.ver <= Loaded.ver BY <1>4 DEF Agrees
  <2>2. Loaded.ver = version BY LoadedFields
  <2>3. version \in Nat /\ newest \in Nat /\ newest <= version BY DEF Inv, Counts
  <2> QED BY <2>1, <2>2, <2>3
<1>7. newest' \in Nat /\ newest' <= version /\ gateway'.ver <= newest' /\ (l.ver = version => newest' = version)
      /\ (newest = version => newest' = version)
  BY <1>1, <1>6
<1>8. Counts'
  <2>1. Agrees(gateway', Loaded', clobbered') BY <1>1, <1>2, <1>4
  <2>2. version' = version BY <1>1
  <2>3. version' \in Nat /\ newest' \in Nat /\ newest' <= version' /\ gateway'.ver <= newest'
    BY <1>6, <1>7, <2>2
  <2> QED BY <2>1, <2>3 DEF Counts
<1>9. newest' = version' \/ \E j \in DOMAIN calls' : Due(calls'[j], version')
  <2>1. CASE newest = version BY <1>1, <1>7, <2>1
  <2>2. CASE \E j \in DOMAIN calls : Due(calls[j], version)
    <3>1. PICK j \in DOMAIN calls : Due(calls[j], version) BY <2>2
    <3>2. CASE j = i BY <1>1, <1>7, <3>1, <3>2 DEF Due, l
    <3>3. CASE j # i BY <1>1, <1>5, <3>1, <3>3
    <3> QED BY <3>2, <3>3
  <2> QED BY <2>1, <2>2 DEF Inv
<1>10. Good(calls'[i], Held, Loaded, clobbered) BY <1>4, <1>5 DEF Good
<1>11. ShowsRightly' BY <1>1, <1>2, ShownLater DEF Inv
<1>12. GoodList(calls', Held', Loaded', clobbered') BY <1>1, <1>2, <1>3, <1>5, <1>10 DEF GoodList
<1> QED BY <1>1, <1>2, <1>8, <1>9, <1>11, <1>12 DEF Inv

(* A new device login: the gateway, which keeps tokens, is not loaded, and *)
(* of tokens only one that it wrote over can differ.                       *)
LEMMA StartKeeps ==
  ASSUME Inv, NEW i \in DOMAIN calls, DeviceStarted(i) PROVE Inv'
<1> DEFINE token == calls[i].body.token
<1>1. /\ calls[i].at = "held" /\ calls[i].op = "start" /\ Saves(i, token, TRUE) /\ Answer(i, TRUE, NoBody)
      /\ UNCHANGED <<gateway, version, newest>> /\ UNCHANGED pageVars
  BY DEF DeviceStarted, Is
<1>2. routes' = routes BY <1>1 DEF Saves
<1>3. /\ Moves /\ OneDefault' /\ Enabled' = Enabled /\ Defaults' = Defaults /\ clobbered \subseteq clobbered'
      /\ DOMAIN backends' = DOMAIN backends
  BY <1>1, SaveMoves DEF Inv
<1>4. \A x \in DOMAIN backends : backends'[x].token = backends[x].token \/ x \in clobbered'
  BY <1>1, SaveMoves DEF Inv
<1>5. /\ Loaded.ver = version /\ Loaded'.ver = version /\ version \in Nat
      /\ Loaded'.backends = Loaded.backends /\ Loaded'.defaults = Loaded.defaults /\ Loaded'.routes = Loaded.routes
  <2>1. Loaded'.defaults = {b \in Enabled' : b \in Defaults'} /\ Loaded.defaults = {b \in Enabled : b \in Defaults}
    BY DEF Loaded, Defaults, Enabled
  <2> QED BY <1>1, <1>2, <1>3, <2>1 DEF Loaded, Inv, Counts
<1>6. Loaded'.tokens \ clobbered' = Loaded.tokens \ clobbered'
  <2>1. Loaded'.tokens = {b \in Enabled : backends'[b].token} /\ Loaded.tokens = {b \in Enabled : backends[b].token}
    BY <1>3 DEF Loaded
  <2>2. Enabled \subseteq DOMAIN backends BY DEF Enabled
  <2> QED BY <1>4, <2>1, <2>2
<1>7. \A l : Follows(l, Loaded, clobbered) => Follows(l, Loaded', clobbered')
  BY <1>3, <1>5, <1>6 DEF Follows
<1>8. Tables' /\ Held \subseteq Held' BY <1>3, MovesKeep DEF Inv
<1>9. GoodList(calls, Held', Loaded', clobbered') /\ Agrees(gateway, Loaded', clobbered')
  BY <1>5, <1>7, <1>8, GoodLater DEF Inv, Counts
<1>10. IsSeq(calls) /\ \A j \in DOMAIN calls : IsRequest(calls[j]) BY <1>9 DEF GoodList, Good
<1>11. /\ IsSeq(calls') /\ DOMAIN calls' = DOMAIN calls
       /\ \A j \in DOMAIN calls : j # i => calls'[j] = calls[j]
       /\ IsRequest(calls'[i]) /\ calls'[i].op = calls[i].op /\ calls'[i].at = "back"
  BY <1>1, <1>10, AnsweredRequest
<1>12. Good(calls'[i], Held', Loaded', clobbered') BY <1>1, <1>11 DEF Good
<1>13. GoodList(calls', Held', Loaded', clobbered') BY <1>9, <1>11, <1>12 DEF GoodList
<1>14. Counts' BY <1>1, <1>9 DEF Counts, Inv
<1>15. newest' = version' \/ \E j \in DOMAIN calls' : Due(calls'[j], version')
  <2>1. ~Due(calls[i], version) BY <1>1 DEF Due
  <2> QED BY <1>1, <1>11, <2>1 DEF Inv
<1>16. ShowsRightly' BY <1>1, <1>8, ShownLater DEF Inv
<1> QED BY <1>3, <1>8, <1>13, <1>14, <1>15, <1>16 DEF Inv

LEMMA RefuseKeeps ==
  ASSUME Inv, NEW i \in DOMAIN calls, Refuse(i), UNCHANGED pageVars, calls[i].at \in {"out", "held"}
  PROVE  Inv'
  BY AnswerKeeps DEF Refuse

LEMMA ServeKeeps ==
  ASSUME Inv, NEW i \in DOMAIN calls, Serve(i) PROVE Inv'
<1> USE DEF Is
<1>1. Tables /\ OneDefault BY DEF Inv
<1>2. Rightly(Shown, Held)
  BY DEF Rightly, Shown, Held, Inv, Tables
<1>3. CASE ServeList(i)
  <2>1. Answer(i, TRUE, Shown) /\ UNCHANGED serverVars /\ UNCHANGED pageVars
        /\ calls[i].op \in {"list", "relist"} /\ calls[i].at = "out"
    BY <1>3 DEF ServeList
  <2> QED BY <1>2, <2>1, AnswerKeeps
<1>4. CASE ServeCreate(i)
  <2>1. calls[i].op = "create" /\ calls[i].at = "out" /\ UNCHANGED pageVars BY <1>4 DEF ServeCreate
  <2>2. CASE Inserted(FALSE, Arg(i).flows) /\ Commits(i) /\ UNCHANGED <<routes, contested, clobbered>>
    <3>1. Moves /\ OneDefault' BY <1>1, <2>2, InsertMoves
    <3> QED BY <2>1, <2>2, <3>1, CommitKeeps
  <2> QED BY <1>4, <2>1, <2>2, RefuseKeeps, WaitKeeps DEF ServeCreate
<1>5. CASE ServeUpdate(i)
  <2> DEFINE b == Arg(i).id
             e == Switched(b, Arg(i).enabled, Enabled)
  <2>1. calls[i].op = "update" /\ calls[i].at = "out" /\ UNCHANGED pageVars BY <1>5 DEF ServeUpdate
  <2>2. \/ Refuse(i) \/ Waits(i, Read)
        \/ /\ b \in DOMAIN backends /\ backends' = [backends EXCEPT ![b].enabled = e] /\ Commits(i)
           /\ UNCHANGED <<created, contested, clobbered>>
    BY <1>5 DEF ServeUpdate
  <2> HIDE DEF b, e
  <2>3. CASE b \in DOMAIN backends /\ backends' = [backends EXCEPT ![b].enabled = e] /\ Commits(i)
             /\ UNCHANGED <<created, contested, clobbered>>
    <3>1. Moves /\ OneDefault' BY <1>1, <2>3, SwitchMoves
    <3> QED BY <2>1, <2>3, <3>1, CommitKeeps
  <2> QED BY <2>1, <2>2, <2>3, RefuseKeeps, WaitKeeps
<1>6. CASE MakeDefault(i)
  <2>1. calls[i].op \in {"create", "update"} /\ calls[i].at = "held" /\ UNCHANGED pageVars
        /\ (Refuse(i) \/ Commits(i))
    BY <1>6 DEF MakeDefault
  <2>2. CASE Refuse(i) BY <2>1, <2>2, RefuseKeeps
  <2>3. CASE ~Refuse(i)
    <3>1. Moves /\ OneDefault' BY <1>1, <1>6, <2>3, DefaultMoves
    <3> QED BY <2>1, <2>3, <3>1, CommitKeeps
  <2> QED BY <2>2, <2>3
<1>7. CASE ServeDelete(i)
  <2>1. calls[i].op = "delete" /\ calls[i].at = "out" /\ UNCHANGED pageVars BY <1>7 DEF ServeDelete
  <2>2. \/ Refuse(i)
        \/ /\ backends' = [x \in DOMAIN backends \ {Arg(i).id} |-> backends[x]]
           /\ Commits(i) /\ UNCHANGED <<created, routes, contested, clobbered>>
    BY <1>7 DEF ServeDelete
  <2>3. CASE backends' = [x \in DOMAIN backends \ {Arg(i).id} |-> backends[x]]
             /\ Commits(i) /\ UNCHANGED <<created, routes, contested, clobbered>>
    <3>1. Moves /\ OneDefault' BY <1>1, <2>3, DeleteMoves
    <3> QED BY <2>1, <2>3, <3>1, CommitKeeps
  <2> QED BY <2>1, <2>2, <2>3, RefuseKeeps
<1>8. CASE ServeRoute(i)
  <2>1. calls[i].op = "route" /\ calls[i].at = "out" /\ UNCHANGED pageVars BY <1>8 DEF ServeRoute
  <2>2. Refuse(i) \/ (Commits(i) /\ UNCHANGED <<backends, created, contested, clobbered>>)
    BY <1>8 DEF ServeRoute
  <2>3. CASE Commits(i) /\ UNCHANGED <<backends, created, contested, clobbered>>
    <3>1. Moves /\ OneDefault' BY <1>1, <2>3 DEF Moves, Tables, OneDefault, Defaults
    <3> QED BY <2>1, <2>3, <3>1, CommitKeeps
  <2> QED BY <2>1, <2>2, <2>3, RefuseKeeps
<1>9. CASE AskProvider(i)
  <2>1. calls[i].op \notin {"list", "relist"} /\ calls[i].at = "out" /\ UNCHANGED pageVars
        /\ Waits(i, Config(Arg(i).id))
    BY <1>9 DEF AskProvider
  <2> QED BY <2>1, WaitKeeps
<1>10. CASE OAuthRefused(i)
  <2>1. calls[i].at \in {"out", "held"} /\ UNCHANGED pageVars /\ Refuse(i) BY <1>10 DEF OAuthRefused
  <2> QED BY <2>1, RefuseKeeps
<1>11. CASE DeviceStarted(i) BY <1>11, StartKeeps
<1>12. CASE StillPending(i)
  <2>1. calls[i].op = "poll" /\ calls[i].at = "held" /\ Answer(i, TRUE, [status |-> "pending"])
        /\ UNCHANGED serverVars /\ UNCHANGED pageVars
    BY <1>12 DEF StillPending
  <2>2. [status |-> "pending"].status # "authorized" OBVIOUS
  <2> QED BY <2>1, <2>2, AnswerKeeps
<1>13. CASE Granted(i)
  <2>1. PICK op \in {"poll", "callback", "refresh"} : calls[i].op = op /\ calls[i].at = "held"
    BY <1>13 DEF Granted
  <2>2. PICK code : Saves(i, TRUE, code) /\ Commits(i) /\ UNCHANGED pageVars BY <1>13 DEF Granted
  <2>3. Moves /\ OneDefault' /\ Arg(i).id \in Held' BY <1>1, <2>2, SaveMoves
  <2> QED BY <2>1, <2>2, <2>3, CommitKeeps DEF Arg
<1>14. CASE ServeUrl(i)
  <2>1. calls[i].op = "url" /\ calls[i].at = "out" /\ Answer(i, TRUE, NoBody)
        /\ UNCHANGED serverVars /\ UNCHANGED pageVars
    BY <1>14 DEF ServeUrl
  <2> QED BY <2>1, AnswerKeeps
<1> QED
  BY <1>3, <1>4, <1>5, <1>6, <1>7, <1>8, <1>9, <1>10, <1>11, <1>12, <1>13, <1>14, LoadKeeps, AssignKeeps DEF Serve

----------------------------------------------------------------------------
(* The steps of the page.                                                  *)

LEMMA LostKeeps ==
  ASSUME Inv, NEW i \in DOMAIN calls, Lost(i) PROVE Inv'
<1>1. NeverArrives(i) /\ UNCHANGED serverVars /\ UNCHANGED pageVars /\ calls[i].at = "out"
  BY DEF Lost, NeverArrives
<1>2. NeverArrives(i) \/ Answer(i, FALSE, NoBody) BY <1>1
<1> QED BY <1>1, <1>2, AnswerKeeps

LEMMA AskKeeps ==
  ASSUME Inv, NEW op, NEW arg, Ask(op, arg), UNCHANGED pageVars PROVE Inv'
<1> DEFINE e == Request(op, arg)
<1>1. Good(e, Held, Loaded, clobbered) BY FreshGood
<1>2. calls' = Append(calls, e) /\ UNCHANGED serverVars BY DEF Ask
<1> HIDE DEF e
<1>3. /\ Held' = Held /\ Loaded' = Loaded /\ UNCHANGED <<clobbered, version, newest, gateway>>
      /\ Tables' /\ OneDefault' /\ Counts'
  BY <1>2, SameServer DEF Inv
<1>4. GoodList(calls, Held, Loaded, clobbered) /\ IsSeq(calls) BY DEF Inv, GoodList
<1>5. Len(calls) \in Nat /\ DOMAIN calls = 1 .. Len(calls) BY <1>4, ListFacts
<1>6. /\ IsSeq(calls') /\ DOMAIN calls' = 1 .. Len(calls) + 1
      /\ \A j \in DOMAIN calls : calls'[j] = calls[j]
      /\ calls'[Len(calls) + 1] = e
  BY <1>2, <1>4, AppendList
<1>7. DOMAIN calls \subseteq DOMAIN calls' /\ \A j \in DOMAIN calls' : j \in DOMAIN calls \/ j = Len(calls) + 1
  BY <1>5, <1>6
<1>8. GoodList(calls', Held, Loaded, clobbered) BY <1>1, <1>4, <1>6, <1>7 DEF GoodList
<1>9. newest = version \/ \E j \in DOMAIN calls' : Due(calls'[j], version) BY <1>6, <1>7 DEF Inv
<1>10. ShowsRightly' BY <1>3, ShownLater DEF Inv
<1> QED BY <1>3, <1>8, <1>9, <1>10 DEF Inv

LEMMA UserKeeps ==
  ASSUME Inv,
         \/ SubmitBackend \/ SaveRoute \/ RefreshList \/ SubmitCode \/ Elsewhere
         \/ \E b \in Id : \/ SetDefaultBackend(b) \/ ToggleBackend(b) \/ RemoveBackend(b)
                          \/ StartLogin(b) \/ RefreshToken(b)
  PROVE  Inv'
<1>1. CASE SubmitBackend BY <1>1, AskKeeps DEF SubmitBackend
<1>2. CASE SaveRoute BY <1>2, AskKeeps DEF SaveRoute
<1>3. CASE RefreshList BY <1>3, AskKeeps DEF RefreshList
<1>4. CASE SubmitCode BY <1>4, AskKeeps DEF SubmitCode
<1>5. CASE Elsewhere BY <1>5, AskKeeps DEF Elsewhere
<1>6. ASSUME NEW b \in Id, SetDefaultBackend(b) PROVE Inv' BY <1>6, AskKeeps DEF SetDefaultBackend
<1>7. ASSUME NEW b \in Id, ToggleBackend(b) PROVE Inv' BY <1>7, AskKeeps DEF ToggleBackend
<1>8. ASSUME NEW b \in Id, RemoveBackend(b) PROVE Inv' BY <1>8, AskKeeps DEF RemoveBackend
<1>9. ASSUME NEW b \in Id, StartLogin(b) PROVE Inv' BY <1>9, AskKeeps DEF StartLogin
<1>10. ASSUME NEW b \in Id, RefreshToken(b) PROVE Inv' BY <1>10, AskKeeps DEF RefreshToken
<1> QED BY <1>1, <1>2, <1>3, <1>4, <1>5, <1>6, <1>7, <1>8, <1>9, <1>10

LEMMA NoneGood == ASSUME NEW g, NEW s, NEW cl PROVE GoodList(<<>>, g, s, cl)
  BY ShortLists DEF GoodList

LEMMA OneGood ==
  ASSUME NEW op, NEW arg, NEW g, NEW s, NEW cl PROVE GoodList(<<Request(op, arg)>>, g, s, cl)
<1> DEFINE e == Request(op, arg)
<1>1. Good(e, g, s, cl) BY FreshGood
<1> HIDE DEF e
<1>2. GoodList(<<e>>, g, s, cl) BY <1>1, ShortLists DEF GoodList
<1> QED BY <1>2 DEF e

(* A request is heard: who owes a gateway is another one, and stays.       *)
LEMMA HeardKeeps ==
  ASSUME Inv, NEW i \in DOMAIN calls, calls[i].at = "back",
         NEW more, GoodList(more, Held, Loaded, clobbered), more = <<>> \/ (\E e : more = <<e>>),
         Heard(i, more), Rightly(list', Held),
         \/ dialog' = dialog
         \/ dialog' = NoDialog
         \/ \E m, b, n : dialog' = [mode |-> m, id |-> b, status |-> "pending", login |-> n]
         \/ dialog.id \in Held /\ dialog' = [dialog EXCEPT !.status = "authorized"]
  PROVE  Inv'
<1>1. calls' = Without(i, more) /\ UNCHANGED serverVars BY DEF Heard
<1>2. /\ Held' = Held /\ Loaded' = Loaded /\ UNCHANGED <<clobbered, version, newest, gateway>>
      /\ Tables' /\ OneDefault' /\ Counts'
  BY <1>1, SameServer DEF Inv
<1>3. GoodList(calls, Held, Loaded, clobbered) /\ IsSeq(calls) /\ IsSeq(more) BY DEF Inv, GoodList
<1>4. /\ IsSeq(Without(i, more))
      /\ \A j \in DOMAIN Without(i, more) :
           \/ \E k \in DOMAIN calls : Without(i, more)[j] = calls[k]
           \/ \E k \in DOMAIN more : Without(i, more)[j] = more[k]
  BY <1>3, WithoutList
<1>5. GoodList(calls', Held, Loaded, clobbered) BY <1>1, <1>3, <1>4 DEF GoodList
<1>6. \A k \in DOMAIN calls \ {i} : \E j \in DOMAIN calls' : calls'[j] = calls[k]
  <2> DEFINE w == Without(i, <<>>)
  <2>1. IsSeq(w) /\ \A k \in DOMAIN calls \ {i} : \E j \in DOMAIN w : w[j] = calls[k]
    BY <1>3, WithoutPlaces
  <2>2. CASE more = <<>> BY <1>1, <2>1, <2>2
  <2>3. ASSUME NEW e, more = <<e>> PROVE \A k \in DOMAIN calls \ {i} : \E j \in DOMAIN calls' : calls'[j] = calls[k]
    <3>1. calls' = Append(w, e) BY <1>1, <1>3, <2>3, WithoutAppends
    <3> HIDE DEF w
    <3>2. DOMAIN w \subseteq DOMAIN calls' /\ \A j \in DOMAIN w : calls'[j] = w[j]
      BY <2>1, <3>1, AppendList, ListFacts
    <3> QED BY <2>1, <3>2
  <2> QED BY <2>2, <2>3
<1>7. newest = version \/ \E j \in DOMAIN calls' : Due(calls'[j], version)
  <2>1. ~Due(calls[i], version) BY DEF Due
  <2> QED BY <1>6, <2>1 DEF Inv
<1>8. DOMAIN dialog' = {"mode", "id", "status", "login"} /\ (dialog'.status = "authorized" => dialog'.id \in Held)
  BY DEF Inv, ShowsRightly, NoDialog
<1>9. ShowsRightly' BY <1>2, <1>8 DEF ShowsRightly
<1> QED BY <1>2, <1>5, <1>7, <1>9 DEF Inv

(* Marking a backend that has a token.                                     *)
LEMMA MarkIsRight ==
  ASSUME Rightly(list, Held), NEW b \in Held PROVE Rightly(Mark(b), Held)
  BY DEF Rightly, Mark

LEMMA HearKeeps ==
  ASSUME Inv, NEW i \in DOMAIN calls, Hear(i) PROVE Inv'
<1> USE DEF Is
<1>1. Good(calls[i], Held, Loaded, clobbered) BY DEF Inv, GoodList
<1>2. Rightly(list, Held) BY DEF Inv, ShowsRightly
<1>3. GoodList(<<>>, Held, Loaded, clobbered) BY NoneGood
<1>4. CASE HearList(i)
  <2>1. Rightly(list', Held) BY <1>1, <1>2, <1>4 DEF HearList, Good
  <2>2. calls[i].at = "back" /\ Heard(i, <<>>) /\ dialog' = dialog BY <1>4 DEF HearList
  <2> QED BY <1>3, <2>1, <2>2, HeardKeeps
<1>5. CASE HearChange(i)
  <2>1. PICK reload \in {"list", "relist"} :
          Heard(i, IF calls[i].ok /\ Arg(i).from # "other" THEN <<Request(reload, NoBody)>> ELSE <<>>)
    BY <1>5 DEF HearChange
  <2>2. GoodList(<<Request(reload, NoBody)>>, Held, Loaded, clobbered) BY OneGood
  <2>3. calls[i].at = "back" /\ list' = list /\ dialog' = dialog BY <1>5 DEF HearChange, pageVars
  <2> QED BY <1>2, <1>3, <2>1, <2>2, <2>3, HeardKeeps
<1>6. CASE HearStart(i)
  <2>1. GoodList(<<Request("poll", Attempt(Arg(i).id, Arg(i).login, 1))>>, Held, Loaded, clobbered) BY OneGood
  <2>2. /\ calls[i].at = "back" /\ list' = list
        /\ Heard(i, <<Request("poll", Attempt(Arg(i).id, Arg(i).login, 1))>>)
        /\ \E m, b, n : dialog' = [mode |-> m, id |-> b, status |-> "pending", login |-> n]
    BY <1>6 DEF HearStart
  <2> QED BY <1>2, <2>1, <2>2, HeardKeeps
<1>7. CASE HearUrl(i)
  <2>1. /\ calls[i].at = "back" /\ list' = list /\ Heard(i, <<>>)
        /\ \E m, b, n : dialog' = [mode |-> m, id |-> b, status |-> "pending", login |-> n]
    BY <1>7 DEF HearUrl
  <2> QED BY <1>2, <1>3, <2>1, HeardKeeps
<1>8. CASE HearCallback(i)
  <2>1. /\ calls[i].at = "back" /\ calls[i].op = "callback" /\ calls[i].ok
        /\ list' = Mark(Arg(i).id) /\ dialog' = NoDialog /\ Heard(i, <<>>)
    BY <1>8 DEF HearCallback
  <2>2. Rightly(list', Held) BY <1>1, <1>2, <2>1, MarkIsRight DEF Good, Arg
  <2> QED BY <1>3, <2>1, <2>2, HeardKeeps
<1>9. CASE HearRefreshed(i)
  <2>1. /\ calls[i].at = "back" /\ calls[i].op = "refresh" /\ calls[i].ok
        /\ list' = Mark(Arg(i).id) /\ dialog' = dialog /\ Heard(i, <<>>)
    BY <1>9 DEF HearRefreshed
  <2>2. Rightly(list', Held) BY <1>1, <1>2, <2>1, MarkIsRight DEF Good, Arg
  <2> QED BY <1>3, <2>1, <2>2, HeardKeeps
<1>10. CASE HearRefusal(i)
  <2>1. calls[i].at = "back" /\ list' = list /\ dialog' = dialog /\ Heard(i, <<>>)
    BY <1>10 DEF HearRefusal, pageVars
  <2> QED BY <1>2, <1>3, <2>1, HeardKeeps
<1>11. CASE HearPoll(i)
  <2> DEFINE b == Arg(i).id
             authorized == calls[i].ok /\ calls[i].body.status = "authorized"
             again == <<Request("poll", Attempt(b, Arg(i).login, Arg(i).attempt + 1))>>
             more == IF calls[i].ok /\ PollAgain(i) THEN again ELSE <<>>
  <2>1. authorized => b \in Held BY <1>1, <1>11 DEF HearPoll, Good, Arg
  <2>2. Rightly(list', Held) BY <1>2, <1>11, <2>1, MarkIsRight DEF HearPoll
  <2>3. dialog' = dialog \/ (dialog.id \in Held /\ dialog' = [dialog EXCEPT !.status = "authorized"])
    BY <1>11, <2>1 DEF HearPoll
  <2>4. GoodList(again, Held, Loaded, clobbered) BY OneGood
  <2>5. Heard(i, more) /\ calls[i].at = "back" BY <1>11 DEF HearPoll
  <2>6. more = <<>> \/ \E e : more = <<e>> OBVIOUS
  <2>7. GoodList(more, Held, Loaded, clobbered) BY <1>3, <2>4
  <2> HIDE DEF more
  <2> QED BY <2>2, <2>3, <2>5, <2>6, <2>7, HeardKeeps
<1> QED BY <1>4, <1>5, <1>6, <1>7, <1>8, <1>9, <1>10, <1>11 DEF Hear

----------------------------------------------------------------------------

LEMMA InvHolds == Spec => []Inv
<1>1. Init => Inv
  <2> SUFFICES ASSUME Init PROVE Inv OBVIOUS
  <2>1. PICK flows \in Offered, token \in BOOLEAN :
          backends = [b \in 1 .. 2 |-> IF b = 1 THEN NewBackend(TRUE, {})
                                       ELSE [NewBackend(FALSE, flows) EXCEPT !.token = token]]
    BY DEF Init
  <2>2. backends[1] = NewBackend(TRUE, {}) /\ backends[2] = [NewBackend(FALSE, flows) EXCEPT !.token = token]
    BY <2>1
  <2>3. IsRow(backends[1]) /\ IsRow(backends[2]) /\ backends[2].default = FALSE
    <3> DEFINE r == NewBackend(FALSE, flows)
    <3>1. IsRow(r) /\ r.default = FALSE /\ IsRow(NewBackend(TRUE, {})) BY NewRow
    <3> HIDE DEF r
    <3>2. LET s == [r EXCEPT !.token = token] IN IsRow(s) /\ s.default = r.default BY <3>1, WithToken
    <3>3. backends[2] = [r EXCEPT !.token = token] BY <2>2 DEF r
    <3> QED BY <2>2, <3>1, <3>2, <3>3
  <2>4. DOMAIN backends = 1 .. 2 /\ created = 2 BY <2>1 DEF Init
  <2>5. Tables BY <2>3, <2>4 DEF Tables
  <2>6. OneDefault BY <2>3, <2>4 DEF OneDefault, Defaults
  <2>7. /\ version = 0 /\ newest = 0 /\ gateway = Loaded /\ list = Shown /\ dialog = NoDialog /\ calls = <<>>
        /\ clobbered = {}
    BY DEF Init
  <2>8. Agrees(gateway, Loaded, clobbered) /\ gateway.ver = 0
    BY <2>7, LoadedFields DEF Agrees, Follows
  <2>9. Counts BY <2>7, <2>8 DEF Counts
  <2>10. GoodList(calls, Held, Loaded, clobbered) BY <2>7, NoneGood
  <2>11. Rightly(Shown, Held) BY <2>5 DEF Rightly, Shown, Held, Tables
  <2>12. ShowsRightly BY <2>7, <2>11 DEF ShowsRightly, NoDialog
  <2> QED BY <2>5, <2>6, <2>7, <2>9, <2>10, <2>12 DEF Inv
<1>2. Inv /\ [Next]_vars => Inv'
  <2> SUFFICES ASSUME Inv, [Next]_vars PROVE Inv' OBVIOUS
  <2>1. CASE CloseDialog
    <3>1. UNCHANGED serverVars /\ calls' = calls /\ list' = list /\ dialog' = NoDialog
      BY <2>1 DEF CloseDialog, apiVars
    <3>2. /\ Held' = Held /\ Loaded' = Loaded /\ UNCHANGED <<clobbered, version, newest, gateway>>
          /\ Tables' /\ OneDefault' /\ Counts'
      BY <3>1, SameServer DEF Inv
    <3>3. ShowsRightly' BY <3>1, <3>2 DEF Inv, ShowsRightly, NoDialog
    <3> QED BY <3>1, <3>2, <3>3 DEF Inv
  <2>2. CASE UNCHANGED vars
    <3>1. UNCHANGED serverVars /\ calls' = calls /\ UNCHANGED pageVars BY <2>2 DEF vars, apiVars
    <3>2. /\ Held' = Held /\ Loaded' = Loaded /\ UNCHANGED <<clobbered, version, newest, gateway>>
          /\ Tables' /\ OneDefault' /\ Counts'
      BY <3>1, SameServer DEF Inv
    <3>3. ShowsRightly' BY <3>1, <3>2, ShownLater DEF Inv
    <3> QED BY <3>1, <3>2, <3>3 DEF Inv
  <2> QED BY <2>1, <2>2, ServeKeeps, LostKeeps, HearKeeps, UserKeeps DEF Next
<1> QED BY <1>1, <1>2, PTL DEF Spec

(* What administrators set is what the platform uses (rebuild_gateway,     *)
(* _clear_default, _save_oauth_cfg), for any users, backends and requests  *)
(* whose handlers overlap: a default is alone unless it was made over a    *)
(* stale read, and with no handler between its commit and its assignment   *)
(* the gateway is the tables' unless an older load was assigned last.      *)
THEOREM ChangesAreServed == Spec => []ChangesTakeEffect
<1>1. Inv => ChangesTakeEffect
  <2> SUFFICES ASSUME Inv PROVE ChangesTakeEffect OBVIOUS
  <2>1. ASSUME \A j \in DOMAIN calls : calls[j].at \notin {"load", "assign"}, gateway.ver = newest
        PROVE  Follows(gateway, Loaded, clobbered)
    <3>1. newest = version BY <2>1 DEF Inv, Due
    <3>2. gateway.ver = Loaded.ver BY <2>1, <3>1, LoadedFields
    <3> QED BY <3>2 DEF Inv, Counts, Agrees
  <2>2. GatewayFollows BY <2>1, LoadedFields DEF GatewayFollows, Follows
  <2> QED BY <2>2 DEF Inv, ChangesTakeEffect
<1> QED BY <1>1, InvHolds, PTL

(* The page calls a backend authorized only if that very backend has a     *)
(* token, was deleted, or had its configuration written over by a login    *)
(* that overlapped (markOAuthAuthorized, refresh,                          *)
(* pollDeviceUntilAuthorized), for any backends, logins and requests that  *)
(* cross, come late or fail, and whatever others change meanwhile.         *)
THEOREM ShownHasToken == Spec => []AuthorizedHasToken
<1>1. Inv => AuthorizedHasToken
  BY DEF Inv, ShowsRightly, Rightly, Held, AuthorizedHasToken
<1> QED BY <1>1, InvHolds, PTL
=============================================================================
