--------------------------- MODULE SignIn_proofs ----------------------------
(***************************************************************************)
(* There is an administrator as soon as there is an account, and a window  *)
(* shows the account it is signed in with, for any number of browsers,     *)
(* names, registrations, decisions and answers that overlap.               *)
(*                                                                         *)
(* The first invariant says what a request that awaits the database still  *)
(* knows: a registration that read that it is not the first one was        *)
(* preceded by an administrator, and a decision is about an account that   *)
(* is none.  The second one says when a request that can change the cookie *)
(* or the user of a window can still be on its way: a form only while its  *)
(* login page is there, waits for it and is not being left, or if the user *)
(* was hasty; the shell's question only while its page is there, and then  *)
(* about the cookie that is there, unless the router goes to the login     *)
(* page or the user was hasty.                                             *)
(***************************************************************************)
EXTENDS SignIn, ApiCalls_proofs, FiniteSetTheorems

(* The accounts rs: all active administrators, one when there is any row.  *)
IsAccount(r) == r = [name |-> r.name, role |-> r.role, status |-> r.status]
HasAdmin(rs) == \E u \in DOMAIN rs : rs[u].role = "admin"

GoodRows(rs) ==
  /\ IsSeq(rs)
  /\ \A u \in DOMAIN rs : IsAccount(rs[u]) /\ (rs[u].role = "admin" => rs[u].status = "active")
  /\ rs # <<>> => HasAdmin(rs)

(* What a request has read, against the accounts rs.                       *)
ReadStands(rs, c) ==
  c.at = "read" =>
    /\ c.op = "register" => c.body = TRUE \/ (c.body = FALSE /\ HasAdmin(rs))
    /\ c.op \in Decision => c.arg[3] \in DOMAIN rs /\ rs[c.arg[3]].role # "admin"

Sound(rs, c) == IsRequest(c) /\ ReadStands(rs, c)
SoundList(rs, s) == IsSeq(s) /\ \A j \in DOMAIN s : Sound(rs, s[j])

AccountsInv == GoodRows(rows) /\ SoundList(rows, calls)

----------------------------------------------------------------------------
(* Lists of sound requests.                                                *)

(* A request that is asked for or answered has nothing that it read.       *)
LEMMA FreshSound ==
  ASSUME NEW rs, NEW op, NEW arg PROVE Sound(rs, Request(op, arg))
  BY DEF Sound, IsRequest, ReadStands, Request

LEMMA FreshListSound ==
  ASSUME NEW rs
  PROVE  SoundList(rs, <<>>) /\ \A op, arg : SoundList(rs, <<Request(op, arg)>>)
  BY ShortLists, FreshSound DEF SoundList

LEMMA AppendSound ==
  ASSUME NEW rs, NEW s, SoundList(rs, s), NEW op, NEW arg
  PROVE  SoundList(rs, Append(s, Request(op, arg)))
<1> DEFINE e == Request(op, arg)
<1>1. IsSeq(s) /\ DOMAIN s = 1 .. Len(s) /\ Len(s) \in Nat BY ListFacts DEF SoundList
<1>2. Sound(rs, e) BY FreshSound
<1> HIDE DEF e
<1>3. IsSeq(Append(s, e)) BY <1>1, AppendList
<1>4. ASSUME NEW j \in DOMAIN Append(s, e) PROVE Sound(rs, Append(s, e)[j])
  <2>1. j \in DOMAIN s \/ j = Len(s) + 1 BY <1>1, AppendList
  <2> QED BY <1>1, <1>2, <2>1, AppendList DEF SoundList
<1>5. SoundList(rs, Append(s, e)) BY <1>3, <1>4 DEF SoundList
<1> QED BY <1>5 DEF e

LEMMA ConcatSound ==
  ASSUME NEW rs, NEW s, NEW t, SoundList(rs, s), SoundList(rs, t)
  PROVE  SoundList(rs, s \o t)
<1>1. IsSeq(s) /\ IsSeq(t) BY DEF SoundList
<1>2. /\ IsSeq(Joined(s, t))
      /\ \A j \in DOMAIN Joined(s, t) : \/ \E k \in DOMAIN s : Joined(s, t)[j] = s[k]
                                     \/ \E k \in DOMAIN t : Joined(s, t)[j] = t[k]
  BY <1>1, ConcatList
<1>3. ASSUME NEW j \in DOMAIN Joined(s, t) PROVE Sound(rs, Joined(s, t)[j])
  <2>1. CASE \E k \in DOMAIN s : Joined(s, t)[j] = s[k] BY <2>1 DEF SoundList
  <2>2. CASE \E k \in DOMAIN t : Joined(s, t)[j] = t[k] BY <2>2 DEF SoundList
  <2> QED BY <1>2, <1>3, <2>1, <2>2
<1>4. SoundList(rs, Joined(s, t)) BY <1>2, <1>3 DEF SoundList
<1> QED BY <1>4 DEF Joined

LEMMA WithoutSound ==
  ASSUME NEW rs, SoundList(rs, calls), NEW i \in DOMAIN calls, NEW more, SoundList(rs, more)
  PROVE  SoundList(rs, Without(i, more))
<1>1. IsSeq(calls) /\ IsSeq(more) BY DEF SoundList
<1>2. /\ IsSeq(Without(i, more))
      /\ \A j \in DOMAIN Without(i, more) :
           \/ \E k \in DOMAIN calls : Without(i, more)[j] = calls[k]
           \/ \E k \in DOMAIN more : Without(i, more)[j] = more[k]
  BY <1>1, WithoutList
<1> QED BY <1>2 DEF SoundList

LEMMA CancelledSound ==
  ASSUME NEW rs, NEW s, SoundList(rs, s), NEW b, NEW ops
  PROVE  SoundList(rs, Cancelled(b, s, ops))
<1> DEFINE t == Cancelled(b, s, ops)
<1>1. DOMAIN t = DOMAIN s /\ t = [j \in DOMAIN s |-> t[j]] BY DEF Cancelled
<1>2. IsSeq(t)
  <2> HIDE DEF t
  <2> QED BY <1>1, MapList DEF SoundList
<1>3. ASSUME NEW c, Sound(rs, c) PROVE Sound(rs, [c EXCEPT !.op = "cancelled"])
  BY <1>3 DEF Sound, IsRequest, ReadStands, Decision
<1>4. ASSUME NEW j \in DOMAIN s PROVE Sound(rs, t[j])
  <2>1. t[j] = s[j] \/ t[j] = [s[j] EXCEPT !.op = "cancelled"] BY DEF Cancelled
  <2>2. Sound(rs, s[j]) BY DEF SoundList
  <2>3. Sound(rs, [s[j] EXCEPT !.op = "cancelled"]) BY <1>3, <2>2
  <2> HIDE DEF t
  <2> QED BY <2>1, <2>2, <2>3
<1> HIDE DEF t
<1>5. SoundList(rs, t) BY <1>1, <1>2, <1>4 DEF SoundList
<1> QED BY <1>5 DEF t

LEMMA ExceptSound ==
  ASSUME NEW rs, NEW s, SoundList(rs, s), NEW i \in DOMAIN s, NEW c, Sound(rs, c)
  PROVE  SoundList(rs, [s EXCEPT ![i] = c])
  BY ExceptList DEF SoundList

(* Whatever the answer, and when there is none.                            *)
LEMMA AnswerSound ==
  ASSUME NEW rs, SoundList(rs, calls), NEW i \in DOMAIN calls, NEW ok, NEW body,
         Answer(i, ok, body) \/ NeverArrives(i)
  PROVE  SoundList(rs, calls')
<1>1. IsSeq(calls) /\ \A j \in DOMAIN calls : IsRequest(calls[j]) /\ Sound(rs, calls[j])
  BY DEF SoundList, Sound
<1>2. /\ IsSeq(calls') /\ DOMAIN calls' = DOMAIN calls
      /\ \A j \in DOMAIN calls : j # i => calls'[j] = calls[j]
      /\ IsRequest(calls'[i]) /\ calls'[i].at = "back"
  BY <1>1, AnsweredRequest
<1>3. Sound(rs, calls'[i]) BY <1>2 DEF Sound, ReadStands
<1> QED BY <1>1, <1>2, <1>3 DEF SoundList

(* The accounts change while requests await the database: what they read   *)
(* stands when no role changes and no row goes from the table.             *)
LEMMA ReadsStand ==
  ASSUME NEW rs, NEW rs2, NEW s, SoundList(rs, s),
         \A u \in DOMAIN rs : u \in DOMAIN rs2 /\ rs2[u].role = rs[u].role
  PROVE  SoundList(rs2, s)
  BY DEF SoundList, Sound, ReadStands, HasAdmin

(* Of the two kinds of change of the accounts.                             *)
LEMMA RowAdded ==
  ASSUME GoodRows(rows), NEW n, NEW role, NEW status,
         role = "admin" => status = "active", role # "admin" => HasAdmin(rows)
  PROVE  /\ GoodRows(NewRow(n, role, status))
         /\ \A u \in DOMAIN rows : /\ u \in DOMAIN NewRow(n, role, status)
                                  /\ NewRow(n, role, status)[u].role = rows[u].role
<1> DEFINE r == [name |-> n, role |-> role, status |-> status]
           new == Append(rows, r)
<1>1. IsAccount(r) /\ (r.role = "admin" => r.status = "active") /\ r.role = role BY DEF IsAccount
<1>2. IsSeq(rows) /\ Len(rows) \in Nat /\ DOMAIN rows = 1 .. Len(rows) BY ListFacts DEF GoodRows
<1> HIDE DEF r
<1>3. /\ IsSeq(new) /\ DOMAIN new = 1 .. Len(rows) + 1
      /\ \A j \in DOMAIN rows : new[j] = rows[j]
      /\ new[Len(rows) + 1] = r
  BY <1>2, AppendList
<1> HIDE DEF new
<1>4. \A u \in DOMAIN new : IsAccount(new[u]) /\ (new[u].role = "admin" => new[u].status = "active")
  <2> SUFFICES ASSUME NEW u \in DOMAIN new
               PROVE  IsAccount(new[u]) /\ (new[u].role = "admin" => new[u].status = "active")
    OBVIOUS
  <2>1. u \in DOMAIN rows \/ u = Len(rows) + 1 BY <1>2, <1>3
  <2> QED BY <1>1, <1>3, <2>1 DEF GoodRows
<1>5. HasAdmin(new)
  <2>1. CASE role = "admin" BY <1>1, <1>2, <1>3, <2>1 DEF HasAdmin
  <2>2. CASE role # "admin" BY <1>2, <1>3, <2>2 DEF HasAdmin
  <2> QED BY <2>1, <2>2
<1>6. GoodRows(new) BY <1>3, <1>4, <1>5 DEF GoodRows
<1>7. \A u \in DOMAIN rows : u \in DOMAIN new /\ new[u].role = rows[u].role BY <1>2, <1>3
<1> QED BY <1>6, <1>7 DEF NewRow, new, r

LEMMA StatusChanged ==
  ASSUME GoodRows(rows), NEW u, NEW status,
         status = "active" \/ (u \in DOMAIN rows => rows[u].role # "admin"),
         rows' = [rows EXCEPT ![u].status = status]
  PROVE  GoodRows(rows') /\ \A v \in DOMAIN rows : v \in DOMAIN rows' /\ rows'[v].role = rows[v].role
<1>1. DOMAIN rows' = DOMAIN rows /\ rows' = [v \in DOMAIN rows |-> rows'[v]] OBVIOUS
<1>2. ASSUME NEW v \in DOMAIN rows
      PROVE  rows'[v] = rows[v] \/ (v = u /\ rows'[v] = [rows[v] EXCEPT !.status = status])
  OBVIOUS
<1>3. ASSUME NEW r, IsAccount(r)
      PROVE  LET t == [r EXCEPT !.status = status]
             IN IsAccount(t) /\ t.role = r.role /\ t.status = status
  BY <1>3 DEF IsAccount
<1>4. ASSUME NEW v \in DOMAIN rows
      PROVE  /\ IsAccount(rows'[v]) /\ rows'[v].role = rows[v].role
             /\ rows'[v].role = "admin" => rows'[v].status = "active"
  <2>1. IsAccount(rows[v]) /\ (rows[v].role = "admin" => rows[v].status = "active")
    BY DEF GoodRows
  <2> QED BY <1>2, <1>3, <2>1
<1>5. IsSeq(rows') BY <1>1, MapList DEF GoodRows
<1>6. rows # <<>> => HasAdmin(rows') BY <1>1, <1>4 DEF GoodRows, HasAdmin
<1>7. rows' # <<>> => rows # <<>> BY <1>1
<1> QED BY <1>1, <1>4, <1>5, <1>6, <1>7 DEF GoodRows

----------------------------------------------------------------------------
(* The steps.                                                              *)

LEMMA InitAccounts == Init => AccountsInv
<1> SUFFICES ASSUME Init PROVE AccountsInv OBVIOUS
<1>1. SoundList(rows, calls) BY FreshListSound DEF Init
<1>2. CASE Fresh BY <1>1, <1>2, ShortLists DEF Fresh, AccountsInv, GoodRows
<1>3. CASE Established
  <2>1. PICK n1, n2, n3 \in Name :
          rows = <<[name |-> n1, role |-> "admin", status |-> "active"],
                   [name |-> n2, role |-> "admin", status |-> "active"],
                   [name |-> n3, role |-> "user", status |-> "pending"]>>
    BY <1>3 DEF Established
  <2>2. rows \in Seq({rows[1], rows[2], rows[3]}) /\ DOMAIN rows = 1 .. 3
        /\ rows[1] = [name |-> n1, role |-> "admin", status |-> "active"]
        /\ rows[2] = [name |-> n2, role |-> "admin", status |-> "active"]
        /\ rows[3] = [name |-> n3, role |-> "user", status |-> "pending"]
    BY <2>1
  <2>3. \A u \in 1 .. 3 : IsAccount(rows[u]) /\ (rows[u].role = "admin" => rows[u].status = "active")
    <3>1. ASSUME NEW n, NEW role, NEW status
          PROVE  IsAccount([name |-> n, role |-> role, status |-> status])
      BY DEF IsAccount
    <3> QED BY <2>2, <3>1
  <2>4. IsSeq(rows) /\ HasAdmin(rows) BY <2>2, ListOf DEF HasAdmin
  <2> QED BY <1>1, <2>2, <2>3, <2>4 DEF AccountsInv, GoodRows
<1> QED BY <1>2, <1>3 DEF Init

(* Without an account Count is zero.                                       *)
LEMMA NoRowsNoCount == rows = <<>> => Count = 0
  BY ShortLists, FS_EmptySet DEF Count, There

(* register and the decisions read what will stand until they commit.      *)
LEMMA ReadsSound ==
  ASSUME AccountsInv, NEW i \in DOMAIN calls, NEW seen, Reads(i, seen),
         calls[i].op = "register" => seen = TRUE \/ (seen = FALSE /\ HasAdmin(rows)),
         calls[i].op \in Decision => /\ calls[i].arg[3] \in DOMAIN rows
                                     /\ rows[calls[i].arg[3]].role # "admin"
  PROVE  SoundList(rows, calls')
<1> DEFINE d == [calls[i] EXCEPT !.at = "read"]
           c == [calls[i] EXCEPT !.at = "read", !.body = seen]
<1>1. ASSUME NEW r, IsRequest(r), NEW v
      PROVE  /\ IsRequest([r EXCEPT !.at = v]) /\ [r EXCEPT !.at = v].op = r.op
             /\ [r EXCEPT !.at = v].arg = r.arg
             /\ IsRequest([r EXCEPT !.body = v]) /\ [r EXCEPT !.body = v].op = r.op
             /\ [r EXCEPT !.body = v].arg = r.arg /\ [r EXCEPT !.body = v].body = v
  BY <1>1 DEF IsRequest
<1>2. IsRequest(calls[i]) BY DEF AccountsInv, SoundList, Sound
<1>3. IsRequest(d) /\ d.op = calls[i].op /\ d.arg = calls[i].arg BY <1>1, <1>2
<1>4. c = [d EXCEPT !.body = seen] BY <1>2 DEF IsRequest
<1>5. calls' = [calls EXCEPT ![i] = c] BY DEF Reads
<1> HIDE DEF c, d
<1>6. /\ IsRequest(c) /\ c.op = calls[i].op /\ c.arg = calls[i].arg /\ c.body = seen
  <2>1. \A r : IsRequest(r) => /\ IsRequest([r EXCEPT !.body = seen])
                               /\ [r EXCEPT !.body = seen].op = r.op
                               /\ [r EXCEPT !.body = seen].arg = r.arg
                               /\ [r EXCEPT !.body = seen].body = seen
    BY <1>1
  <2> QED BY <1>3, <1>4, <2>1
<1>7. Sound(rows, c) BY <1>6 DEF Sound, ReadStands
<1> QED BY <1>5, <1>7, ExceptSound DEF AccountsInv

LEMMA ServeAccounts ==
  ASSUME AccountsInv, NEW i \in DOMAIN calls, Serve(i) PROVE AccountsInv'
<1>1. /\ GoodRows(rows) /\ SoundList(rows, calls)
      /\ Sound(rows, calls[i])
  BY DEF AccountsInv, SoundList
<1>2. ASSUME rows' = rows, NEW ok, NEW body, Answer(i, ok, body) PROVE AccountsInv'
  BY <1>1, <1>2, AnswerSound DEF AccountsInv
<1>3. ASSUME GoodRows(rows'), NEW ok, NEW body, Answer(i, ok, body),
             \A u \in DOMAIN rows : u \in DOMAIN rows' /\ rows'[u].role = rows[u].role
      PROVE  AccountsInv'
  BY <1>1, <1>3, AnswerSound, ReadsStand DEF AccountsInv
<1>4. CASE ReadRegister(i)
  <2>1. rows' = rows BY <1>4 DEF ReadRegister, serverVars
  <2>2. CASE Answer(i, FALSE, NoBody) BY <1>2, <2>1, <2>2
  <2>3. CASE Reads(i, Count = 0)
    <3>1. Count = 0 \/ HasAdmin(rows) BY <1>1, NoRowsNoCount DEF GoodRows
    <3>2. calls[i].op = "register" /\ calls[i].op \notin Decision
      BY <1>4 DEF ReadRegister, Is, Decision
    <3>3. SoundList(rows, calls') BY <2>3, <3>1, <3>2, ReadsSound
    <3> QED BY <1>1, <2>1, <3>3 DEF AccountsInv
  <2> QED BY <1>4, <2>2, <2>3 DEF ReadRegister
<1>5. CASE ServeRegister(i)
  <2>1. CASE rows' = rows /\ Answer(i, FALSE, NoBody) BY <1>2, <2>1
  <2>2. CASE rows' = Registered(Arg(i)[2], calls[i].body) /\ \E body : Answer(i, TRUE, body)
    <3>1. calls[i].body = TRUE \/ (calls[i].body = FALSE /\ HasAdmin(rows))
      BY <1>1, <1>5 DEF ServeRegister, Is, Sound, ReadStands
    <3>2. \/ rows' = NewRow(Arg(i)[2], "admin", "active")
          \/ rows' = NewRow(Arg(i)[2], "user", "pending") /\ HasAdmin(rows)
      BY <2>2, <3>1 DEF Registered
    <3>3. /\ GoodRows(rows')
          /\ \A v \in DOMAIN rows : v \in DOMAIN rows' /\ rows'[v].role = rows[v].role
      BY <1>1, <3>2, RowAdded
    <3>4. \E body : Answer(i, TRUE, body) BY <2>2
    <3> QED BY <1>3, <3>3, <3>4
  <2> QED BY <1>5, <2>1, <2>2 DEF ServeRegister
<1>6. CASE ServeCreate(i)
  <2>1. CASE rows' = rows /\ Answer(i, FALSE, NoBody) BY <1>2, <2>1
  <2>2. CASE /\ IsAdmin(Who(Arg(i)[2])) /\ Answer(i, TRUE, NoBody)
             /\ \E role \in {"user", "admin"} : rows' = NewRow(Arg(i)[3], role, "active")
    <3>1. Who(Arg(i)[2]) \in DOMAIN rows BY <2>2 DEF IsAdmin, Who, There
    <3>2. HasAdmin(rows) BY <2>2, <3>1 DEF IsAdmin, HasAdmin
    <3>3. /\ GoodRows(rows')
          /\ \A v \in DOMAIN rows : v \in DOMAIN rows' /\ rows'[v].role = rows[v].role
      BY <1>1, <2>2, <3>2, RowAdded
    <3>4. Answer(i, TRUE, NoBody) BY <2>2
    <3> QED BY <1>3, <3>3, <3>4
  <2> QED BY <1>6, <2>1, <2>2 DEF ServeCreate
<1>7. CASE ReadDecision(i)
  <2>1. rows' = rows BY <1>7 DEF ReadDecision, serverVars
  <2>2. CASE Answer(i, FALSE, NoBody) BY <1>2, <2>1, <2>2
  <2>3. CASE Pending(Arg(i)[3]) /\ Reads(i, TRUE)
    <3>1. calls[i].arg[3] \in DOMAIN rows /\ rows[calls[i].arg[3]].role # "admin"
      BY <1>1, <2>3 DEF Pending, There, GoodRows, Arg
    <3>2. SoundList(rows, calls') BY <2>3, <3>1, ReadsSound
    <3> QED BY <1>1, <2>1, <3>2 DEF AccountsInv
  <2> QED BY <1>7, <2>2, <2>3 DEF ReadDecision
<1>8. CASE ServeDecision(i)
  <2> DEFINE u == Arg(i)[3]
  <2>1. CASE rows' = rows /\ Answer(i, FALSE, NoBody) BY <1>2, <2>1
  <2>2. CASE rows' = [rows EXCEPT ![u].status = "active"] /\ Answer(i, TRUE, NoBody)
    <3> HIDE DEF u
    <3>1. /\ GoodRows(rows')
          /\ \A v \in DOMAIN rows : v \in DOMAIN rows' /\ rows'[v].role = rows[v].role
      BY <1>1, <2>2, StatusChanged
    <3>2. Answer(i, TRUE, NoBody) BY <2>2
    <3> QED BY <1>3, <3>1, <3>2
  <2>3. CASE /\ Is(i, "reject", "read") /\ Answer(i, TRUE, NoBody)
             /\ rows' = [rows EXCEPT ![u].status = "gone"]
    <3>1. u \in DOMAIN rows /\ rows[u].role # "admin"
      BY <1>1, <2>3 DEF Is, Sound, ReadStands, Decision, Arg
    <3> HIDE DEF u
    <3>2. /\ GoodRows(rows')
          /\ \A v \in DOMAIN rows : v \in DOMAIN rows' /\ rows'[v].role = rows[v].role
      BY <1>1, <2>3, <3>1, StatusChanged
    <3>3. Answer(i, TRUE, NoBody) BY <2>3
    <3> QED BY <1>3, <3>2, <3>3
  <2> QED BY <1>8, <2>1, <2>2, <2>3 DEF ServeDecision
<1>9. CASE \/ ServeSetup(i) \/ ServeLogin(i) \/ ServeMe(i) \/ ServeLogout(i)
           \/ ServeClear(i) \/ ServeLists(i)
  <2>1. rows' = rows /\ \E ok, body : Answer(i, ok, body)
    BY <1>9 DEF ServeSetup, ServeLogin, ServeMe, ServeLogout, ServeClear, ServeLists, serverVars
  <2> QED BY <1>2, <2>1
<1> QED BY <1>4, <1>5, <1>6, <1>7, <1>8, <1>9 DEF Serve

(* A page asks, hears and is left: whatever it makes of the list of its    *)
(* requests, the accounts stay and no request is taken to have read.       *)
LEMMA PageAccounts ==
  ASSUME AccountsInv, rows' = rows,
         \/ UNCHANGED calls
         \/ \E op, arg : calls' = Append(calls, Request(op, arg))
         \/ \E i \in DOMAIN calls : \E op, arg : calls' = Without(i, <<Request(op, arg)>>)
         \/ \E i \in DOMAIN calls : calls' = Without(i, <<>>)
         \/ \E b, op, arg : calls' = Kept(b, calls) \o <<Request(op, arg)>>
         \/ \E op, arg : calls' = calls \o <<Request(op, arg)>>
  PROVE  AccountsInv'
<1>1. GoodRows(rows) /\ SoundList(rows, calls) BY DEF AccountsInv
<1>2. SoundList(rows, <<>>) /\ \A op, arg : SoundList(rows, <<Request(op, arg)>>)
  BY FreshListSound
<1>3. \A i \in DOMAIN calls : SoundList(rows, Without(i, <<>>))
  BY <1>1, <1>2, WithoutSound
<1>4. ASSUME NEW b, NEW op, NEW arg
      PROVE  SoundList(rows, Kept(b, calls) \o <<Request(op, arg)>>)
  <2>1. SoundList(rows, Kept(b, calls)) BY <1>1, CancelledSound DEF Kept
  <2> QED BY <1>2, <2>1, ConcatSound
<1>5. SoundList(rows, calls')
  <2>1. CASE UNCHANGED calls BY <1>1, <2>1
  <2>2. CASE \E op, arg : calls' = Append(calls, Request(op, arg)) BY <1>1, <2>2, AppendSound
  <2>3. CASE \E i \in DOMAIN calls : \E op, arg : calls' = Without(i, <<Request(op, arg)>>)
    BY <1>1, <1>2, <2>3, WithoutSound
  <2>4. CASE \E i \in DOMAIN calls : calls' = Without(i, <<>>) BY <1>3, <2>4
  <2>5. CASE \E b, op, arg : calls' = Kept(b, calls) \o <<Request(op, arg)>> BY <1>4, <2>5
  <2>6. CASE \E op, arg : calls' = calls \o <<Request(op, arg)>> BY <1>1, <1>2, <2>6, ConcatSound
  <2> QED BY <2>1, <2>2, <2>3, <2>4, <2>5, <2>6
<1> QED BY <1>1, <1>5 DEF AccountsInv

LEMMA OpeningIsOne ==
  ASSUME NEW b, NEW page, NEW t PROVE \E op, arg : Opening(b, page, t) = <<Request(op, arg)>>
  BY DEF Opening

LEMMA ShownIsOneOrNone ==
  ASSUME NEW b PROVE Shown(b) = <<>> \/ \E op, arg : Shown(b) = <<Request(op, arg)>>
  BY DEF Shown

LEMMA HearAccounts ==
  ASSUME AccountsInv, NEW i \in DOMAIN calls, NEW b, Hear(i, b) PROVE AccountsInv'
<1>1. ASSUME rows' = rows,
             \/ calls' = Without(i, <<>>)
             \/ \E op, arg : calls' = Without(i, <<Request(op, arg)>>)
      PROVE  AccountsInv'
  BY <1>1, PageAccounts
<1>2. rows' = rows
  BY DEF Hear, HearSetup, HearRegister, HearLogin, HearMe, HearGuard, HearLists, HearManage,
         HearLogout, serverVars
<1>3. CASE HearSetup(i, b) \/ HearLists(i, b) \/ HearLogin(i, b)
  BY <1>1, <1>2, <1>3 DEF HearSetup, HearLists, HearLogin
<1>4. CASE HearRegister(i, b) BY <1>1, <1>2, <1>4 DEF HearRegister
<1>5. CASE HearMe(i, b) BY <1>1, <1>2, <1>5, ShownIsOneOrNone DEF HearMe
<1>6. CASE HearGuard(i, b) BY <1>1, <1>2, <1>6 DEF HearGuard
<1>7. CASE HearManage(i, b) BY <1>1, <1>2, <1>7 DEF HearManage
<1>8. CASE HearLogout(i, b) BY <1>1, <1>2, <1>8 DEF HearLogout
<1> QED BY <1>3, <1>4, <1>5, <1>6, <1>7, <1>8 DEF Hear

LEMMA ActAccounts ==
  ASSUME AccountsInv, NEW b, Act(b) PROVE AccountsInv'
<1>1. rows' = rows
  BY DEF Act, Arrive, OpenConsole, Follow, SwitchMode, Submit, LogOut, Manage, Refresh, Ask, serverVars
<1>2. ASSUME NEW op, NEW arg, NEW does, Ask(b, op, arg, does) PROVE AccountsInv'
  BY <1>1, <1>2, PageAccounts DEF Ask
<1>3. CASE OpenConsole(b)
  <2>1. PICK op, arg : Opening(b, "login", None) = <<Request(op, arg)>> BY OpeningIsOne
  <2>2. calls' = calls \o <<Request(op, arg)>> BY <1>3, <2>1 DEF OpenConsole
  <2> QED BY <1>1, <2>2, PageAccounts
<1>4. CASE Arrive(b)
  <2>1. CASE UNCHANGED calls BY <1>1, <2>1, PageAccounts
  <2>2. CASE Goes(b, tab[b].to)
    <3>1. PICK op, arg : Opening(b, tab[b].to, cookie[b]) = <<Request(op, arg)>> BY OpeningIsOne
    <3>2. calls' = Kept(b, calls) \o <<Request(op, arg)>> BY <2>2, <3>1 DEF Goes
    <3> QED BY <1>1, <3>2, PageAccounts
  <2> QED BY <1>4, <2>1, <2>2 DEF Arrive
<1>5. CASE Follow(b) \/ SwitchMode(b) BY <1>1, <1>5, PageAccounts DEF Follow, SwitchMode, apiVars
<1>6. CASE Submit(b) \/ LogOut(b) \/ Manage(b) BY <1>2, <1>6 DEF Submit, LogOut, Manage
<1>7. CASE Refresh(b) BY <1>1, <1>7, PageAccounts DEF Refresh
<1> QED BY <1>3, <1>4, <1>5, <1>6, <1>7 DEF Act

LEMMA NextAccounts == AccountsInv /\ [Next]_vars => AccountsInv'
<1> SUFFICES ASSUME AccountsInv, [Next]_vars PROVE AccountsInv' OBVIOUS
<1>1. CASE \E i \in DOMAIN calls : Serve(i) BY <1>1, ServeAccounts
<1>2. CASE \E i \in DOMAIN calls : Lost(i)
  BY <1>2, AnswerSound DEF Lost, serverVars, AccountsInv
<1>3. CASE \E i \in DOMAIN calls : HearCancelled(i)
  BY <1>3, PageAccounts DEF HearCancelled, serverVars
<1>4. CASE \E i \in DOMAIN calls, b \in Browser : Hear(i, b) BY <1>4, HearAccounts
<1>5. CASE \E b \in Browser : Act(b) BY <1>5, ActAccounts
<1>6. CASE Expire BY <1>6 DEF Expire, apiVars, AccountsInv
<1>7. CASE UNCHANGED vars BY <1>7 DEF vars, serverVars, apiVars, AccountsInv
<1> QED BY <1>1, <1>2, <1>3, <1>4, <1>5, <1>6, <1>7 DEF Next

(* Once there is an account there is an active administrator, whichever    *)
(* registrations, approvals and rejections overlap, for any browsers and   *)
(* names (routes.py, register and the decisions on registrations).         *)
THEOREM AnAdministratorRemains == Spec => []AdminRemains
<1>1. AccountsInv => AdminRemains
  <2> SUFFICES ASSUME AccountsInv, Count > 0 PROVE HasAdmin(rows)
    BY DEF AdminRemains, AccountsInv, GoodRows, HasAdmin
  <2> QED BY NoRowsNoCount DEF AccountsInv, GoodRows
<1> QED BY <1>1, InitAccounts, NextAccounts, PTL DEF Spec

----------------------------------------------------------------------------
(* Who is shown.                                                           *)

(* A form of b on its way to an account: its sign-in or registration.      *)
Signs(b, c) == c.op \in {"login", "register"} /\ c.arg[1] = b
OneSigns(b, s) == \A j, k \in DOMAIN s : Signs(b, s[j]) /\ Signs(b, s[k]) => j = k
NoneSigns(b, s) == \A j \in DOMAIN s : ~Signs(b, s[j])
Reading(b, c, op) == c.op = op /\ c.arg[1] = b
NoneReads(b, s, op) == \A j \in DOMAIN s : ~Reading(b, s[j], op)

Sending(w) == "submit" \in w.busy
Hasty(w) == w.hasty = TRUE

(* Its name at the top need not be that of the cookie.                     *)
Excused(w) == w.to = "login" \/ Hasty(w)

(* A request against the cookies ck, the tokens is and the windows tb: a   *)
(* token that comes was issued; a form is sent by the login page, which    *)
(* stays; what the shell asks about is the cookie that is there.           *)
TimelyOf(b, c, ck, is, tb) ==
  /\ Signs(b, c) =>
       Hasty(tb[b]) \/ (tb[b].page = "login" /\ Sending(tb[b]) /\ tb[b].to \in {"none", "login"})
  /\ Reading(b, c, "setup") => tb[b].page = "login"
  /\ Reading(b, c, "me") =>
       /\ tb[b].page \notin {"closed", "login"} /\ (c.arg[2] = ck[b] \/ Excused(tb[b]))
       /\ c.ok => c.arg[2] \in DOMAIN is /\ c.body = is[c.arg[2]]

Timely(c, ck, is, tb) ==
  /\ IsRequest(c)
  /\ c.op = "login" => c.arg[3] \in {"machines", "users"}
  /\ c.op = "login" /\ c.ok => c.body \in DOMAIN is
  /\ \A b \in Browser : TimelyOf(b, c, ck, is, tb)

TimelyList(s, ck, is, tb) == IsSeq(s) /\ \A j \in DOMAIN s : Timely(s[j], ck, is, tb)

(* One more request e of b after s, asked when no form of b is on its way   *)
(* if it is a form.                                                        *)
OneMore(b, s, e, ck, is, tb) ==
  /\ IsRequest(e) /\ e.arg[1] = b /\ TimelyOf(b, e, ck, is, tb)
  /\ Signs(b, e) => Hasty(tb[b]) \/ NoneSigns(b, s)
  /\ e.op = "login" => e.ok = FALSE /\ e.arg[3] \in {"machines", "users"}

Fields == {"page", "user", "busy", "regs", "form", "guard", "to", "hasty"}

(* A window: the login page, and only it, has forms and no user; a user it *)
(* shows is the one its cookie was issued for, unless it is excused.       *)
GoodTab(b, ck, is, tb) ==
  /\ DOMAIN tb[b] = Fields /\ tb[b].hasty \in BOOLEAN /\ tb[b].to # "closed"
  /\ ck[b] \in DOMAIN is \cup {None}
  /\ tb[b].page = "closed" => tb[b].hasty = FALSE
  /\ tb[b].page = "login" => tb[b].user = None
  /\ tb[b].form # "none" \/ Sending(tb[b]) => tb[b].page = "login"
  /\ tb[b].user # None => \/ ck[b] \in DOMAIN is /\ is[ck[b]] = tb[b].user
                          \/ Excused(tb[b])

(* Of the forms of b at most one is on its way.                            *)
OneForm(b, s, tb) == Hasty(tb[b]) \/ OneSigns(b, s)

ShownInv ==
  /\ IsSeq(issued) /\ live \subseteq DOMAIN issued
  /\ DOMAIN cookie = Browser /\ DOMAIN tab = Browser
  /\ TimelyList(calls, cookie, issued, tab)
  /\ \A b \in Browser : GoodTab(b, cookie, issued, tab) /\ OneForm(b, calls, tab)

----------------------------------------------------------------------------
(* Lists.                                                                  *)

LEMMA AppendTimely ==
  ASSUME NEW ck, NEW is, NEW tb, NEW s, TimelyList(s, ck, is, tb), NEW e, Timely(e, ck, is, tb)
  PROVE  TimelyList(Append(s, e), ck, is, tb)
<1>1. IsSeq(s) /\ DOMAIN s = 1 .. Len(s) /\ Len(s) \in Nat BY ListFacts DEF TimelyList
<1>2. IsSeq(Append(s, e)) BY <1>1, AppendList
<1>3. ASSUME NEW j \in DOMAIN Append(s, e) PROVE Timely(Append(s, e)[j], ck, is, tb)
  <2>1. j \in DOMAIN s \/ j = Len(s) + 1 BY <1>1, AppendList
  <2> QED BY <1>1, <2>1, AppendList DEF TimelyList
<1> QED BY <1>2, <1>3 DEF TimelyList

LEMMA AppendOne ==
  ASSUME NEW b, NEW s, IsSeq(s), OneSigns(b, s), NEW e, Signs(b, e) => NoneSigns(b, s)
  PROVE  OneSigns(b, Append(s, e))
<1> DEFINE n == Len(s)
           t == Append(s, e)
<1>1. /\ DOMAIN s = 1 .. n /\ n \in Nat
      /\ DOMAIN t = 1 .. n + 1 /\ t[n + 1] = e /\ \A j \in 1 .. n : t[j] = s[j]
  BY ListFacts, AppendList
<1> HIDE DEF n, t
<1>2. \A j \in DOMAIN t : j = n + 1 \/ j \in DOMAIN s BY <1>1
<1>3. ASSUME NEW j \in DOMAIN t, NEW k \in DOMAIN t, Signs(b, t[j]), Signs(b, t[k])
      PROVE  j = k
  <2>1. CASE j \in DOMAIN s /\ k \in DOMAIN s BY <1>1, <1>3, <2>1 DEF OneSigns
  <2>2. CASE j = n + 1 /\ k \in DOMAIN s
    <3>1. Signs(b, e) /\ Signs(b, s[k]) BY <1>1, <1>3, <2>2
    <3> QED BY <2>2, <3>1 DEF NoneSigns
  <2>3. CASE k = n + 1 /\ j \in DOMAIN s
    <3>1. Signs(b, e) /\ Signs(b, s[j]) BY <1>1, <1>3, <2>3
    <3> QED BY <2>3, <3>1 DEF NoneSigns
  <2> QED BY <1>2, <2>1, <2>2, <2>3
<1>4. OneSigns(b, t) BY <1>3 DEF OneSigns
<1> QED BY <1>4 DEF t

LEMMA WithoutOne ==
  ASSUME NEW ck, NEW is, NEW tb, TimelyList(calls, ck, is, tb), NEW i \in DOMAIN calls
  PROVE  LET s == Without(i, <<>>) IN
         /\ TimelyList(s, ck, is, tb)
         /\ \A b : OneSigns(b, calls) =>
              /\ OneSigns(b, s)
              /\ Signs(b, calls[i]) => NoneSigns(b, s)
         /\ \A b : NoneSigns(b, calls) => NoneSigns(b, s)
         /\ \A b, op : NoneReads(b, calls, op) => NoneReads(b, s, op)
<1> DEFINE s == Without(i, <<>>)
           At(j) == IF j < i THEN j ELSE j + 1
<1>1. IsSeq(calls) /\ i \in Nat /\ DOMAIN calls = 1 .. Len(calls)
  BY ListFacts DEF TimelyList
<1>2. IsSeq(s) /\ \A j \in DOMAIN s : j \in Nat /\ At(j) \in DOMAIN calls \ {i} /\ s[j] = calls[At(j)]
  BY <1>1, WithoutPlaces
<1> HIDE DEF s
<1>3. \A j, k \in Nat : At(j) = At(k) => j = k BY <1>1
<1> HIDE DEF At
<1>4. TimelyList(s, ck, is, tb) BY <1>2 DEF TimelyList
<1>5. ASSUME NEW b, OneSigns(b, calls)
      PROVE  OneSigns(b, s) /\ (Signs(b, calls[i]) => NoneSigns(b, s))
  BY <1>2, <1>3, <1>5 DEF OneSigns, NoneSigns
<1>6. \A b : NoneSigns(b, calls) => NoneSigns(b, s) BY <1>2 DEF NoneSigns
<1>7. \A b, op : NoneReads(b, calls, op) => NoneReads(b, s, op) BY <1>2 DEF NoneReads
<1> QED BY <1>4, <1>5, <1>6, <1>7 DEF s

(* Left behind with its page, a read of it is not looked at.               *)
LEMMA KeptOne ==
  ASSUME NEW ck, NEW is, NEW tb, NEW s, TimelyList(s, ck, is, tb), NEW b
  PROVE  LET t == Kept(b, s) IN
         /\ TimelyList(t, ck, is, tb)
         /\ \A a : OneSigns(a, s) => OneSigns(a, t)
         /\ \A a : NoneSigns(a, s) => NoneSigns(a, t)
         /\ NoneReads(b, t, "me") /\ NoneReads(b, t, "setup")
<1> DEFINE t == Kept(b, s)
           Off(c) == [c EXCEPT !.op = "cancelled"]
<1>1. DOMAIN t = DOMAIN s /\ t = [j \in DOMAIN s |-> t[j]] BY DEF Kept, Cancelled
<1>2. IsSeq(t)
  <2> HIDE DEF t
  <2> QED BY <1>1, MapList DEF TimelyList
<1>3. ASSUME NEW c, IsRequest(c)
      PROVE  IsRequest(Off(c)) /\ Off(c).op = "cancelled" /\ Off(c).arg = c.arg
  BY <1>3 DEF IsRequest
<1>4. ASSUME NEW j \in DOMAIN s
      PROVE  \/ t[j] = s[j] /\ ~(s[j].arg[1] = b /\ s[j].op \in Effects)
             \/ t[j] = Off(s[j])
  BY DEF Kept, Cancelled
<1> HIDE DEF t, Off
<1>5. \A j \in DOMAIN s : Timely(s[j], ck, is, tb) /\ IsRequest(s[j]) BY DEF TimelyList, Timely
<1>6. ASSUME NEW c, Timely(c, ck, is, tb) PROVE Timely(Off(c), ck, is, tb)
  <2>1. IsRequest(Off(c)) /\ Off(c).op = "cancelled" BY <1>3, <1>6 DEF Timely
  <2> QED BY <2>1 DEF Timely, TimelyOf, Signs, Reading
<1>7. \A j \in DOMAIN t : Timely(t[j], ck, is, tb) BY <1>1, <1>4, <1>5, <1>6
<1>8. \A a : \A j \in DOMAIN t : Signs(a, t[j]) => Signs(a, s[j])
  BY <1>1, <1>3, <1>4, <1>5 DEF Signs
<1>9. \A j \in DOMAIN t : ~Reading(b, t[j], "me") /\ ~Reading(b, t[j], "setup")
  BY <1>1, <1>3, <1>4, <1>5 DEF Reading, Effects
<1>10. TimelyList(t, ck, is, tb) BY <1>2, <1>7 DEF TimelyList
<1>11. \A a : OneSigns(a, s) => OneSigns(a, t) BY <1>1, <1>8 DEF OneSigns
<1>12. \A a : NoneSigns(a, s) => NoneSigns(a, t) BY <1>1, <1>8 DEF NoneSigns
<1> QED BY <1>9, <1>10, <1>11, <1>12 DEF t, NoneReads

(* Requests stay timely while their browser stays as it is, as far as      *)
(* there are requests that depend on it.                                   *)
LEMMA TimelyMoves ==
  ASSUME NEW ck, NEW is, NEW tb, NEW ck2, NEW tb2, NEW s, TimelyList(s, ck, is, tb),
         \A a \in Browser :
           /\ Hasty(tb[a]) => Hasty(tb2[a])
           /\ \/ NoneSigns(a, s) \/ Hasty(tb2[a])
              \/ /\ tb2[a].page = tb[a].page /\ (Sending(tb[a]) => Sending(tb2[a]))
                 /\ tb2[a].to \in {tb[a].to, "none", "login"}
           /\ NoneReads(a, s, "setup") \/ tb2[a].page = tb[a].page
           /\ \/ NoneReads(a, s, "me")
              \/ /\ tb2[a].page = tb[a].page /\ (Excused(tb[a]) => Excused(tb2[a]))
                 /\ ck2[a] = ck[a] \/ Excused(tb2[a])
  PROVE  TimelyList(s, ck2, is, tb2)
<1>1. ASSUME NEW j \in DOMAIN s, NEW a \in Browser PROVE TimelyOf(a, s[j], ck2, is, tb2)
  <2>1. TimelyOf(a, s[j], ck, is, tb) BY DEF TimelyList, Timely
  <2>2. Signs(a, s[j]) => \/ Hasty(tb2[a])
                          \/ /\ tb2[a].page = "login" /\ Sending(tb2[a])
                             /\ tb2[a].to \in {"none", "login"}
    BY <2>1 DEF NoneSigns, TimelyOf
  <2>3. Reading(a, s[j], "setup") => tb2[a].page = "login"
    BY <2>1 DEF NoneReads, TimelyOf
  <2>4. Reading(a, s[j], "me") =>
          /\ tb2[a].page \notin {"closed", "login"} /\ (s[j].arg[2] = ck2[a] \/ Excused(tb2[a]))
          /\ s[j].ok => s[j].arg[2] \in DOMAIN is /\ s[j].body = is[s[j].arg[2]]
    BY <2>1 DEF NoneReads, TimelyOf
  <2> QED BY <2>2, <2>3, <2>4 DEF TimelyOf
<1> QED BY <1>1 DEF TimelyList, Timely

----------------------------------------------------------------------------
LEMMA InitShown == Init => ShownInv
<1> SUFFICES ASSUME Init PROVE ShownInv OBVIOUS
<1>1. calls = <<>> /\ IsSeq(<<>>) /\ DOMAIN <<>> = {} BY ShortLists DEF Init
<1>2. TimelyList(calls, cookie, issued, tab) /\ \A b : OneForm(b, calls, tab)
  BY <1>1 DEF TimelyList, OneForm, OneSigns
<1>4. CASE Fresh
  <2>1. /\ issued = <<>> /\ live = {} /\ cookie = [b \in Browser |-> None]
        /\ tab = [b \in Browser |-> Window("closed", None)]
    BY <1>4 DEF Fresh
  <2>2. ASSUME NEW b \in Browser PROVE GoodTab(b, cookie, issued, tab)
    <3>1. /\ DOMAIN tab[b] = Fields /\ tab[b].page = "closed" /\ tab[b].user = None /\ tab[b].form = "none"
          /\ tab[b].to = "none" /\ tab[b].hasty = FALSE /\ tab[b].busy = {} /\ cookie[b] = None
      <4>1. tab[b] = Window("closed", None) /\ cookie[b] = None BY <2>1
      <4> QED BY <4>1 DEF Window, Fields
    <3> QED BY <3>1 DEF GoodTab, Sending
  <2> QED BY <1>1, <1>2, <2>1, <2>2 DEF ShownInv
<1>5. CASE Established
  <2>1. PICK who \in [Browser -> 1 .. 2] :
          /\ issued = <<1, 2>> /\ live = {1, 2} /\ cookie = who
          /\ tab = [b \in Browser |-> Window("machines", who[b])]
    BY <1>5 DEF Established
  <2>2. issued \in Seq(Nat) /\ DOMAIN issued = 1 .. 2 /\ issued[1] = 1 /\ issued[2] = 2
    BY <2>1
  <2>3. IsSeq(issued) BY <2>2, ListOf
  <2>4. ASSUME NEW b \in Browser PROVE GoodTab(b, cookie, issued, tab)
    <3>1. tab[b] = Window("machines", who[b]) /\ cookie[b] = who[b] /\ who[b] \in 1 .. 2 BY <2>1
    <3>2. issued[who[b]] = who[b] BY <2>2, <3>1
    <3>3. /\ DOMAIN tab[b] = Fields /\ tab[b].page = "machines" /\ tab[b].user = who[b]
          /\ tab[b].form = "none" /\ tab[b].to = "none" /\ tab[b].hasty = FALSE /\ tab[b].busy = {}
      <4>1. tab[b] = Window("machines", who[b]) BY <3>1
      <4> QED BY <4>1 DEF Window, Fields
    <3> QED BY <2>2, <3>1, <3>2, <3>3 DEF GoodTab, Sending
  <2> QED BY <1>2, <2>1, <2>2, <2>3, <2>4 DEF ShownInv
<1> QED BY <1>4, <1>5 DEF Init

(* A step of the server answers one request, or has it read; tokens are    *)
(* issued and go, and none is issued twice.                                *)
LEMMA ServerShows ==
  ASSUME ShownInv, UNCHANGED <<cookie, tab>>, IsSeq(issued'), live' \subseteq DOMAIN issued',
         \A t \in DOMAIN issued : t \in DOMAIN issued' /\ issued'[t] = issued[t],
         NEW i \in DOMAIN calls, IsSeq(calls'), DOMAIN calls' = DOMAIN calls,
         \A j \in DOMAIN calls : j # i => calls'[j] = calls[j],
         IsRequest(calls'[i]), calls'[i].op = calls[i].op, calls'[i].arg = calls[i].arg,
         calls'[i].op = "login" /\ calls'[i].ok => calls'[i].body \in DOMAIN issued',
         calls'[i].op = "me" /\ calls'[i].ok =>
           \/ calls[i].ok /\ calls'[i].body = calls[i].body
           \/ calls[i].arg[2] \in DOMAIN issued' /\ calls'[i].body = issued'[calls[i].arg[2]]
  PROVE  ShownInv'
<1>1. ASSUME NEW c, Timely(c, cookie, issued, tab) PROVE Timely(c, cookie, issued', tab)
  BY <1>1 DEF Timely, TimelyOf
<1>2. Timely(calls[i], cookie, issued, tab) BY DEF ShownInv, TimelyList
<1>3. Timely(calls[i], cookie, issued', tab) BY <1>1, <1>2
<1>4. Timely(calls'[i], cookie, issued', tab)
  <2>1. ASSUME NEW b \in Browser PROVE TimelyOf(b, calls'[i], cookie, issued', tab)
    <3>1. TimelyOf(b, calls[i], cookie, issued', tab) BY <1>3 DEF Timely
    <3>2. Signs(b, calls'[i]) => Signs(b, calls[i]) BY DEF Signs
    <3>3. \A op : Reading(b, calls'[i], op) => Reading(b, calls[i], op) BY DEF Reading
    <3>4. ASSUME Reading(b, calls'[i], "me"), calls'[i].ok
          PROVE  calls[i].arg[2] \in DOMAIN issued' /\ calls'[i].body = issued'[calls[i].arg[2]]
      <4>1. calls'[i].op = "me" BY <3>4 DEF Reading
      <4>2. CASE calls[i].ok /\ calls'[i].body = calls[i].body
        BY <3>1, <3>3, <3>4, <4>2 DEF TimelyOf
      <4> QED BY <3>4, <4>1, <4>2
    <3> QED BY <3>1, <3>2, <3>3, <3>4 DEF TimelyOf
  <2> QED BY <1>3, <2>1 DEF Timely
<1>5. TimelyList(calls', cookie, issued', tab)
  BY <1>1, <1>4 DEF TimelyList, ShownInv
<1>6. \A b : \A j \in DOMAIN calls : Signs(b, calls'[j]) => Signs(b, calls[j])
  BY DEF Signs
<1>7. \A b \in Browser : OneForm(b, calls', tab) BY <1>6 DEF OneForm, OneSigns, ShownInv
<1>8. \A b \in Browser : GoodTab(b, cookie, issued', tab)
  BY DEF GoodTab, ShownInv
<1> QED BY <1>5, <1>7, <1>8 DEF ShownInv

LEMMA ServeShows ==
  ASSUME ShownInv, NEW i \in DOMAIN calls, Serve(i) \/ Lost(i) PROVE ShownInv'
<1>1. /\ IsSeq(calls) /\ \A j \in DOMAIN calls : IsRequest(calls[j])
      /\ IsSeq(issued) /\ live \subseteq DOMAIN issued
      /\ Timely(calls[i], cookie, issued, tab)
  BY DEF ShownInv, TimelyList, Timely
<1>2. UNCHANGED <<cookie, tab>>
  BY DEF Serve, Lost, ServeSetup, ReadRegister, ServeRegister, ServeLogin, ServeMe, ServeLogout,
         ServeClear, ServeLists, ServeCreate, ReadDecision, ServeDecision
<1>3. ASSUME NEW ok, NEW body, Answer(i, ok, body) \/ NeverArrives(i)
      PROVE  /\ IsSeq(calls') /\ DOMAIN calls' = DOMAIN calls
             /\ \A j \in DOMAIN calls : j # i => calls'[j] = calls[j]
             /\ IsRequest(calls'[i])
             /\ calls'[i].op = calls[i].op /\ calls'[i].arg = calls[i].arg
             /\ \/ calls'[i].ok = ok /\ calls'[i].body = body
                \/ calls'[i].ok = calls[i].ok /\ calls'[i].body = calls[i].body
  BY <1>1, <1>3, AnsweredRequest
<1>4. calls[i].op = "login" /\ calls[i].ok => calls[i].body \in DOMAIN issued
  BY <1>1 DEF Timely
<1>5. ASSUME UNCHANGED issued, live' \subseteq live, NEW ok, NEW body,
             Answer(i, ok, body) \/ (NeverArrives(i) /\ ok = FALSE),
             calls[i].op = "login" => ok = FALSE,
             calls[i].op = "me" /\ ok => calls[i].arg[2] \in DOMAIN issued /\ body = issued[calls[i].arg[2]]
      PROVE  ShownInv'
  <2>1. /\ IsSeq(calls') /\ DOMAIN calls' = DOMAIN calls
        /\ \A j \in DOMAIN calls : j # i => calls'[j] = calls[j]
        /\ IsRequest(calls'[i])
        /\ calls'[i].op = calls[i].op /\ calls'[i].arg = calls[i].arg
        /\ \/ calls'[i].ok = ok /\ calls'[i].body = body
           \/ calls'[i].ok = calls[i].ok /\ calls'[i].body = calls[i].body
    BY <1>3, <1>5
  <2>2. calls'[i].op = "login" /\ calls'[i].ok => calls'[i].body \in DOMAIN issued'
    BY <1>4, <1>5, <2>1
  <2>3. calls'[i].op = "me" /\ calls'[i].ok =>
           \/ calls[i].ok /\ calls'[i].body = calls[i].body
           \/ calls[i].arg[2] \in DOMAIN issued' /\ calls'[i].body = issued'[calls[i].arg[2]]
    BY <1>5, <2>1
  <2>4. IsSeq(issued') /\ live' \subseteq DOMAIN issued'
        /\ \A t \in DOMAIN issued : t \in DOMAIN issued' /\ issued'[t] = issued[t]
    BY <1>1, <1>5
  <2> QED BY <1>2, <2>1, <2>2, <2>3, <2>4, ServerShows
<1>6. ASSUME UNCHANGED <<issued, live>>, NEW seen, Reads(i, seen), calls[i].op \notin {"login", "me"}
      PROVE  ShownInv'
  <2> DEFINE c == [calls[i] EXCEPT !.at = "read", !.body = seen]
  <2>1. calls' = [calls EXCEPT ![i] = c] BY <1>6 DEF Reads
  <2>2. IsRequest(c) /\ c.op = calls[i].op /\ c.arg = calls[i].arg
    <3>1. DOMAIN calls[i] = {"op", "arg", "at", "ok", "body"} BY <1>1 DEF IsRequest
    <3>2. /\ DOMAIN c = {"op", "arg", "at", "ok", "body"} /\ c = [f \in DOMAIN c |-> c[f]]
          /\ c.op = calls[i].op /\ c.arg = calls[i].arg
      BY <3>1
    <3> HIDE DEF c
    <3> QED BY <3>2 DEF IsRequest
  <2> HIDE DEF c
  <2>3. /\ IsSeq(calls') /\ DOMAIN calls' = DOMAIN calls /\ calls'[i] = c
        /\ \A j \in DOMAIN calls : j # i => calls'[j] = calls[j]
    BY <1>1, <2>1, ExceptList
  <2>4. IsSeq(issued') /\ live' \subseteq DOMAIN issued'
        /\ \A t \in DOMAIN issued : t \in DOMAIN issued' /\ issued'[t] = issued[t]
    BY <1>1, <1>6
  <2>5. calls'[i].op \notin {"login", "me"} BY <1>6, <2>2, <2>3
  <2> QED BY <1>2, <2>2, <2>3, <2>4, <2>5, ServerShows
<1>7. CASE Lost(i)
  <2>1. UNCHANGED <<issued, live>> /\ NeverArrives(i) BY <1>7 DEF Lost, serverVars
  <2> QED BY <1>5, <2>1
<1>8. CASE ServeLogin(i)
  <2>1. calls[i].op = "login" BY <1>8 DEF ServeLogin, Is
  <2>2. CASE Answer(i, FALSE, NoBody) /\ UNCHANGED <<issued, live>> BY <1>5, <2>1, <2>2
  <2>3. CASE \E u : /\ issued' = Append(issued, u) /\ live' = live \cup {Len(issued')}
                    /\ Answer(i, TRUE, Len(issued'))
    <3>1. PICK u : /\ issued' = Append(issued, u) /\ live' = live \cup {Len(issued')}
                   /\ Answer(i, TRUE, Len(issued'))
      BY <2>3
    <3>2. /\ IsSeq(issued') /\ DOMAIN issued' = 1 .. Len(issued) + 1
          /\ \A t \in DOMAIN issued : issued'[t] = issued[t]
      BY <1>1, <3>1, AppendList
    <3>3. Len(issued) \in Nat /\ DOMAIN issued = 1 .. Len(issued) BY <1>1, ListFacts
    <3>4. Len(issued') = Len(issued) + 1
      <4>1. DOMAIN issued' = 1 .. Len(issued') /\ Len(issued') \in Nat BY <3>2, ListFacts
      <4> QED BY <3>2, <3>3, <4>1
    <3>5. Len(issued') \in DOMAIN issued' /\ \A t \in DOMAIN issued : t \in DOMAIN issued'
      BY <3>2, <3>3, <3>4
    <3>6. live' \subseteq DOMAIN issued' BY <1>1, <3>1, <3>5
    <3>7. /\ IsSeq(calls') /\ DOMAIN calls' = DOMAIN calls
          /\ \A j \in DOMAIN calls : j # i => calls'[j] = calls[j]
          /\ IsRequest(calls'[i])
          /\ calls'[i].op = calls[i].op /\ calls'[i].arg = calls[i].arg
          /\ \/ calls'[i].ok = TRUE /\ calls'[i].body = Len(issued')
             \/ calls'[i].ok = calls[i].ok /\ calls'[i].body = calls[i].body
      BY <1>3, <3>1
    <3>8. calls'[i].op = "login" /\ calls'[i].ok => calls'[i].body \in DOMAIN issued'
      BY <1>4, <3>5, <3>7
    <3>9. calls'[i].op # "me" BY <2>1, <3>7
    <3> QED BY <1>2, <3>2, <3>5, <3>6, <3>7, <3>8, <3>9, ServerShows
  <2> QED BY <1>8, <2>2, <2>3 DEF ServeLogin
<1>9. CASE ServeMe(i)
  <2>1. UNCHANGED <<issued, live>> /\ calls[i].op # "login" BY <1>9 DEF ServeMe, Is, serverVars
  <2> DEFINE t == calls[i].arg[2]
             u == Who(t)
  <2>2. Answer(i, u # None, IF u = None THEN NoBody ELSE u) BY <1>9 DEF ServeMe, Arg
  <2>3. u # None => t \in DOMAIN issued /\ u = issued[t] BY <1>1 DEF Who
  <2>4. u # None => (IF u = None THEN NoBody ELSE u) = issued[t] BY <2>3
  <2> DEFINE w == IF u = None THEN NoBody ELSE u
             o == u # None
  <2>5. Answer(i, o, w) /\ (o => t \in DOMAIN issued /\ w = issued[t]) BY <2>2, <2>3, <2>4
  <2> HIDE DEF u, w, o
  <2> QED BY <1>5, <2>1, <2>5
<1>10. CASE ServeLogout(i)
  <2>1. /\ UNCHANGED issued /\ live' \subseteq live /\ calls[i].op = "logout"
        /\ \E ok : Answer(i, ok, NoBody)
    BY <1>10 DEF ServeLogout, Is
  <2> QED BY <1>5, <2>1
<1>11. CASE ReadRegister(i) \/ ReadDecision(i)
  <2>1. UNCHANGED <<issued, live>> /\ calls[i].op \notin {"login", "me"}
    BY <1>11 DEF ReadRegister, ReadDecision, Is, Decision, serverVars
  <2>2. Answer(i, FALSE, NoBody) \/ \E seen : Reads(i, seen) BY <1>11 DEF ReadRegister, ReadDecision
  <2> QED BY <1>5, <1>6, <2>1, <2>2
<1>12. CASE \/ ServeSetup(i) \/ ServeRegister(i) \/ ServeClear(i) \/ ServeLists(i)
            \/ ServeCreate(i) \/ ServeDecision(i)
  <2>1. UNCHANGED <<issued, live>> /\ calls[i].op \notin {"login", "me"}
    BY <1>12 DEF ServeSetup, ServeRegister, ServeClear, ServeLists, ServeCreate, ServeDecision, Is,
                 serverVars
  <2>2. \E ok, body : Answer(i, ok, body)
    BY <1>12 DEF ServeSetup, ServeRegister, ServeClear, ServeLists, ServeCreate, ServeDecision
  <2> QED BY <1>5, <2>1, <2>2
<1> QED BY <1>7, <1>8, <1>9, <1>10, <1>11, <1>12 DEF Serve

----------------------------------------------------------------------------
(* The window of b is w now, and the others are as they were.              *)
NowShows(b, w) ==
  DOMAIN tab' = Browser /\ tab'[b] = w /\ \A a \in Browser : a # b => tab'[a] = tab[a]

LEMMA ExceptShows ==
  ASSUME ShownInv, NEW b \in Browser, NEW w, tab' = [tab EXCEPT ![b] = w] PROVE NowShows(b, w)
  BY DEF ShownInv, NowShows

(* A step of a browser's window: the requests s that are left, one more,   *)
(* and the window and the cookie that this makes.                          *)
LEMMA WindowShows ==
  ASSUME ShownInv, UNCHANGED <<issued, live>>,
         NEW b \in Browser, NEW w, NowShows(b, w),
         DOMAIN cookie' = Browser, \A a \in Browser : a # b => cookie'[a] = cookie[a],
         GoodTab(b, cookie', issued, tab'),
         NEW s, TimelyList(s, cookie, issued, tab), \A a \in Browser : OneForm(a, s, tab),
         Hasty(tab[b]) => Hasty(w),
         \/ NoneSigns(b, s) \/ Hasty(w)
         \/ /\ w.page = tab[b].page /\ (Sending(tab[b]) => Sending(w))
            /\ w.to \in {tab[b].to, "none", "login"},
         NoneReads(b, s, "setup") \/ w.page = tab[b].page,
         \/ NoneReads(b, s, "me")
         \/ /\ w.page = tab[b].page /\ (Excused(tab[b]) => Excused(w))
            /\ cookie'[b] = cookie[b] \/ Excused(w),
         \/ calls' = s
         \/ \E e : calls' = Append(s, e) /\ OneMore(b, s, e, cookie', issued, tab')
  PROVE  ShownInv'
<1>0. tab'[b] = w /\ DOMAIN tab' = Browser /\ \A a \in Browser : a # b => tab'[a] = tab[a]
  BY DEF NowShows
<1>1. TimelyList(s, cookie', issued, tab')
  <2>1. \A a \in Browser :
           /\ Hasty(tab[a]) => Hasty(tab'[a])
           /\ \/ NoneSigns(a, s) \/ Hasty(tab'[a])
              \/ /\ tab'[a].page = tab[a].page /\ (Sending(tab[a]) => Sending(tab'[a]))
                 /\ tab'[a].to \in {tab[a].to, "none", "login"}
           /\ NoneReads(a, s, "setup") \/ tab'[a].page = tab[a].page
           /\ \/ NoneReads(a, s, "me")
              \/ /\ tab'[a].page = tab[a].page /\ (Excused(tab[a]) => Excused(tab'[a]))
                 /\ cookie'[a] = cookie[a] \/ Excused(tab'[a])
    BY <1>0
  <2> DEFINE ck2 == cookie'
             tb2 == tab'
  <2>3. \A a \in Browser :
           /\ Hasty(tab[a]) => Hasty(tb2[a])
           /\ \/ NoneSigns(a, s) \/ Hasty(tb2[a])
              \/ /\ tb2[a].page = tab[a].page /\ (Sending(tab[a]) => Sending(tb2[a]))
                 /\ tb2[a].to \in {tab[a].to, "none", "login"}
           /\ NoneReads(a, s, "setup") \/ tb2[a].page = tab[a].page
           /\ \/ NoneReads(a, s, "me")
              \/ /\ tb2[a].page = tab[a].page /\ (Excused(tab[a]) => Excused(tb2[a]))
                 /\ ck2[a] = cookie[a] \/ Excused(tb2[a])
    BY <2>1
  <2> HIDE DEF ck2, tb2
  <2>2. TimelyList(s, ck2, issued, tb2) BY <2>3, TimelyMoves
  <2> QED BY <2>2 DEF ck2, tb2
<1>2. ASSUME NEW a \in Browser PROVE GoodTab(a, cookie', issued, tab') /\ OneForm(a, s, tab')
  <2>1. GoodTab(a, cookie, issued, tab) /\ OneForm(a, s, tab) BY DEF ShownInv
  <2>2. CASE a = b BY <1>0, <2>1, <2>2 DEF OneForm
  <2>3. CASE a # b BY <1>0, <2>1, <2>3 DEF GoodTab, OneForm
  <2> QED BY <2>2, <2>3
<1>3. CASE calls' = s BY <1>0, <1>1, <1>2, <1>3 DEF ShownInv
<1>4. CASE \E e : calls' = Append(s, e) /\ OneMore(b, s, e, cookie', issued, tab')
  <2>1. PICK e : calls' = Append(s, e) /\ OneMore(b, s, e, cookie', issued, tab')
    BY <1>4
  <2>2. Timely(e, cookie', issued, tab')
    <3>1. \A a \in Browser : a # b => ~Signs(a, e) /\ \A op : ~Reading(a, e, op)
      BY <2>1 DEF OneMore, Signs, Reading
    <3>2. \A a \in Browser : TimelyOf(a, e, cookie', issued, tab') BY <2>1, <3>1 DEF OneMore, TimelyOf
    <3> QED BY <2>1, <3>2 DEF OneMore, Timely
  <2>3. TimelyList(calls', cookie', issued, tab') BY <1>1, <2>1, <2>2, AppendTimely
  <2>4. \A a \in Browser : Signs(a, e) => Hasty(tab'[a]) \/ NoneSigns(a, s) BY <2>1 DEF OneMore, Signs
  <2>5. IsSeq(s) BY DEF TimelyList
  <2>6. ASSUME NEW a \in Browser PROVE OneForm(a, Append(s, e), tab')
    <3>1. OneForm(a, s, tab') /\ (Signs(a, e) => Hasty(tab'[a]) \/ NoneSigns(a, s)) BY <1>2, <2>4
    <3>2. CASE Hasty(tab'[a]) BY <3>2 DEF OneForm
    <3>3. CASE ~Hasty(tab'[a])
      <4>1. OneSigns(a, s) /\ (Signs(a, e) => NoneSigns(a, s)) BY <3>1, <3>3 DEF OneForm
      <4>2. OneSigns(a, Append(s, e)) BY <2>5, <4>1, AppendOne
      <4> QED BY <4>2 DEF OneForm
    <3> QED BY <3>2, <3>3
  <2>7. \A a \in Browser : OneForm(a, calls', tab') BY <2>1, <2>6
  <2>8. IsSeq(issued) /\ live \subseteq DOMAIN issued BY DEF ShownInv
  <2> QED BY <1>0, <1>2, <2>3, <2>7, <2>8 DEF ShownInv
<1> QED BY <1>3, <1>4

(* A window w that is v but for the fields fs.                             *)
SameBut(v, w, fs) == DOMAIN w = Fields /\ \A f \in Fields \ fs : w[f] = v[f]

LEMMA OneField ==
  ASSUME NEW v, DOMAIN v = Fields, NEW f \in Fields, NEW x
  PROVE  SameBut(v, [v EXCEPT ![f] = x], {f}) /\ [v EXCEPT ![f] = x][f] = x
  BY DEF SameBut

(* While a window is on another page than the login page, or is leaving    *)
(* it, none of its forms is on its way, unless its user was hasty.         *)
LEMMA NothingSent ==
  ASSUME ShownInv, NEW b \in Browser
  PROVE  /\ tab[b].page # "login" => NoneReads(b, calls, "setup")
         /\ tab[b].page \in {"closed", "login"} => NoneReads(b, calls, "me")
         /\ \/ tab[b].page # "login" \/ ~Sending(tab[b]) \/ tab[b].to \notin {"none", "login"}
            => NoneSigns(b, calls) \/ Hasty(tab[b])
<1>1. \A j \in DOMAIN calls : TimelyOf(b, calls[j], cookie, issued, tab)
  BY DEF ShownInv, TimelyList, Timely
<1> QED BY <1>1 DEF TimelyOf, NoneSigns, NoneReads

(* Closed to the provers: what is left.                                    *)
LEMMA LeftShown ==
  ASSUME ShownInv, NEW i \in DOMAIN calls
  PROVE  /\ TimelyList(Without(i, <<>>), cookie, issued, tab)
         /\ \A a \in Browser : OneForm(a, Without(i, <<>>), tab)
         /\ \A a \in Browser : Signs(a, calls[i]) => Hasty(tab[a]) \/ NoneSigns(a, Without(i, <<>>))
         /\ \A a : NoneSigns(a, calls) => NoneSigns(a, Without(i, <<>>))
         /\ \A a, op : NoneReads(a, calls, op) => NoneReads(a, Without(i, <<>>), op)
         /\ \A e : Without(i, <<e>>) = Append(Without(i, <<>>), e)
  BY WithoutOne, WithoutAppends DEF ShownInv, TimelyList, OneForm

----------------------------------------------------------------------------
(* Answers and the people at the browsers.                                 *)

LEMMA NewRequest ==
  ASSUME NEW op, NEW arg
  PROVE  /\ IsRequest(Request(op, arg)) /\ Request(op, arg).op = op /\ Request(op, arg).arg = arg
         /\ Request(op, arg).ok = FALSE
  BY DEF Request, IsRequest

(* A request that is no form and no read of the login page or the shell.   *)
Plain == {"guard", "lists", "logout", "clear", "create", "approve", "reject"}

LEMMA PlainMore ==
  ASSUME NEW b, NEW s, NEW ck, NEW is, NEW tb, NEW op \in Plain, NEW arg, arg[1] = b
  PROVE  OneMore(b, s, Request(op, arg), ck, is, tb)
<1> DEFINE e == Request(op, arg)
<1>1. IsRequest(e) /\ e.op = op /\ e.arg = arg BY NewRequest
<1> HIDE DEF e
<1>2. OneMore(b, s, e, ck, is, tb) BY <1>1 DEF OneMore, TimelyOf, Signs, Reading, Plain
<1> QED BY <1>2 DEF e

(* A step that asks for no more than that.                                 *)
AsksPlain(b, s, new) ==
  new = s \/ \E op, arg : op \in Plain /\ arg[1] = b /\ new = Append(s, Request(op, arg))

LEMMA AsksMore ==
  ASSUME NEW b, NEW s, NEW new, AsksPlain(b, s, new), NEW ck, NEW is, NEW tb
  PROVE  new = s \/ \E e : new = Append(s, e) /\ OneMore(b, s, e, ck, is, tb)
  BY PlainMore DEF AsksPlain

(* One that heard the answer i.                                            *)
LEMMA HeardAsks ==
  ASSUME ShownInv, NEW i \in DOMAIN calls, NEW b,
         \/ calls' = Without(i, <<>>)
         \/ \E op, arg : op \in Plain /\ arg[1] = b /\ calls' = Without(i, <<Request(op, arg)>>)
  PROVE  AsksPlain(b, Without(i, <<>>), calls')
<1>1. \A e : Without(i, <<e>>) = Append(Without(i, <<>>), e) BY LeftShown
<1>2. CASE calls' = Without(i, <<>>) BY <1>2 DEF AsksPlain
<1>3. ASSUME NEW op, NEW arg, op \in Plain, arg[1] = b, calls' = Without(i, <<Request(op, arg)>>)
      PROVE  AsksPlain(b, Without(i, <<>>), calls')
  <2>1. calls' = Append(Without(i, <<>>), Request(op, arg)) BY <1>1, <1>3
  <2> QED BY <1>3, <2>1 DEF AsksPlain
<1> QED BY <1>2, <1>3

(* A window that is where it was, with the same name and the same form on  *)
(* its way, or on its way to the login page.                               *)
Stays(v, w) ==
  /\ DOMAIN w = Fields
  /\ w.page = v.page /\ w.user = v.user /\ w.hasty = v.hasty /\ w.to \in {v.to, "login"}
  /\ (Sending(w) <=> Sending(v)) /\ (w.form # "none" => w.page = "login")

LEMMA PlainShows ==
  ASSUME ShownInv, UNCHANGED <<issued, live, cookie>>, NEW b \in Browser,
         tab' = tab \/ \E w : NowShows(b, w) /\ Stays(tab[b], w),
         NEW s, TimelyList(s, cookie, issued, tab), \A a \in Browser : OneForm(a, s, tab),
         AsksPlain(b, s, calls')
  PROVE  ShownInv'
<1>1. DOMAIN tab = Browser /\ DOMAIN cookie = Browser /\ GoodTab(b, cookie, issued, tab)
  BY DEF ShownInv
<1>2. Stays(tab[b], tab[b]) BY <1>1 DEF Stays, GoodTab
<1>3. PICK w : NowShows(b, w) /\ Stays(tab[b], w) BY <1>1, <1>2 DEF NowShows
<1>4. calls' = s \/ \E e : calls' = Append(s, e) /\ OneMore(b, s, e, cookie', issued, tab')
  <2> DEFINE ck2 == cookie'
             tb2 == tab'
  <2> HIDE DEF ck2, tb2
  <2>1. calls' = s \/ \E e : calls' = Append(s, e) /\ OneMore(b, s, e, ck2, issued, tb2)
    BY AsksMore
  <2> QED BY <2>1 DEF ck2, tb2
<1>5. tab'[b] = w BY <1>3 DEF NowShows
<1>6. GoodTab(b, cookie', issued, tab') BY <1>1, <1>3, <1>5 DEF GoodTab, Stays, Excused, Hasty
<1>7. /\ Hasty(tab[b]) => Hasty(w)
      /\ w.page = tab[b].page /\ (Sending(tab[b]) => Sending(w))
      /\ w.to \in {tab[b].to, "none", "login"} /\ (Excused(tab[b]) => Excused(w))
  BY <1>3 DEF Stays, Excused, Hasty
<1>8. DOMAIN cookie' = Browser /\ cookie'[b] = cookie[b] /\ \A a \in Browser : cookie'[a] = cookie[a]
  BY <1>1
<1> QED BY <1>3, <1>4, <1>6, <1>7, <1>8, WindowShows

(* The pages' own answers.                                                 *)
LEMMA HearPlain ==
  ASSUME ShownInv, NEW i \in DOMAIN calls, NEW b \in Browser,
         HearSetup(i, b) \/ HearGuard(i, b) \/ HearLists(i, b) \/ HearManage(i, b)
  PROVE  ShownInv'
<1> DEFINE s == Without(i, <<>>)
<1>1. TimelyList(s, cookie, issued, tab) /\ \A a \in Browser : OneForm(a, s, tab) BY LeftShown
<1>2. UNCHANGED <<issued, live, cookie>>
  BY DEF HearSetup, HearGuard, HearLists, HearManage, serverVars
<1>3. DOMAIN tab[b] = Fields /\ (tab[b].form # "none" => tab[b].page = "login")
  BY DEF ShownInv, GoodTab
<1>4. <<b, cookie[b]>>[1] = b /\ "lists" \in Plain BY DEF Plain
<1>5. \/ calls' = Without(i, <<>>)
      \/ \E op, arg : op \in Plain /\ arg[1] = b /\ calls' = Without(i, <<Request(op, arg)>>)
  BY <1>4 DEF HearSetup, HearGuard, HearLists, HearManage
<1>6. AsksPlain(b, s, calls') BY <1>5, HeardAsks
<1> HIDE DEF s
<1>7. ASSUME NEW f \in {"form", "guard", "regs"}, NEW v, tab' = [tab EXCEPT ![b] = [tab[b] EXCEPT ![f] = v]],
             f = "form" => tab[b].page = "login"
      PROVE  ShownInv'
  <2> DEFINE w == [tab[b] EXCEPT ![f] = v]
  <2>1. SameBut(tab[b], w, {f}) BY <1>3, OneField DEF Fields
  <2>2. tab' = [tab EXCEPT ![b] = w] BY <1>7
  <2> HIDE DEF w
  <2>3. Stays(tab[b], w) BY <1>3, <1>7, <2>1 DEF Stays, SameBut, Fields, Sending
  <2>4. NowShows(b, w) BY <2>2, ExceptShows
  <2> QED BY <1>1, <1>2, <1>6, <2>3, <2>4, PlainShows
<1>8. CASE HearSetup(i, b)
  <2>1. tab[b].page = "login"
    <3>1. Timely(calls[i], cookie, issued, tab) BY DEF ShownInv, TimelyList
    <3>2. Reading(b, calls[i], "setup") BY <1>8 DEF HearSetup, Is, Heard, Arg, Reading
    <3> QED BY <3>1, <3>2 DEF Timely, TimelyOf
  <2>2. PICK v : tab' = [tab EXCEPT ![b].form = v] BY <1>8 DEF HearSetup
  <2> QED BY <1>7, <2>1, <2>2
<1>9. CASE HearGuard(i, b)
  <2>1. PICK v : tab' = [tab EXCEPT ![b].guard = v] BY <1>9 DEF HearGuard
  <2> QED BY <1>7, <2>1
<1>10. CASE HearLists(i, b)
  <2>1. tab' = tab \/ tab' = [tab EXCEPT ![b].regs = calls[i].body] BY <1>10 DEF HearLists
  <2>2. CASE tab' = tab BY <1>1, <1>2, <1>6, <2>2, PlainShows
  <2> QED BY <1>7, <2>1, <2>2
<1>11. CASE HearManage(i, b)
  <2> DEFINE v == Done(i, b)
             w == [tab[b] EXCEPT !.busy = v]
  <2>1. tab' = [tab EXCEPT ![b] = w] BY <1>11 DEF HearManage
  <2>2. "submit" \in v <=> "submit" \in tab[b].busy BY <1>11 DEF HearManage, Done
  <2> HIDE DEF v
  <2>3. SameBut(tab[b], w, {"busy"}) /\ w.busy = v BY <1>3, OneField DEF Fields
  <2> HIDE DEF w
  <2>4. Stays(tab[b], w) BY <1>3, <2>2, <2>3 DEF Stays, SameBut, Fields, Sending
  <2>5. NowShows(b, w) BY <2>1, ExceptShows
  <2> QED BY <1>1, <1>2, <1>6, <2>4, <2>5, PlainShows
<1> QED BY <1>8, <1>9, <1>10, <1>11

(* The answer to a registration: one that signs in goes on as the same     *)
(* form.                                                                   *)
LEMMA HearRegisterShows ==
  ASSUME ShownInv, NEW i \in DOMAIN calls, NEW b \in Browser, HearRegister(i, b) PROVE ShownInv'
<1> DEFINE s == Without(i, <<>>)
<1>1. /\ TimelyList(s, cookie, issued, tab) /\ \A a \in Browser : OneForm(a, s, tab)
      /\ Signs(b, calls[i]) => Hasty(tab[b]) \/ NoneSigns(b, s)
      /\ \A e : Without(i, <<e>>) = Append(s, e)
  BY LeftShown
<1>2. Signs(b, calls[i]) BY DEF HearRegister, Is, Heard, Arg, Signs
<1>3. TimelyOf(b, calls[i], cookie, issued, tab) BY DEF ShownInv, TimelyList, Timely
<1>4. /\ DOMAIN tab[b] = Fields /\ DOMAIN tab = Browser /\ DOMAIN cookie = Browser
      /\ GoodTab(b, cookie, issued, tab)
  BY DEF ShownInv, GoodTab
<1>5. UNCHANGED <<issued, live, cookie>> BY DEF HearRegister, serverVars
<1>6. /\ DOMAIN cookie' = Browser /\ cookie'[b] = cookie[b] /\ \A a \in Browser : cookie'[a] = cookie[a]
  BY <1>4, <1>5
<1>7. CASE calls' = Without(i, <<Request("login", <<b, Arg(i)[2], "users">>)>>) /\ UNCHANGED tab
  <2> DEFINE arg == <<b, Arg(i)[2], "users">>
             e == Request("login", arg)
             w == tab[b]
  <2>1. arg[1] = b /\ arg[3] = "users" OBVIOUS
  <2>2. calls' = Append(s, e) BY <1>1, <1>7
  <2> HIDE DEF arg
  <2>3. IsRequest(e) /\ e.op = "login" /\ e.ok = FALSE /\ e.arg = arg BY NewRequest
  <2> HIDE DEF e, s
  <2>4. OneMore(b, s, e, cookie, issued, tab)
    BY <1>1, <1>2, <1>3, <2>1, <2>3 DEF OneMore, TimelyOf, Signs, Reading
  <2>5. OneMore(b, s, e, cookie', issued, tab') /\ GoodTab(b, cookie', issued, tab')
    BY <1>4, <1>5, <1>7, <2>4
  <2>6. NowShows(b, w) BY <1>4, <1>7 DEF NowShows
  <2>7. w = tab[b] OBVIOUS
  <2> HIDE DEF w
  <2> QED BY <1>1, <1>5, <1>6, <2>2, <2>5, <2>6, <2>7, WindowShows
<1>8. CASE /\ calls' = Without(i, <<>>)
           /\ tab' = [tab EXCEPT ![b] = [@ EXCEPT !.busy = Done(i, b),
                        !.form = IF Here(i, b) /\ calls[i].ok /\ Arg(i)[3] = "register" THEN "login"
                                 ELSE tab[b].form]]
  <2> DEFINE v == Done(i, b)
             back == Here(i, b) /\ calls[i].ok /\ Arg(i)[3] = "register"
             f == IF back THEN "login" ELSE tab[b].form
             w == [tab[b] EXCEPT !.busy = v, !.form = f]
  <2>0. tab' = [tab EXCEPT ![b] = w] BY <1>8
  <2>2. Does(i) = "submit"
    <3>1. calls[i].op = "register" BY DEF HearRegister, Is
    <3> QED BY <3>1 DEF Does, Decision
  <2>3. v \subseteq tab[b].busy /\ (back => Sending(tab[b])) BY <2>2 DEF Done, Here, Sending
  <2> HIDE DEF v, back, f
  <2>4. SameBut(tab[b], w, {"busy", "form"}) /\ w.busy = v /\ w.form = f
    BY <1>4 DEF SameBut, Fields
  <2> HIDE DEF w
  <2>1. NowShows(b, w) BY <2>0, ExceptShows
  <2>5. /\ w.page = tab[b].page /\ w.user = tab[b].user /\ w.hasty = tab[b].hasty /\ w.to = tab[b].to
        /\ DOMAIN w = Fields
    BY <2>4 DEF SameBut, Fields
  <2>6. tab'[b] = w BY <2>1 DEF NowShows
  <2>7. w.form # "none" \/ Sending(w) => w.page = "login"
    BY <1>4, <2>3, <2>4, <2>5 DEF GoodTab, Sending, f
  <2>8. (Hasty(tab[b]) <=> Hasty(w)) /\ (Excused(tab[b]) <=> Excused(w)) BY <2>5 DEF Hasty, Excused
  <2>9. GoodTab(b, cookie', issued, tab') BY <1>4, <1>5, <2>5, <2>6, <2>7, <2>8 DEF GoodTab
  <2>10. calls' = s BY <1>8
  <2> HIDE DEF s
  <2> QED BY <1>1, <1>2, <1>5, <1>6, <2>1, <2>5, <2>8, <2>9, <2>10, WindowShows
<1> QED BY <1>7, <1>8 DEF HearRegister

(* The answer to a sign-in: with the cookie the router is on its way.      *)
LEMMA HearLoginShows ==
  ASSUME ShownInv, NEW i \in DOMAIN calls, NEW b \in Browser, HearLogin(i, b) PROVE ShownInv'
<1> DEFINE s == Without(i, <<>>)
<1>1. /\ TimelyList(s, cookie, issued, tab) /\ \A a \in Browser : OneForm(a, s, tab)
      /\ Signs(b, calls[i]) => Hasty(tab[b]) \/ NoneSigns(b, s)
      /\ \A op : NoneReads(b, calls, op) => NoneReads(b, s, op)
  BY LeftShown
<1>2. Signs(b, calls[i]) /\ calls[i].op = "login" BY DEF HearLogin, Is, Heard, Arg, Signs
<1>3. Timely(calls[i], cookie, issued, tab) BY DEF ShownInv, TimelyList
<1>4. /\ DOMAIN tab[b] = Fields /\ DOMAIN tab = Browser /\ DOMAIN cookie = Browser
      /\ GoodTab(b, cookie, issued, tab)
  BY DEF ShownInv, GoodTab
<1>5. UNCHANGED <<issued, live>> /\ calls' = s BY DEF HearLogin, serverVars
<1> HIDE DEF s
<1>6. \/ Hasty(tab[b])
      \/ tab[b].page = "login" /\ tab[b].user = None /\ NoneReads(b, s, "me") /\ NoneSigns(b, s)
  BY <1>1, <1>2, <1>3, <1>4, NothingSent DEF Timely, TimelyOf, GoodTab
<1> DEFINE to == IF calls[i].ok THEN Arg(i)[3] ELSE tab[b].to
           v == Done(i, b)
           w == [tab[b] EXCEPT !.busy = v, !.to = to]
<1>0. tab' = [tab EXCEPT ![b] = w] BY DEF HearLogin
<1>8. v \subseteq tab[b].busy BY DEF Done
<1>9. to # "closed" BY <1>2, <1>3, <1>4 DEF Timely, GoodTab, Arg
<1> HIDE DEF v, to
<1>10. SameBut(tab[b], w, {"busy", "to"}) /\ w.busy = v /\ w.to = to BY <1>4 DEF SameBut, Fields
<1> HIDE DEF w
<1>7. NowShows(b, w) BY <1>0, ExceptShows
<1>11. /\ w.page = tab[b].page /\ w.user = tab[b].user /\ w.hasty = tab[b].hasty /\ w.form = tab[b].form
       /\ DOMAIN w = Fields
  BY <1>10 DEF SameBut, Fields
<1>12. /\ DOMAIN cookie' = Browser /\ cookie'[b] \in DOMAIN issued \cup {None}
       /\ \A a \in Browser : a # b => cookie'[a] = cookie[a]
  BY <1>2, <1>3, <1>4 DEF HearLogin, Timely, GoodTab
<1>13. tab'[b] = w BY <1>7 DEF NowShows
<1>14. Hasty(tab[b]) => Hasty(w) /\ Excused(w) BY <1>11 DEF Hasty, Excused
<1>15. GoodTab(b, cookie', issued, tab')
  BY <1>4, <1>5, <1>6, <1>8, <1>9, <1>10, <1>11, <1>12, <1>13, <1>14 DEF GoodTab, Sending
<1> QED BY <1>1, <1>5, <1>6, <1>7, <1>11, <1>12, <1>14, <1>15, WindowShows

(* The answer to the shell's own question.                                 *)
LEMMA HearMeShows ==
  ASSUME ShownInv, NEW i \in DOMAIN calls, NEW b \in Browser, HearMe(i, b) PROVE ShownInv'
<1> DEFINE s == Without(i, <<>>)
<1>1. TimelyList(s, cookie, issued, tab) /\ \A a \in Browser : OneForm(a, s, tab) BY LeftShown
<1>2. TimelyOf(b, calls[i], cookie, issued, tab) /\ Reading(b, calls[i], "me")
  BY DEF ShownInv, TimelyList, Timely, HearMe, Is, Heard, Arg, Reading
<1>3. tab[b].page \notin {"closed", "login"} BY <1>2 DEF TimelyOf
<1>4. /\ DOMAIN tab = Browser /\ DOMAIN cookie = Browser /\ DOMAIN tab[b] = Fields
      /\ GoodTab(b, cookie, issued, tab)
  BY DEF ShownInv, GoodTab
<1>5. UNCHANGED <<issued, live, cookie>> BY DEF HearMe, serverVars
<1>6. \/ calls' = Without(i, <<>>)
      \/ \E op, arg : op \in Plain /\ arg[1] = b /\ calls' = Without(i, <<Request(op, arg)>>)
  <2>1. <<b, cookie[b]>>[1] = b /\ "guard" \in Plain BY DEF Plain
  <2> QED BY <2>1 DEF HearMe, Shown
<1>7. AsksPlain(b, s, calls') BY <1>6, HeardAsks
<1> HIDE DEF s
<1>8. CASE calls[i].ok /\ tab' = [tab EXCEPT ![b].user = calls[i].body]
  <2> DEFINE v == calls[i].body
             w == [tab[b] EXCEPT !.user = v]
  <2>1. tab' = [tab EXCEPT ![b] = w] BY <1>8
  <2>2. (cookie[b] \in DOMAIN issued /\ issued[cookie[b]] = v) \/ Excused(tab[b])
    BY <1>2, <1>8 DEF TimelyOf
  <2> HIDE DEF v
  <2>3. SameBut(tab[b], w, {"user"}) /\ w.user = v BY <1>4, OneField DEF Fields
  <2> HIDE DEF w
  <2>4. /\ w.page = tab[b].page /\ w.hasty = tab[b].hasty /\ w.to = tab[b].to /\ w.form = tab[b].form
        /\ w.busy = tab[b].busy /\ DOMAIN w = Fields
    BY <2>3 DEF SameBut, Fields
  <2>5. (Hasty(tab[b]) <=> Hasty(w)) /\ (Excused(tab[b]) <=> Excused(w)) /\ (Sending(tab[b]) <=> Sending(w))
    BY <2>4 DEF Hasty, Excused, Sending
  <2>6. NowShows(b, w) /\ tab'[b] = w BY <2>1, ExceptShows DEF NowShows
  <2>7. GoodTab(b, cookie', issued, tab')
    BY <1>3, <1>4, <1>5, <2>2, <2>3, <2>4, <2>5, <2>6 DEF GoodTab
  <2>8. calls' = s \/ \E e : calls' = Append(s, e) /\ OneMore(b, s, e, cookie', issued, tab')
    <3> DEFINE ck2 == cookie'
               tb2 == tab'
    <3> HIDE DEF ck2, tb2
    <3>1. calls' = s \/ \E e : calls' = Append(s, e) /\ OneMore(b, s, e, ck2, issued, tb2)
      BY <1>7, AsksMore
    <3> QED BY <3>1 DEF ck2, tb2
  <2>9. DOMAIN cookie' = Browser /\ cookie'[b] = cookie[b] /\ \A a \in Browser : cookie'[a] = cookie[a]
    BY <1>4, <1>5
  <2> QED BY <1>1, <1>5, <2>4, <2>5, <2>6, <2>7, <2>8, <2>9, WindowShows
<1>9. CASE tab' = tab BY <1>1, <1>5, <1>7, <1>9, PlainShows
<1>10. CASE tab' = Going(b, "login")
  <2> DEFINE w == [tab[b] EXCEPT !.to = "login"]
  <2>1. tab' = [tab EXCEPT ![b] = w] BY <1>10 DEF Going
  <2>2. SameBut(tab[b], w, {"to"}) /\ w.to = "login" BY <1>4, OneField DEF Fields
  <2> HIDE DEF w
  <2>3. Stays(tab[b], w) BY <1>4, <2>2 DEF Stays, SameBut, Fields, Sending, GoodTab
  <2>4. NowShows(b, w) BY <2>1, ExceptShows
  <2> QED BY <1>1, <1>5, <1>7, <2>3, <2>4, PlainShows
<1> QED BY <1>8, <1>9, <1>10 DEF HearMe

LEMMA HearLogoutShows ==
  ASSUME ShownInv, NEW i \in DOMAIN calls, NEW b \in Browser, HearLogout(i, b) PROVE ShownInv'
<1> DEFINE s == Without(i, <<>>)
<1>1. TimelyList(s, cookie, issued, tab) /\ \A a \in Browser : OneForm(a, s, tab) BY LeftShown
<1>2. UNCHANGED <<issued, live>> BY DEF HearLogout, serverVars
<1>3. /\ DOMAIN tab = Browser /\ DOMAIN cookie = Browser /\ DOMAIN tab[b] = Fields
      /\ GoodTab(b, cookie, issued, tab)
  BY DEF ShownInv, GoodTab
<1>4. \/ calls' = Without(i, <<>>)
      \/ \E op, arg : op \in Plain /\ arg[1] = b /\ calls' = Without(i, <<Request(op, arg)>>)
  <2>1. <<b, None>>[1] = b /\ "clear" \in Plain BY DEF Plain
  <2> QED BY <2>1 DEF HearLogout
<1>5. AsksPlain(b, s, calls') BY <1>4, HeardAsks
<1> DEFINE busy == tab[b].busy \ {"logout"}
<1>6. "submit" \in busy <=> "submit" \in tab[b].busy OBVIOUS
<1>7. CASE UNCHANGED <<cookie, tab>>
  <2> HIDE DEF s
  <2> QED BY <1>1, <1>2, <1>5, <1>7, PlainShows
<1>8. CASE /\ cookie' = [cookie EXCEPT ![b] = None] /\ calls' = s
           /\ tab' = [tab EXCEPT ![b] =
                [@ EXCEPT !.user = None, !.busy = tab[b].busy \ {"logout"}, !.to = "login"]]
  <2> DEFINE w == [tab[b] EXCEPT !.user = None, !.busy = busy, !.to = "login"]
  <2>0. tab' = [tab EXCEPT ![b] = w] BY <1>8
  <2>8. calls' = s BY <1>8
  <2> HIDE DEF busy, s
  <2>7. SameBut(tab[b], w, {"user", "busy", "to"}) /\ w.user = None /\ w.busy = busy /\ w.to = "login"
    BY <1>3 DEF SameBut, Fields
  <2> HIDE DEF w
  <2>1. NowShows(b, w) BY <2>0, ExceptShows
  <2>2. /\ w.page = tab[b].page /\ w.hasty = tab[b].hasty /\ w.form = tab[b].form
        /\ w.user = None /\ w.busy = busy /\ w.to = "login" /\ DOMAIN w = Fields
    BY <2>7 DEF SameBut, Fields
  <2>3. /\ (Hasty(tab[b]) <=> Hasty(w)) /\ Excused(w) /\ (Sending(tab[b]) <=> Sending(w))
    BY <1>6, <2>2 DEF Hasty, Excused, Sending
  <2>4. tab'[b] = w BY <2>1 DEF NowShows
  <2>5. /\ DOMAIN cookie' = Browser /\ cookie'[b] = None /\ \A a \in Browser : a # b => cookie'[a] = cookie[a]
    BY <1>3, <1>8
  <2>6. GoodTab(b, cookie', issued, tab') BY <1>3, <2>2, <2>3, <2>4, <2>5 DEF GoodTab
  <2> QED BY <1>1, <1>2, <2>1, <2>2, <2>3, <2>5, <2>6, <2>8, WindowShows
<1>9. CASE tab' = [tab EXCEPT ![b].busy = @ \ {"logout"}] /\ UNCHANGED cookie
  <2> DEFINE w == [tab[b] EXCEPT !.busy = busy]
  <2>1. tab' = [tab EXCEPT ![b] = w] BY <1>9
  <2> HIDE DEF busy, s
  <2>2. SameBut(tab[b], w, {"busy"}) /\ w.busy = busy BY <1>3, OneField DEF Fields
  <2> HIDE DEF w
  <2>3. Stays(tab[b], w) BY <1>3, <1>6, <2>2 DEF Stays, SameBut, Fields, Sending, GoodTab
  <2>4. NowShows(b, w) BY <2>1, ExceptShows
  <2> QED BY <1>1, <1>2, <1>5, <1>9, <2>3, <2>4, PlainShows
<1> QED BY <1>7, <1>8, <1>9 DEF HearLogout

LEMMA HearCancelledShows ==
  ASSUME ShownInv, NEW i \in DOMAIN calls, HearCancelled(i) PROVE ShownInv'
<1>1. UNCHANGED <<issued, live, cookie, tab>> /\ calls' = Without(i, <<>>)
  BY DEF HearCancelled, serverVars
<1>2. /\ TimelyList(Without(i, <<>>), cookie, issued, tab)
      /\ \A a \in Browser : OneForm(a, Without(i, <<>>), tab)
  BY LeftShown
<1>3. TimelyList(calls', cookie', issued', tab') /\ \A a \in Browser : OneForm(a, calls', tab')
  BY <1>1, <1>2
<1> QED BY <1>1, <1>3 DEF ShownInv, GoodTab

(* The router arrives: what the page that is left had on its way is not    *)
(* looked at any more, and the shell asks about the cookie that is there.  *)
LEMMA ArriveShows ==
  ASSUME ShownInv, NEW b \in Browser, Arrive(b) PROVE ShownInv'
<1>1. /\ TimelyList(calls, cookie, issued, tab) /\ \A a \in Browser : OneForm(a, calls, tab)
      /\ DOMAIN tab = Browser /\ DOMAIN cookie = Browser /\ DOMAIN tab[b] = Fields
      /\ GoodTab(b, cookie, issued, tab) /\ tab[b].to \notin {"none", "closed"}
  BY DEF ShownInv, GoodTab, Arrive
<1>2. UNCHANGED <<issued, live, cookie>> BY DEF Arrive, serverVars
<1>3. DOMAIN cookie' = Browser /\ cookie'[b] = cookie[b] /\ \A a \in Browser : cookie'[a] = cookie[a]
  BY <1>1, <1>2
<1>4. CASE tab[b].to = tab[b].page /\ tab' = Going(b, "none") /\ UNCHANGED calls
  <2> DEFINE w == [tab[b] EXCEPT !.to = "none"]
  <2>1. tab' = [tab EXCEPT ![b] = w] BY <1>4 DEF Going
  <2>2. SameBut(tab[b], w, {"to"}) /\ w.to = "none" BY <1>1, OneField DEF Fields
  <2> HIDE DEF w
  <2>3. /\ w.page = tab[b].page /\ w.hasty = tab[b].hasty /\ w.form = tab[b].form
        /\ w.user = tab[b].user /\ w.busy = tab[b].busy /\ DOMAIN w = Fields
    BY <2>2 DEF SameBut, Fields
  <2>4. (Hasty(tab[b]) <=> Hasty(w)) /\ (Sending(tab[b]) <=> Sending(w)) BY <2>3 DEF Hasty, Sending
  <2>5. tab[b].page = "login" \/ (Excused(tab[b]) => Excused(w)) BY <1>4, <2>4 DEF Excused
  <2>6. NoneReads(b, calls, "me") \/ (Excused(tab[b]) => Excused(w)) BY <2>5, NothingSent
  <2>7. NowShows(b, w) /\ tab'[b] = w BY <2>1, ExceptShows DEF NowShows
  <2>8. GoodTab(b, cookie', issued, tab')
    BY <1>1, <1>2, <2>2, <2>3, <2>4, <2>5, <2>7 DEF GoodTab
  <2> QED BY <1>1, <1>2, <1>3, <1>4, <2>2, <2>3, <2>4, <2>6, <2>7, <2>8, WindowShows
<1>5. CASE tab[b].to # tab[b].page /\ Goes(b, tab[b].to)
  <2> DEFINE page == tab[b].to
             user == IF page = "login" THEN None ELSE tab[b].user
             w == [Window(page, IF page = "login" THEN None ELSE tab[b].user) EXCEPT
                     !.busy = tab[b].busy \cap {"logout"}, !.hasty = tab[b].hasty]
             k == Kept(b, calls)
             e == IF page = "login" THEN Request("setup", <<b, None>>)
                  ELSE Request("me", <<b, cookie[b]>>)
  <2>1. tab' = [tab EXCEPT ![b] = w] BY <1>5 DEF Goes
  <2>2. /\ DOMAIN w = Fields /\ w.page = page /\ w.user = user /\ w.to = "none"
        /\ w.busy = tab[b].busy \cap {"logout"} /\ w.hasty = tab[b].hasty
        /\ w.form # "none" => page = "login"
    BY DEF Window, Fields
  <2>3. page \notin {"none", "closed"} /\ (page # "login" => user = tab[b].user)
        /\ (page = "login" => user = None)
    BY <1>1
  <2>4. /\ TimelyList(k, cookie, issued, tab)
        /\ \A a : OneSigns(a, calls) => OneSigns(a, k)
        /\ \A a : NoneSigns(a, calls) => NoneSigns(a, k)
        /\ NoneReads(b, k, "me") /\ NoneReads(b, k, "setup")
    BY <1>1, KeptOne
  <2>5. calls' = Append(k, e)
    <3>1. Opening(b, page, cookie[b]) = <<e>> BY DEF Opening
    <3> HIDE DEF e
    <3>2. calls' = k \o <<e>> BY <1>5, <3>1 DEF Goes
    <3> HIDE DEF k
    <3> QED BY <2>4, <3>2, JoinOne DEF TimelyList
  <2>6. \A a \in Browser : OneForm(a, k, tab) BY <1>1, <2>4 DEF OneForm
  <2>7. NoneSigns(b, calls) \/ Hasty(tab[b])
    BY <1>1, <1>5, NothingSent
  <2>8. /\ IsRequest(e) /\ e.arg[1] = b /\ e.op \in {"setup", "me"} /\ e.ok = FALSE
        /\ e.op = "setup" => page = "login"
        /\ e.op = "me" => page # "login" /\ e.arg[2] = cookie[b]
    BY DEF Request, IsRequest
  <2>9. page # "login" => (Excused(tab[b]) => Hasty(tab[b])) BY DEF Excused
  <2> HIDE DEF page, user, w, k, e
  <2>10. (Hasty(tab[b]) <=> Hasty(w)) /\ ~Sending(w) /\ (Hasty(w) => Excused(w))
    BY <2>2 DEF Hasty, Sending, Excused
  <2>11. NowShows(b, w) /\ tab'[b] = w BY <2>1, ExceptShows DEF NowShows
  <2>12. GoodTab(b, cookie', issued, tab')
    BY <1>1, <1>2, <2>2, <2>3, <2>9, <2>10, <2>11 DEF GoodTab
  <2>13. OneMore(b, k, e, cookie', issued, tab')
    BY <1>3, <2>2, <2>3, <2>8, <2>11 DEF OneMore, TimelyOf, Signs, Reading
  <2>14. NoneSigns(b, k) \/ Hasty(w) BY <2>4, <2>7, <2>10
  <2> QED BY <1>2, <1>3, <2>4, <2>5, <2>6, <2>10, <2>11, <2>12, <2>13, <2>14, WindowShows
<1> QED BY <1>4, <1>5 DEF Arrive

(* A link: over the way to the login page it is hasty.                     *)
LEMMA FollowShows ==
  ASSUME ShownInv, NEW b \in Browser, Follow(b) PROVE ShownInv'
<1>1. /\ TimelyList(calls, cookie, issued, tab) /\ \A a \in Browser : OneForm(a, calls, tab)
      /\ DOMAIN tab = Browser /\ DOMAIN cookie = Browser /\ DOMAIN tab[b] = Fields
      /\ GoodTab(b, cookie, issued, tab)
  BY DEF ShownInv, GoodTab
<1>2. UNCHANGED <<issued, live, cookie, calls>> BY DEF Follow, serverVars, apiVars
<1>3. DOMAIN cookie' = Browser /\ cookie'[b] = cookie[b] /\ \A a \in Browser : cookie'[a] = cookie[a]
  BY <1>1, <1>2
<1>4. PICK page \in {"machines", "users", "login"} :
        /\ tab[b].page \notin {"closed", "login"}
        /\ tab' = [tab EXCEPT ![b] = [@ EXCEPT !.to = page, !.hasty = tab[b].hasty \/ tab[b].to = "login"]]
  BY DEF Follow
<1> DEFINE h == tab[b].hasty \/ tab[b].to = "login"
           w == [tab[b] EXCEPT !.to = page, !.hasty = h]
<1>0. tab' = [tab EXCEPT ![b] = w] BY <1>4
<1>6. h \in BOOLEAN /\ (tab[b].hasty = TRUE => h = TRUE) /\ (tab[b].to = "login" => h = TRUE) OBVIOUS
<1> HIDE DEF h
<1>7. SameBut(tab[b], w, {"to", "hasty"}) /\ w.to = page /\ w.hasty = h
  BY <1>1 DEF SameBut, Fields
<1> HIDE DEF w
<1>5. NowShows(b, w) BY <1>0, ExceptShows
<1>8. /\ w.page = tab[b].page /\ w.user = tab[b].user /\ w.form = tab[b].form
      /\ w.busy = tab[b].busy /\ DOMAIN w = Fields
  BY <1>7 DEF SameBut, Fields
<1>9. /\ Hasty(tab[b]) => Hasty(w)
      /\ Excused(tab[b]) => Excused(w)
      /\ Sending(tab[b]) <=> Sending(w)
  BY <1>6, <1>7, <1>8 DEF Hasty, Excused, Sending
<1>10. tab'[b] = w BY <1>5 DEF NowShows
<1>11. GoodTab(b, cookie', issued, tab')
  BY <1>1, <1>2, <1>4, <1>6, <1>7, <1>8, <1>9, <1>10 DEF GoodTab
<1>12. NoneSigns(b, calls) \/ Hasty(w) BY <1>4, <1>9, NothingSent
<1> QED BY <1>1, <1>2, <1>3, <1>5, <1>8, <1>9, <1>11, <1>12, WindowShows

(* What the people at the browsers ask for.                                *)
LEMMA AskShows ==
  ASSUME ShownInv, NEW b \in Browser, UNCHANGED <<issued, live>>, NEW op, NEW arg, NEW does,
         arg[1] = b, Ask(b, op, arg, does),
         \/ op \in Plain /\ does # "submit"
         \/ /\ op \in {"login", "register"} /\ does = "submit" /\ tab[b].form # "none"
            /\ op = "login" => arg[3] = "machines"
  PROVE  ShownInv'
<1>1. /\ TimelyList(calls, cookie, issued, tab) /\ \A a \in Browser : OneForm(a, calls, tab)
      /\ DOMAIN tab = Browser /\ DOMAIN cookie = Browser /\ DOMAIN tab[b] = Fields
      /\ GoodTab(b, cookie, issued, tab)
  BY DEF ShownInv, GoodTab
<1>2. UNCHANGED <<issued, live, cookie>> BY DEF Ask
<1>3. DOMAIN cookie' = Browser /\ cookie'[b] = cookie[b] /\ \A a \in Browser : cookie'[a] = cookie[a]
  BY <1>1, <1>2
<1> DEFINE h == tab[b].hasty \/ (does = "submit" /\ tab[b].to # "none")
           busy == tab[b].busy \cup {does}
           w == [tab[b] EXCEPT !.busy = busy, !.hasty = h]
           e == Request(op, arg)
<1>0. tab' = [tab EXCEPT ![b] = w] BY DEF Ask
<1>5. calls' = Append(calls, e) /\ does \notin tab[b].busy BY DEF Ask
<1>6. /\ h \in BOOLEAN /\ (tab[b].hasty = TRUE => h = TRUE)
      /\ does = "submit" /\ tab[b].to # "none" => h = TRUE
      /\ does # "submit" => h = tab[b].hasty
  <2>1. tab[b].hasty \in BOOLEAN BY <1>1 DEF GoodTab
  <2> QED BY <2>1
<1>7. "submit" \in busy <=> does = "submit" \/ "submit" \in tab[b].busy OBVIOUS
<1> HIDE DEF h, busy
<1>8. SameBut(tab[b], w, {"busy", "hasty"}) /\ w.busy = busy /\ w.hasty = h
  BY <1>1 DEF SameBut, Fields
<1>9. IsRequest(e) /\ e.op = op /\ e.arg = arg /\ e.ok = FALSE BY NewRequest
<1> HIDE DEF w
<1>4. NowShows(b, w) BY <1>0, ExceptShows
<1>10. /\ w.page = tab[b].page /\ w.user = tab[b].user /\ w.form = tab[b].form
       /\ w.to = tab[b].to /\ DOMAIN w = Fields
  BY <1>8 DEF SameBut, Fields
<1>11. CASE op \in Plain /\ does # "submit"
  <2>1. Stays(tab[b], w) BY <1>1, <1>6, <1>7, <1>8, <1>10, <1>11 DEF Stays, GoodTab, Sending
  <2>2. AsksPlain(b, calls, calls') BY <1>5, <1>11 DEF AsksPlain
  <2> QED BY <1>1, <1>2, <1>4, <2>1, <2>2, PlainShows
<1>12. CASE /\ op \in {"login", "register"} /\ does = "submit" /\ tab[b].form # "none"
            /\ op = "login" => arg[3] = "machines"
  <2> HIDE DEF e
  <2>1. Sending(w) /\ w.page = "login"
    BY <1>1, <1>7, <1>8, <1>10, <1>12 DEF Sending, GoodTab
  <2>2. Excused(tab[b]) => Excused(w) BY <1>6, <1>8, <1>10 DEF Hasty, Excused
  <2>3. Hasty(w) \/ w.to = "none" BY <1>6, <1>8, <1>10, <1>12 DEF Hasty
  <2>4. Hasty(tab[b]) => Hasty(w) BY <1>6, <1>8 DEF Hasty
  <2>5. ~Sending(tab[b]) BY <1>5, <1>12 DEF Sending
  <2>6. NoneSigns(b, calls) \/ Hasty(w) BY <2>4, <2>5, NothingSent
  <2>7. tab'[b] = w BY <1>4 DEF NowShows
  <2>8. GoodTab(b, cookie', issued, tab')
    BY <1>1, <1>2, <1>6, <1>8, <1>10, <2>1, <2>2, <2>7 DEF GoodTab
  <2>9. OneMore(b, calls, e, cookie', issued, tab')
    BY <1>9, <1>12, <2>1, <2>3, <2>6, <2>7 DEF OneMore, TimelyOf, Signs, Reading
  <2> QED BY <1>1, <1>2, <1>3, <1>4, <1>5, <1>10, <2>2, <2>4, <2>6, <2>8, <2>9, WindowShows
<1> QED BY <1>11, <1>12

LEMMA OpenShows ==
  ASSUME ShownInv, NEW b \in Browser, OpenConsole(b) PROVE ShownInv'
<1>1. /\ TimelyList(calls, cookie, issued, tab) /\ \A a \in Browser : OneForm(a, calls, tab)
      /\ DOMAIN tab = Browser /\ DOMAIN cookie = Browser
      /\ GoodTab(b, cookie, issued, tab) /\ IsSeq(calls)
  BY DEF ShownInv, TimelyList
<1>2. UNCHANGED <<issued, live, cookie>> BY DEF OpenConsole, serverVars
<1>3. DOMAIN cookie' = Browser /\ cookie'[b] = cookie[b] /\ \A a \in Browser : cookie'[a] = cookie[a]
  BY <1>1, <1>2
<1> DEFINE w == Window("login", None)
           arg == <<b, None>>
           e == Request("setup", arg)
<1>4. tab[b].page = "closed" /\ tab' = [tab EXCEPT ![b] = w] BY DEF OpenConsole
<1>5. calls' = Append(calls, e)
  <2>1. calls' = calls \o Opening(b, "login", None) BY DEF OpenConsole
  <2>2. Opening(b, "login", None) = <<e>> BY DEF Opening
  <2> HIDE DEF e
  <2> QED BY <1>1, <2>1, <2>2, JoinOne
<1>6. /\ DOMAIN w = Fields /\ w.page = "login" /\ w.user = None /\ w.hasty = FALSE /\ w.to = "none"
      /\ w.busy = {}
  BY DEF Window, Fields
<1>7. arg[1] = b OBVIOUS
<1> HIDE DEF arg
<1>8. IsRequest(e) /\ e.op = "setup" /\ e.arg = arg BY NewRequest
<1> HIDE DEF w, e
<1>9. NowShows(b, w) /\ tab'[b] = w BY <1>4, ExceptShows DEF NowShows
<1>10. GoodTab(b, cookie', issued, tab') BY <1>1, <1>2, <1>6, <1>9 DEF GoodTab, Sending
<1>11. ~Hasty(tab[b]) BY <1>1, <1>4 DEF GoodTab, Hasty
<1>12. NoneSigns(b, calls) /\ NoneReads(b, calls, "setup") /\ NoneReads(b, calls, "me")
  BY <1>4, <1>11, NothingSent
<1>13. OneMore(b, calls, e, cookie', issued, tab')
  BY <1>6, <1>7, <1>8, <1>9 DEF OneMore, TimelyOf, Signs, Reading
<1> QED BY <1>1, <1>2, <1>3, <1>4, <1>5, <1>9, <1>10, <1>11, <1>12, <1>13, WindowShows

(* What the people at the browsers do.                                     *)
LEMMA ActShows ==
  ASSUME ShownInv, NEW b \in Browser, Act(b) PROVE ShownInv'
<1>1. /\ TimelyList(calls, cookie, issued, tab) /\ \A a \in Browser : OneForm(a, calls, tab)
      /\ DOMAIN tab[b] = Fields /\ GoodTab(b, cookie, issued, tab)
  BY DEF ShownInv, GoodTab
<1>2. UNCHANGED <<issued, live>>
  BY DEF Act, Arrive, OpenConsole, Follow, SwitchMode, Submit, LogOut, Manage, Refresh, Ask, serverVars
<1>3. CASE SwitchMode(b)
  <2>1. tab[b].form # "none" /\ calls' = calls /\ cookie' = cookie BY <1>3 DEF SwitchMode, apiVars
  <2>2. PICK v : tab' = [tab EXCEPT ![b].form = v] BY <1>3 DEF SwitchMode
  <2> DEFINE w == [tab[b] EXCEPT !.form = v]
  <2>3. tab' = [tab EXCEPT ![b] = w] BY <2>2
  <2>4. SameBut(tab[b], w, {"form"}) BY <1>1, OneField DEF Fields
  <2> HIDE DEF w
  <2>5. Stays(tab[b], w) BY <1>1, <2>1, <2>4 DEF Stays, SameBut, Fields, Sending, GoodTab
  <2>6. AsksPlain(b, calls, calls') BY <2>1 DEF AsksPlain
  <2>7. NowShows(b, w) BY <2>3, ExceptShows
  <2> QED BY <1>1, <1>2, <2>1, <2>5, <2>6, <2>7, PlainShows
<1>4. CASE Submit(b)
  <2>1. PICK n \in Name :
          \/ tab[b].form = "setup" /\ Ask(b, "register", <<b, n, "setup">>, "submit")
          \/ tab[b].form = "register" /\ Ask(b, "register", <<b, n, "register">>, "submit")
          \/ tab[b].form = "login" /\ Ask(b, "login", <<b, n, "machines">>, "submit")
    BY <1>4 DEF Submit
  <2>2. \A x : <<b, n, x>>[1] = b /\ <<b, n, x>>[3] = x OBVIOUS
  <2>3. \E op, arg :
          /\ arg[1] = b /\ op \in {"login", "register"} /\ (op = "login" => arg[3] = "machines")
          /\ tab[b].form # "none" /\ Ask(b, op, arg, "submit")
    BY <2>1, <2>2
  <2> QED BY <1>2, <2>3, AskShows
<1>5. CASE LogOut(b)
  <2>1. Ask(b, "logout", <<b, cookie[b]>>, "logout") BY <1>5 DEF LogOut
  <2>2. <<b, cookie[b]>>[1] = b /\ "logout" \in Plain BY DEF Plain
  <2> QED BY <1>2, <2>1, <2>2, AskShows
<1>6. CASE Manage(b)
  <2>1. \/ \E n \in Name : Ask(b, "create", <<b, cookie[b], n>>, "create")
        \/ \E u \in tab[b].regs, op \in Decision : Ask(b, op, <<b, cookie[b], u>>, "decide")
    BY <1>6 DEF Manage
  <2>2. \A x : <<b, cookie[b], x>>[1] = b OBVIOUS
  <2>3. "create" \in Plain /\ Decision \subseteq Plain BY DEF Plain, Decision
  <2>4. \E op, arg, does : op \in Plain /\ arg[1] = b /\ does # "submit" /\ Ask(b, op, arg, does)
    BY <2>1, <2>2, <2>3
  <2> QED BY <1>2, <2>4, AskShows
<1>7. CASE Refresh(b)
  <2>1. tab' = tab /\ cookie' = cookie /\ calls' = Append(calls, Request("lists", <<b, cookie[b]>>))
    BY <1>7 DEF Refresh
  <2>2. <<b, cookie[b]>>[1] = b /\ "lists" \in Plain BY DEF Plain
  <2>3. AsksPlain(b, calls, calls') BY <2>1, <2>2 DEF AsksPlain
  <2> QED BY <1>1, <1>2, <2>1, <2>3, PlainShows
<1> QED BY <1>3, <1>4, <1>5, <1>6, <1>7, ArriveShows, OpenShows, FollowShows DEF Act

LEMMA NextShown == ShownInv /\ [Next]_vars => ShownInv'
<1> SUFFICES ASSUME ShownInv, [Next]_vars PROVE ShownInv' OBVIOUS
<1>1. CASE UNCHANGED vars
  <2>1. UNCHANGED <<issued, live, cookie, tab, calls>> BY <1>1 DEF vars, serverVars, apiVars
  <2> QED BY <2>1 DEF ShownInv, GoodTab
<1>2. CASE Expire
  <2>1. UNCHANGED <<issued, cookie, tab, calls>> /\ live' \subseteq live
    BY <1>2 DEF Expire, apiVars
  <2> QED BY <2>1 DEF ShownInv, GoodTab
<1>3. ASSUME NEW i \in DOMAIN calls, NEW b \in Browser, Hear(i, b) PROVE ShownInv'
  BY <1>3, HearPlain, HearRegisterShows, HearLoginShows, HearMeShows, HearLogoutShows DEF Hear
<1> QED BY <1>1, <1>2, <1>3, ServeShows, HearCancelledShows, ActShows DEF Next

(* The name a window shows at its top is the account that its requests are *)
(* made for: no answer that comes late, after a sign-out, a sign-in as     *)
(* someone else or from a page that was left, names another one, but for   *)
(* the moments until the router reaches the login page, and unless its     *)
(* user did not wait for the router (app-shell.tsx:87-137).                *)
THEOREM ShownUserIsSignedIn == Spec => []ShownIsSignedIn
<1>1. ShownInv => ShownIsSignedIn
  <2> SUFFICES ASSUME ShownInv, NEW b \in Browser, tab[b].user # None,
                      ~(tab[b].to = "login" \/ tab[b].hasty)
               PROVE  cookie[b] # None /\ issued[cookie[b]] = tab[b].user
    BY DEF ShownIsSignedIn
  <2>1. ~Excused(tab[b]) BY DEF Excused, Hasty
  <2>2. IsSeq(issued) /\ cookie[b] \in DOMAIN issued /\ issued[cookie[b]] = tab[b].user
    BY <2>1 DEF ShownInv, GoodTab
  <2>3. cookie[b] # None BY <2>2, ListFacts DEF None
  <2> QED BY <2>2, <2>3
<1> QED BY <1>1, InitShown, NextShown, PTL DEF Spec
=============================================================================
