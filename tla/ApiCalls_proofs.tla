-------------------------- MODULE ApiCalls_proofs ---------------------------
(***************************************************************************)
(* Lemmas about the requests of a page: what they are after one is asked   *)
(* for, answered or heard.  Nothing is assumed of what requests say; a     *)
(* list is a sequence of whatever is in it.                                *)
(***************************************************************************)
EXTENDS ApiCalls, SequenceTheorems, TLAPS

(* A sequence.                                                             *)
IsSeq(s) == s \in Seq(Range(s))

(* A request's record, with any contents.                                  *)
IsRequest(c) == c = [op |-> c.op, arg |-> c.arg, at |-> c.at, ok |-> c.ok, body |-> c.body]

----------------------------------------------------------------------------
(* Lists.                                                                  *)

LEMMA ListFacts ==
  ASSUME NEW s, IsSeq(s)
  PROVE  /\ Len(s) \in Nat /\ DOMAIN s = 1 .. Len(s)
         /\ \A S : Range(s) \subseteq S => s \in Seq(S)
<1>1. s \in Seq(Range(s)) BY DEF IsSeq
<1>2. Len(s) \in Nat /\ DOMAIN s = 1 .. Len(s) BY <1>1, LenProperties
<1>3. ASSUME NEW S, Range(s) \subseteq S PROVE s \in Seq(S) BY <1>1, <1>3, SeqMonotonic
<1> QED BY <1>2, <1>3

LEMMA ListOf ==
  ASSUME NEW S, NEW s \in Seq(S) PROVE IsSeq(s)
  BY SeqOfRange DEF IsSeq

LEMMA AppendList ==
  ASSUME NEW s, IsSeq(s), NEW e
  PROVE  /\ IsSeq(Append(s, e)) /\ DOMAIN Append(s, e) = 1 .. Len(s) + 1
         /\ \A j \in DOMAIN s : Append(s, e)[j] = s[j]
         /\ Append(s, e)[Len(s) + 1] = e
<1> DEFINE S == Range(s) \cup {e}
<1>1. s \in Seq(S) /\ e \in S BY ListFacts
<1> HIDE DEF S
<1>2. Append(s, e) \in Seq(S) /\ Len(Append(s, e)) = Len(s) + 1
      /\ (\A i \in 1 .. Len(s) : Append(s, e)[i] = s[i]) /\ Append(s, e)[Len(s) + 1] = e
  BY <1>1, AppendProperties
<1>3. DOMAIN Append(s, e) = 1 .. Len(s) + 1 BY <1>2, LenProperties
<1> QED BY <1>2, <1>3, ListFacts, ListOf

(* A concatenation, closed to the provers.                                 *)
Joined(s, t) == s \o t

LEMMA ConcatList ==
  ASSUME NEW s, NEW t, IsSeq(s), IsSeq(t)
  PROVE  /\ IsSeq(Joined(s, t))
         /\ \A j \in DOMAIN Joined(s, t) : \/ \E i \in DOMAIN s : Joined(s, t)[j] = s[i]
                                        \/ \E i \in DOMAIN t : Joined(s, t)[j] = t[i]
<1> DEFINE S == Range(s) \cup Range(t)
<1>1. s \in Seq(S) /\ t \in Seq(S) BY ListFacts
<1> HIDE DEF S
<1>2. /\ s \o t \in Seq(S) /\ Len(s \o t) = Len(s) + Len(t)
      /\ \A i \in 1 .. Len(s) + Len(t) :
           (s \o t)[i] = IF i <= Len(s) THEN s[i] ELSE t[i - Len(s)]
  BY <1>1, ConcatProperties
<1>3. DOMAIN (s \o t) = 1 .. Len(s) + Len(t) BY <1>2, LenProperties
<1>4. /\ Len(s) \in Nat /\ DOMAIN s = 1 .. Len(s)
      /\ Len(t) \in Nat /\ DOMAIN t = 1 .. Len(t)
  BY ListFacts
<1>5. ASSUME NEW j \in DOMAIN (s \o t)
      PROVE  \/ \E i \in DOMAIN s : (s \o t)[j] = s[i]
             \/ \E i \in DOMAIN t : (s \o t)[j] = t[i]
  <2>1. CASE j <= Len(s) BY <1>2, <1>3, <1>4, <1>5, <2>1
  <2>2. CASE ~(j <= Len(s))
    <3>1. j - Len(s) \in DOMAIN t BY <1>3, <1>4, <2>2
    <3> QED BY <1>2, <1>3, <2>2, <3>1
  <2> QED BY <2>1, <2>2
<1> QED BY <1>2, <1>5, ListOf DEF Joined

Piece(s, m, n) == SubSeq(s, m, n)

LEMMA PieceList ==
  ASSUME NEW s, IsSeq(s), NEW m \in Int, NEW n \in Int, m >= 1, n <= Len(s)
  PROVE  /\ IsSeq(Piece(s, m, n))
         /\ \A j \in DOMAIN Piece(s, m, n) : \E i \in DOMAIN s : Piece(s, m, n)[j] = s[i]
<1>1. Len(s) \in Nat /\ DOMAIN s = 1 .. Len(s) BY ListFacts
<1>2. \A i \in m .. n : i \in DOMAIN s /\ s[i] \in Range(s) BY <1>1 DEF Range
<1>3. /\ SubSeq(s, m, n) \in Seq(Range(s))
      /\ Len(SubSeq(s, m, n)) = IF m <= n THEN n - m + 1 ELSE 0
      /\ \A i \in 1 .. n - m + 1 : SubSeq(s, m, n)[i] = s[m + i - 1]
  BY <1>2, SubSeqProperties
<1>4. DOMAIN SubSeq(s, m, n) = 1 .. Len(SubSeq(s, m, n)) BY <1>3, LenProperties
<1>5. ASSUME NEW j \in DOMAIN SubSeq(s, m, n)
      PROVE  \E i \in DOMAIN s : SubSeq(s, m, n)[j] = s[i]
  <2>1. m <= n /\ j \in 1 .. n - m + 1 BY <1>3, <1>4
  <2>2. m + j - 1 \in m .. n BY <2>1
  <2> QED BY <1>2, <1>3, <2>1, <2>2
<1> QED BY <1>3, <1>5, ListOf DEF Piece

LEMMA ExceptList ==
  ASSUME NEW s, IsSeq(s), NEW i \in DOMAIN s, NEW e
  PROVE  /\ IsSeq([s EXCEPT ![i] = e]) /\ DOMAIN [s EXCEPT ![i] = e] = DOMAIN s
         /\ \A j \in DOMAIN s : [s EXCEPT ![i] = e][j] = IF j = i THEN e ELSE s[j]
<1> DEFINE S == Range(s) \cup {e}
<1>1. s \in Seq(S) /\ e \in S /\ i \in 1 .. Len(s) BY ListFacts
<1> HIDE DEF S
<1>2. [s EXCEPT ![i] = e] \in Seq(S) BY <1>1, ExceptSeq
<1> QED BY <1>2, ListOf

LEMMA MapList ==
  ASSUME NEW s, IsSeq(s), NEW t, DOMAIN t = DOMAIN s, t = [j \in DOMAIN s |-> t[j]]
  PROVE  IsSeq(t)
<1>1. Len(s) \in Nat /\ DOMAIN s = 1 .. Len(s) BY ListFacts
<1>2. t \in [1 .. Len(s) -> Range(t)] BY <1>1 DEF Range
<1> QED BY <1>1, <1>2, SeqDef DEF IsSeq

LEMMA ShortLists ==
  /\ IsSeq(<<>>) /\ DOMAIN <<>> = {}
  /\ \A e : IsSeq(<<e>>) /\ DOMAIN <<e>> = {1} /\ <<e>>[1] = e
<1>1. <<>> \in Seq({}) /\ DOMAIN <<>> = {} BY EmptySeq
<1>2. ASSUME NEW e PROVE <<e>> \in Seq({e}) /\ DOMAIN <<e>> = {1} /\ <<e>>[1] = e OBVIOUS
<1> QED BY <1>1, <1>2, ListOf

----------------------------------------------------------------------------
(* Requests.                                                               *)

LEMMA FreshRequest ==
  ASSUME NEW op, NEW arg
  PROVE  LET c == Request(op, arg)
         IN IsRequest(c) /\ c.op = op /\ c.arg = arg /\ c.at = "out" /\ c.ok = FALSE
  BY DEF IsRequest, Request

(* What is on its way once a request has been heard: what was, or more.    *)
LEMMA WithoutList ==
  ASSUME IsSeq(calls), NEW i \in DOMAIN calls, NEW more, IsSeq(more)
  PROVE  /\ IsSeq(Without(i, more))
         /\ \A j \in DOMAIN Without(i, more) :
              \/ \E k \in DOMAIN calls : Without(i, more)[j] = calls[k]
              \/ \E k \in DOMAIN more : Without(i, more)[j] = more[k]
<1> DEFINE a == Piece(calls, 1, i - 1)
           b == Piece(calls, i + 1, Len(calls))
<1>1. DOMAIN calls = 1 .. Len(calls) /\ Len(calls) \in Nat BY ListFacts
<1>2. /\ i - 1 \in Int /\ 1 \in Int /\ 1 >= 1 /\ i - 1 <= Len(calls)
      /\ i + 1 \in Int /\ Len(calls) \in Int /\ i + 1 >= 1 /\ Len(calls) <= Len(calls)
  BY <1>1
<1>3. /\ IsSeq(a) /\ \A j \in DOMAIN a : \E k \in DOMAIN calls : a[j] = calls[k]
      /\ IsSeq(b) /\ \A j \in DOMAIN b : \E k \in DOMAIN calls : b[j] = calls[k]
  BY <1>2, PieceList
<1> HIDE DEF a, b
<1>4. IsSeq(Joined(a, b)) /\ \A j \in DOMAIN Joined(a, b) : \E k \in DOMAIN calls : Joined(a, b)[j] = calls[k]
  BY <1>3, ConcatList
<1> DEFINE ab == Joined(a, b)
<1> HIDE DEF ab
<1>5. /\ IsSeq(Joined(ab, more))
      /\ \A j \in DOMAIN Joined(ab, more) : \/ \E k \in DOMAIN ab : Joined(ab, more)[j] = ab[k]
                                          \/ \E k \in DOMAIN more : Joined(ab, more)[j] = more[k]
  BY <1>4, ConcatList DEF ab
<1>6. \A j \in DOMAIN Joined(ab, more) : \/ \E k \in DOMAIN calls : Joined(ab, more)[j] = calls[k]
                                      \/ \E k \in DOMAIN more : Joined(ab, more)[j] = more[k]
  <2>1. \A j \in DOMAIN ab : \E k \in DOMAIN calls : ab[j] = calls[k] BY <1>4 DEF ab
  <2> QED BY <1>5, <2>1
<1>7. Without(i, more) = Joined(ab, more) BY DEF Without, RemoveAt, Piece, Joined, ab, a, b
<1> QED BY <1>5, <1>6, <1>7

(* The fields that an answer leaves and sets.                              *)
LEMMA AnsweredFields ==
  ASSUME NEW q, q = [op |-> q.op, arg |-> q.arg, at |-> q.at, ok |-> q.ok, body |-> q.body],
         NEW ok, NEW body
  PROVE  /\ [q EXCEPT !.at = "back", !.ok = ok, !.body = body] =
              [op |-> q.op, arg |-> q.arg, at |-> "back", ok |-> ok, body |-> body]
         /\ [q EXCEPT !.at = "back"] =
              [op |-> q.op, arg |-> q.arg, at |-> "back", ok |-> q.ok, body |-> q.body]
<1>1. DOMAIN q = {"op", "arg", "at", "ok", "body"} OBVIOUS
<1> DEFINE c == [q EXCEPT !.at = "back", !.ok = ok, !.body = body]
           d == [q EXCEPT !.at = "back"]
<1>2. /\ DOMAIN c = {"op", "arg", "at", "ok", "body"} /\ c = [f \in DOMAIN c |-> c[f]]
      /\ c.op = q.op /\ c.arg = q.arg /\ c.at = "back" /\ c.ok = ok /\ c.body = body
  BY <1>1
<1>3. /\ DOMAIN d = {"op", "arg", "at", "ok", "body"} /\ d = [f \in DOMAIN d |-> d[f]]
      /\ d.op = q.op /\ d.arg = q.arg /\ d.at = "back" /\ d.ok = q.ok /\ d.body = q.body
  BY <1>1
<1> HIDE DEF c, d
<1>4. c = [op |-> q.op, arg |-> q.arg, at |-> "back", ok |-> ok, body |-> body] BY <1>2
<1>5. d = [op |-> q.op, arg |-> q.arg, at |-> "back", ok |-> q.ok, body |-> q.body] BY <1>3
<1> QED BY <1>4, <1>5 DEF c, d

(* An answer, or none: of one request the answer's fields change, and its  *)
(* ok is that of the answer, or the request failed and it is what it was.  *)
LEMMA AnsweredRequest ==
  ASSUME IsSeq(calls), NEW i \in DOMAIN calls, NEW ok, NEW body,
         \A j \in DOMAIN calls : IsRequest(calls[j]),
         Answer(i, ok, body) \/ NeverArrives(i)
  PROVE  /\ IsSeq(calls') /\ DOMAIN calls' = DOMAIN calls
         /\ \A j \in DOMAIN calls : j # i => calls'[j] = calls[j]
         /\ IsRequest(calls'[i])
         /\ calls'[i].op = calls[i].op /\ calls'[i].arg = calls[i].arg /\ calls'[i].at = "back"
         /\ \/ calls'[i].ok = ok /\ calls'[i].body = body /\ fails' = fails
            \/ calls'[i].ok = calls[i].ok /\ calls'[i].body = calls[i].body /\ fails' = fails + 1
<1> DEFINE q == calls[i]
           c == [q EXCEPT !.at = "back", !.ok = ok, !.body = body]
           d == [q EXCEPT !.at = "back"]
           Of(o, b) == [op |-> q.op, arg |-> q.arg, at |-> "back", ok |-> o, body |-> b]
<1>1. q = [op |-> q.op, arg |-> q.arg, at |-> q.at, ok |-> q.ok, body |-> q.body] BY DEF IsRequest
<1>2. \/ calls' = [calls EXCEPT ![i] = c] /\ fails' = fails
      \/ calls' = [calls EXCEPT ![i] = d] /\ fails' = fails + 1
  BY DEF Answer, NeverArrives
<1> HIDE DEF q
<1>3. c = Of(ok, body) /\ d = Of(q.ok, q.body) BY <1>1, AnsweredFields
<1>4. \A o, b : IsRequest(Of(o, b)) BY DEF IsRequest
<1> HIDE DEF c, d
<1>5. CASE calls' = [calls EXCEPT ![i] = c] /\ fails' = fails
  <2>1. IsSeq(calls') /\ DOMAIN calls' = DOMAIN calls /\ calls'[i] = c
        /\ \A j \in DOMAIN calls : j # i => calls'[j] = calls[j]
    BY <1>5, ExceptList
  <2>2. IsRequest(c) BY <1>3, <1>4
  <2> QED BY <1>3, <1>5, <2>1, <2>2 DEF q
<1>6. CASE calls' = [calls EXCEPT ![i] = d] /\ fails' = fails + 1
  <2>1. IsSeq(calls') /\ DOMAIN calls' = DOMAIN calls /\ calls'[i] = d
        /\ \A j \in DOMAIN calls : j # i => calls'[j] = calls[j]
    BY <1>6, ExceptList
  <2>2. IsRequest(d) BY <1>3, <1>4
  <2> QED BY <1>3, <1>6, <2>1, <2>2 DEF q
<1> QED BY <1>2, <1>5, <1>6

(* Where each of the others stands once a request has been heard.          *)
LEMMA WithoutPlaces ==
  ASSUME IsSeq(calls), NEW i \in DOMAIN calls
  PROVE  /\ IsSeq(Without(i, <<>>))
         /\ \A j \in DOMAIN Without(i, <<>>) :
              LET k == IF j < i THEN j ELSE j + 1
              IN /\ j \in Nat /\ k \in DOMAIN calls \ {i}
                 /\ Without(i, <<>>)[j] = calls[k]
         /\ \A k \in DOMAIN calls \ {i} : \E j \in DOMAIN Without(i, <<>>) : Without(i, <<>>)[j] = calls[k]
<1> DEFINE n == Len(calls)
           S == Range(calls)
           a == SubSeq(calls, 1, i - 1)
           b == SubSeq(calls, i + 1, n)
<1>1. n \in Nat /\ DOMAIN calls = 1 .. n /\ i \in 1 .. n /\ calls \in Seq(S)
  BY ListFacts DEF IsSeq
<1>2. \A k \in 1 .. n : calls[k] \in S BY <1>1 DEF Range
<1> HIDE DEF n, S
<1>3. /\ a \in Seq(S) /\ Len(a) = i - 1
      /\ \A k \in 1 .. i - 1 : a[k] = calls[k]
  <2>1. \A k \in 1 .. i - 1 : k \in 1 .. n BY <1>1
  <2>2. /\ a \in Seq(S) /\ Len(a) = (IF 1 <= i - 1 THEN (i - 1) - 1 + 1 ELSE 0)
        /\ \A k \in 1 .. (i - 1) - 1 + 1 : a[k] = calls[1 + k - 1]
    BY <1>1, <1>2, <2>1, SubSeqProperties
  <2> HIDE DEF a
  <2> QED BY <1>1, <2>2
<1>4. /\ b \in Seq(S) /\ Len(b) = n - i
      /\ \A k \in 1 .. n - i : b[k] = calls[i + k]
  <2>1. \A k \in i + 1 .. n : k \in 1 .. n BY <1>1
  <2>2. /\ b \in Seq(S) /\ Len(b) = (IF i + 1 <= n THEN n - (i + 1) + 1 ELSE 0)
        /\ \A k \in 1 .. n - (i + 1) + 1 : b[k] = calls[(i + 1) + k - 1]
    BY <1>1, <1>2, <2>1, SubSeqProperties
  <2> HIDE DEF b
  <2> QED BY <1>1, <2>2
<1> DEFINE w == a \o b
<1>5. Without(i, <<>>) = w
  <2>1. Without(i, <<>>) = w \o <<>> BY DEF Without, RemoveAt, n
  <2>2. w \in Seq(S) BY <1>3, <1>4, ConcatProperties
  <2> HIDE DEF w
  <2> QED BY <2>1, <2>2, ConcatEmptySeq
<1> HIDE DEF a, b
<1>6. /\ w \in Seq(S) /\ Len(w) = n - 1
      /\ \A j \in 1 .. n - 1 : w[j] = IF j <= i - 1 THEN a[j] ELSE b[j - (i - 1)]
  <2>1. /\ w \in Seq(S) /\ Len(w) = Len(a) + Len(b)
        /\ \A j \in 1 .. Len(a) + Len(b) : w[j] = IF j <= Len(a) THEN a[j] ELSE b[j - Len(a)]
    BY <1>3, <1>4, ConcatProperties
  <2>2. Len(a) + Len(b) = n - 1 BY <1>1, <1>3, <1>4
  <2> HIDE DEF w
  <2> QED BY <1>3, <2>1, <2>2
<1> HIDE DEF w
<1>7. DOMAIN w = 1 .. n - 1 BY <1>6, LenProperties
<1>8. ASSUME NEW j \in DOMAIN w
      PROVE  LET k == IF j < i THEN j ELSE j + 1
             IN j \in Nat /\ k \in DOMAIN calls \ {i} /\ w[j] = calls[k]
  <2>1. j \in 1 .. n - 1 BY <1>7
  <2>2. CASE j < i
    <3>1. j \in 1 .. i - 1 /\ j <= i - 1 /\ j \in 1 .. n /\ j # i BY <1>1, <2>1, <2>2
    <3> QED BY <1>1, <1>3, <1>6, <2>1, <2>2, <3>1
  <2>3. CASE ~(j < i)
    <3>1. ~(j <= i - 1) /\ j - (i - 1) \in 1 .. n - i /\ i + (j - (i - 1)) = j + 1
          /\ j + 1 \in 1 .. n /\ j + 1 # i
      BY <1>1, <2>1, <2>3
    <3> QED BY <1>1, <1>4, <1>6, <2>1, <2>3, <3>1
  <2> QED BY <2>2, <2>3
<1>9. ASSUME NEW k \in DOMAIN calls \ {i} PROVE \E j \in DOMAIN w : w[j] = calls[k]
  <2>1. CASE k < i
    <3>1. k \in 1 .. n - 1 BY <1>1, <2>1
    <3> QED BY <1>7, <1>8, <2>1, <3>1
  <2>2. CASE ~(k < i)
    <3>1. k - 1 \in 1 .. n - 1 /\ ~(k - 1 < i) /\ (k - 1) + 1 = k BY <1>1, <2>2
    <3> QED BY <1>7, <1>8, <3>1
  <2> QED BY <2>1, <2>2
<1>10. IsSeq(w) BY <1>6, ListOf
<1> QED BY <1>5, <1>8, <1>9, <1>10

(* One more after the others.                                              *)
LEMMA WithoutAppends ==
  ASSUME IsSeq(calls), NEW i \in DOMAIN calls, NEW e
  PROVE  Without(i, <<e>>) = Append(Without(i, <<>>), e)
<1> DEFINE w == RemoveAt(calls, i)
<1>1. Without(i, <<e>>) = w \o <<e>> /\ Without(i, <<>>) = w \o <<>> BY DEF Without
<1>2. IsSeq(w)
  <2>1. /\ i - 1 \in Int /\ i - 1 <= Len(calls) /\ i + 1 \in Int /\ Len(calls) \in Int /\ i + 1 >= 1
    BY ListFacts
  <2>2. IsSeq(Piece(calls, 1, i - 1)) /\ IsSeq(Piece(calls, i + 1, Len(calls)))
    BY <2>1, PieceList
  <2>3. w = Joined(Piece(calls, 1, i - 1), Piece(calls, i + 1, Len(calls)))
    BY DEF RemoveAt, Joined, Piece
  <2> QED BY <2>2, <2>3, ConcatList
<1> HIDE DEF w
<1>3. w \in Seq(Range(w) \cup {e}) BY <1>2, ListFacts
<1>4. w \o <<>> = w /\ w \o <<e>> = Append(w, e) BY <1>3
<1> QED BY <1>1, <1>4

LEMMA JoinOne ==
  ASSUME NEW s, IsSeq(s), NEW e PROVE s \o <<e>> = Append(s, e)
<1>1. s \in Seq(Range(s) \cup {e}) BY ListFacts
<1> QED BY <1>1

=============================================================================
