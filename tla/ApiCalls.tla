------------------------------ MODULE ApiCalls ------------------------------
(***************************************************************************)
(* The requests that a page of the web console has on their way            *)
(* (web/lib/api-client.ts, the proxy route behind it): a request is        *)
(* answered or fails, answers come in any order, and a request that failed *)
(* may or may not have been carried out.                                   *)
(***************************************************************************)
EXTENDS Naturals, Sequences, SequencesExt

CONSTANTS
  NoBody,    \* what an answer is before it comes, and when it says nothing
  MaxOpen,   \* bound: requests on their way at a time
  MaxFails   \* bound: requests that fail on the way

ASSUME ApiAssumption == MaxOpen \in Nat /\ MaxFails \in Nat

VARIABLES
  calls,     \* the requests, the oldest first
  fails      \* requests that failed on the way

apiVars == <<calls, fails>>

(* apiFetch: the method and path, and what the caller keeps for later.     *)
Request(op, arg) == [op |-> op, arg |-> arg, at |-> "out", ok |-> FALSE, body |-> NoBody]

Fits == Len(calls') <= MaxOpen

Is(i, op, at) == i \in DOMAIN calls /\ calls[i].op = op /\ calls[i].at = at

(* The proxy hands the request to the server and its answer back: a status *)
(* outside 200..299 is an error for the caller, whatever the body.         *)
Answer(i, ok, body) ==
  \/ /\ calls' = [calls EXCEPT ![i] = [@ EXCEPT !.at = "back", !.ok = ok, !.body = body]]
     /\ UNCHANGED fails
  \/ /\ fails < MaxFails /\ fails' = fails + 1
     /\ calls' = [calls EXCEPT ![i].at = "back"]

(* The proxy cannot reach the server.                                      *)
NeverArrives(i) ==
  /\ i \in DOMAIN calls /\ calls[i].at = "out"
  /\ fails < MaxFails /\ fails' = fails + 1
  /\ calls' = [calls EXCEPT ![i].at = "back"]

(* The promise settles; its handler may ask for more.                      *)
Without(i, more) == RemoveAt(calls, i) \o more
=============================================================================
