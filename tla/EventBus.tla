------------------------------ MODULE EventBus ------------------------------
(***************************************************************************)
(* The events of one session on their way to those who watch it: EventBus  *)
(* of server/app/events.py (a bounded queue per subscriber), the handler   *)
(* of /ws/client in client_ws.py that empties it, and the WebSocket to the *)
(* client (external: what uvicorn and the browser make of it).             *)
(***************************************************************************)
EXTENDS Naturals, Sequences

CONSTANTS
  Sub,        \* connections to /ws/client that subscribe to the session
  QueueCap    \* maxsize of a subscriber's asyncio.Queue: 1000 in the code

ASSUME BusAssumption == QueueCap \in Nat \ {0}

VARIABLES
  hand,    \* hand[s]: "none"; "checking": ticket consumed, session row being
           \* read; "serving": in the loop; "closed": over; "dead": over, still
           \* in the bus
  subs,    \* _subs[session_id]: the subscribers in the bus
  queue,   \* queue[s]: the events published to s and not yet sent
  conn,    \* conn[s]: "new"; "up"; "live" once the client has read "subscribed";
           \* "down"
  wire,    \* wire[s]: frames sent to the client and not yet read by it
  due,     \* due[s]: the events published since s became live (history)
  full     \* full[s]: an event found the queue of s full (history)

busVars == <<hand, subs, queue, conn, wire, due, full>>

EventType == {"turn_started", "assistant", "tool_call", "tool_output", "tool_result",
              "approval_required", "turn_done", "turn_error"}

Outcome == {"none", "completed", "failed"}

(* call: the seq of the row its result gets, 0 for what is no tool's.      *)
Event == [type : EventType, call : Nat, status : Outcome]

Ev(type) == [type |-> type, call |-> 0, status |-> "none"]
CallEv(type, call) == [type |-> type, call |-> call, status |-> "none"]
ResultEv(call, status) == [type |-> "tool_result", call |-> call, status |-> status]

(* The frame {"type": "subscribed"}, which is no event.                    *)
Subscribed == [type |-> "subscribed", call |-> 0, status |-> "none"]

BusInit ==
  /\ hand = [s \in Sub |-> "none"]
  /\ subs = {}
  /\ queue = [s \in Sub |-> <<>>]
  /\ conn = [s \in Sub |-> "new"]
  /\ wire = [s \in Sub |-> <<>>]
  /\ due = [s \in Sub |-> <<>>]
  /\ full = [s \in Sub |-> FALSE]

Connected(s) == conn[s] \in {"up", "live"}

(* publish: put_nowait to every subscriber; what a full queue does not     *)
(* take is dropped for that subscriber.  (What piles up for one whose      *)
(* handler is over is left out.)                                           *)
Clip(q) == SubSeq(q, 1, IF Len(q) > QueueCap THEN QueueCap ELSE Len(q))

Publish(evs) ==
  /\ queue' = [s \in Sub |-> IF hand[s] = "serving" /\ s \in subs THEN Clip(queue[s] \o evs)
                          ELSE queue[s]]
  /\ due' = [s \in Sub |-> IF conn[s] = "live" THEN due[s] \o evs ELSE due[s]]
  /\ full' = [s \in Sub |-> full[s] \/ (hand[s] = "serving" /\ s \in subs
                                         /\ Len(queue[s] \o evs) > QueueCap)]
  /\ UNCHANGED <<hand, subs, conn, wire>>

(* The client opens the socket with its ticket and sends "subscribe"; the  *)
(* handler consumes the ticket first.  A ticket that is used, unknown or   *)
(* older than 30 s is refused with 4401.                                   *)
Open(s) ==
  /\ conn[s] = "new"
  /\ \/ /\ hand' = [hand EXCEPT ![s] = "checking"]
        /\ conn' = [conn EXCEPT ![s] = "up"]
     \/ /\ hand' = [hand EXCEPT ![s] = "closed"]
        /\ conn' = [conn EXCEPT ![s] = "down"]
  /\ UNCHANGED <<subs, queue, wire, due, full>>

(* Mutant: the client is told "subscribed" before it is in the bus.        *)
JoinEarlyAck(s) ==
  /\ hand[s] = "checking"
  /\ conn[s] = "up" => wire[s] = <<>>
  /\ IF conn[s] = "up"
     THEN wire' = [wire EXCEPT ![s] = <<Subscribed>>] /\ UNCHANGED <<subs, hand>>
     ELSE /\ subs' = subs \cup {s}
          /\ hand' = [hand EXCEPT ![s] = "serving"]
          /\ UNCHANGED wire
  /\ UNCHANGED <<queue, conn, due, full>>

(* The session row is read: into the bus, then "subscribed" goes out, with *)
(* no await that lets a turn publish in between.                           *)
Join(s) ==
  /\ hand[s] = "checking"
  /\ conn[s] = "up"
  /\ subs' = subs \cup {s}
  /\ hand' = [hand EXCEPT ![s] = "serving"]
  /\ wire' = [wire EXCEPT ![s] = Append(@, Subscribed)]
  /\ UNCHANGED <<queue, conn, due, full>>

(* The client is gone by then: the send goes nowhere, or raises before the *)
(* try block, and the queue stays in the bus.                              *)
JoinFails(s) ==
  /\ hand[s] = "checking"
  /\ conn[s] = "down"
  /\ subs' = subs \cup {s}
  /\ \E h \in {"serving", "dead"} : hand' = [hand EXCEPT ![s] = h]
  /\ UNCHANGED <<queue, conn, wire, due, full>>

(* The client reads "subscribed", perhaps when the connection is down.     *)
ReadAck(s) ==
  /\ wire[s] # <<>>
  /\ Head(wire[s]) = Subscribed
  /\ wire' = [wire EXCEPT ![s] = Tail(@)]
  /\ conn' = [conn EXCEPT ![s] = IF @ = "up" THEN "live" ELSE @]
  /\ UNCHANGED <<hand, subs, queue, due, full>>

(* The loop: one event from the queue to the socket.                       *)
Forward(s) ==
  /\ hand[s] = "serving"
  /\ queue[s] # <<>>
  /\ queue' = [queue EXCEPT ![s] = Tail(@)]
  /\ wire' = IF Connected(s) THEN [wire EXCEPT ![s] = Append(@, Head(queue[s]))] ELSE wire
  /\ UNCHANGED <<hand, subs, conn, due, full>>

(* A client that has gone is noticed when an event is sent to it, not      *)
(* before: unsubscribe.                                                    *)
Forsake(s) ==
  /\ hand[s] = "serving"
  /\ queue[s] # <<>>
  /\ conn[s] = "down"
  /\ hand' = [hand EXCEPT ![s] = "closed"]
  /\ subs' = subs \ {s}
  /\ queue' = [queue EXCEPT ![s] = <<>>]
  /\ UNCHANGED <<conn, wire, due, full>>

(* The client closes its end and reads no more.                            *)
Close(s) ==
  /\ conn' = [conn EXCEPT ![s] = "down"]
  /\ wire' = [wire EXCEPT ![s] = <<>>]
  /\ due' = [due EXCEPT ![s] = <<>>]
  /\ UNCHANGED <<hand, subs, queue, full>>

(* The connection breaks; the client has yet to read some of the frames.   *)
Cut(s) ==
  /\ Connected(s)
  /\ conn' = [conn EXCEPT ![s] = "down"]
  /\ \E n \in 0 .. Len(wire[s]) : wire' = [wire EXCEPT ![s] = SubSeq(@, 1, n)]
  /\ due' = [due EXCEPT ![s] = <<>>]
  /\ UNCHANGED <<hand, subs, queue, full>>

(* The server process is gone.                                             *)
BusRestart ==
  /\ hand' = [s \in Sub |-> IF conn[s] = "new" THEN "none" ELSE "closed"]
  /\ subs' = {}
  /\ queue' = [s \in Sub |-> <<>>]
  /\ conn' = [s \in Sub |-> IF conn[s] = "new" THEN "new" ELSE "down"]
  /\ due' = [s \in Sub |-> <<>>]
  /\ UNCHANGED <<wire, full>>

HandlerStep(s) == Join(s) \/ JoinFails(s) \/ Forward(s) \/ Forsake(s)

BusTypeOK ==
  /\ hand \in [Sub -> {"none", "checking", "serving", "closed", "dead"}]
  /\ subs \subseteq Sub
  /\ queue \in [Sub -> Seq(Event)]
  /\ due \in [Sub -> Seq(Event)]
  /\ full \in [Sub -> BOOLEAN]
  /\ conn \in [Sub -> {"new", "up", "live", "down"}]
  /\ wire \in [Sub -> Seq(Event \cup {Subscribed})]
=============================================================================
