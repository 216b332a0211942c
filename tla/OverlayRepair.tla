--------------------------- MODULE OverlayRepair ---------------------------
(***************************************************************************)
(* Repair over an overlay connection (overlay/service.rs,                  *)
(* overlay/repair.rs) between a requester and a server: each request is    *)
(* one bidirectional stream, ended in both directions.  The drivers at     *)
(* both ends (overlay/driver_glommio.rs) own the store lookup and the      *)
(* table from streams to the nonces of the repair manager.  Streams are    *)
(* those of the in-memory transport (overlay/sim/highseam.rs): reliable    *)
(* and ordered, dying with the connection.                                 *)
(*                                                                         *)
(* A request is known by its nonce, an answer by the request it answers.   *)
(* Deadlines pass at any moment: an answer may take longer than they do.   *)
(***************************************************************************)
EXTENDS Naturals, Sequences, FiniteSets

CONSTANTS
  Nonces,
  MaxStreams,   \* bound: streams the requester opens
  MaxOutbound,  \* MAX_OUTBOUND_REPAIRS
  MaxInbound,   \* MAX_INBOUND_REPAIRS
  MaxRate,      \* MAX_REPAIR_REQUESTS_PER_SECOND
  MaxEvents,    \* MAX_CORE_EVENTS, at the requester
  None

VARIABLES
  linked,    \* [end -> whether it has the connection]
  streams,   \* [end -> [stream -> None or which directions have ended]]
  opened,    \* how many streams the requester has opened
  outbound,  \* requester: [stream -> None or what has arrived of the answer]
  inbound,   \* server: [stream -> None or the request as far as it is known]
  ops,       \* [end -> stream operations on their way to it]
  events,    \* [end -> events its driver has not seen]
  nonces,    \* requester's driver: [stream -> None or its nonce]
  rate,      \* requests of the requester the server has taken this second
  view,      \* whether the repair manager sees the server connected
  told,      \* history: <<nonce, answer>> handed to the repair manager
  concluded, \* history: [stream -> how often the core reported its end]
  dropped    \* history: streams whose end was lost from a full event queue

coreVars == <<streams, opened, outbound, inbound, ops, events, rate, concluded, dropped>>
repairVars == <<coreVars, nonces, view, told>>

Ends == {"requester", "server"}
Streams == 1 .. MaxStreams
Other(end) == IF end = "server" THEN "requester" ELSE "server"

Garbage == <<"garbage">> \* bytes that decode to nothing
Huge == <<"huge">>       \* bytes beyond MAX_REPAIR_REQ_WIRE, MAX_REPAIR_RESP_WIRE
NotFound == <<"notfound">>
Requested(q) == <<"request", q>>
Shred(q) == <<"shred", q>>

-----------------------------------------------------------------------------
(* Streams of the transport.                                               *)

Op(s, kind, bytes) == [stream |-> s, kind |-> kind, bytes |-> bytes]
Half == [fin_sent |-> FALSE, fin_recvd |-> FALSE]

\* reap_stream: a stream is gone when both directions have ended.
Reaped(h) == IF h # None /\ h.fin_sent /\ h.fin_recvd THEN None ELSE h

\* write_stream and finish_stream; reset_stream.  Neither finds a dead stream.
Wrote(end, s, bytes) ==
  /\ streams' = [streams EXCEPT ![end][s] =
                   IF @ = None THEN None ELSE Reaped([@ EXCEPT !.fin_sent = TRUE])]
  /\ ops' = IF streams[end][s] = None \/ streams[end][s].fin_sent THEN ops
            ELSE [ops EXCEPT ![Other(end)] =
                    @ \o <<Op(s, "data", bytes), Op(s, "fin", None)>>]

Reset(end, s, pending) ==
  /\ streams' = [streams EXCEPT ![end][s] = None]
  /\ ops' = IF streams[end][s] = None THEN pending
            ELSE [pending EXCEPT ![Other(end)] = Append(@, Op(s, "reset", None))]

-----------------------------------------------------------------------------
(* The event queue of the requester's core.                                *)

Full(end) == end = "requester" /\ Len(events[end]) >= MaxEvents

\* push_event: a full queue loses its oldest event.
Pushed(end, e) ==
  [events EXCEPT ![end] = Append(IF Full(end) THEN Tail(@) ELSE @, e)]
Lost(end) ==
  IF Full(end) /\ Head(events[end]).kind # "shred"
  THEN {Head(events[end]).stream} ELSE {}

\* The core reports the end of a stream that it opened, and forgets it.
Conclude(s, answer) ==
  /\ outbound' = [outbound EXCEPT ![s] = None]
  /\ events' = Pushed("requester", [kind |-> "concluded", stream |-> s, answer |-> answer])
  /\ concluded' = [concluded EXCEPT ![s] = @ + 1]
  /\ dropped' = dropped \cup Lost("requester")

Silent == UNCHANGED <<outbound, events, concluded, dropped>>

-----------------------------------------------------------------------------
(* The requester.                                                          *)

\* The driver publishes repair_peer_view to the repair manager now and then.
PublishView ==
  /\ view' = linked["requester"]
  /\ UNCHANGED <<coreVars, nonces, told>>

\* A command of the repair manager for a peer it saw connected: request_repair,
\* and the driver notes the nonce.  Without a connection nothing happens.
RequestRepair(q) ==
  LET s == opened + 1
      full == Cardinality({t \in Streams : outbound[t] # None}) >= MaxOutbound
  IN /\ view /\ ~full /\ s <= MaxStreams /\ linked["requester"]
     /\ \A t \in Streams : nonces[t] # q
     /\ opened' = s
     /\ streams' = [streams EXCEPT !["requester"][s] = [Half EXCEPT !.fin_sent = TRUE]]
     /\ ops' = [ops EXCEPT !["server"] =
                  @ \o <<Op(s, "open", None), Op(s, "data", Requested(q)), Op(s, "fin", None)>>]
     /\ outbound' = [outbound EXCEPT ![s] = <<>>]
     /\ nonces' = [nonces EXCEPT ![s] = q]
     /\ UNCHANGED <<inbound, events, rate, view, told, concluded, dropped>>

\* A peer with other software opens a stream and writes what is no request.
RequestGarbage(bytes) ==
  LET s == opened + 1
  IN /\ s <= MaxStreams /\ linked["requester"]
     /\ opened' = s
     /\ streams' = [streams EXCEPT !["requester"][s] = [Half EXCEPT !.fin_sent = TRUE]]
     /\ ops' = [ops EXCEPT !["server"] =
                  @ \o <<Op(s, "open", None), Op(s, "data", bytes), Op(s, "fin", None)>>]
     /\ UNCHANGED <<outbound, inbound, events, rate, nonces, view, told, concluded, dropped>>

\* Shreds of the flood share the event queue.
OtherEvent ==
  /\ \E s \in Streams : nonces[s] # None
  /\ events' = Pushed("requester", [kind |-> "shred"])
  /\ dropped' = dropped \cup Lost("requester")
  /\ UNCHANGED <<streams, opened, outbound, inbound, ops, rate, concluded, nonces, view, told>>

\* Mutant: the response is passed on under the lowest nonce outstanding.
TaggedFirst(s) ==
  LET out == {t \in Streams : nonces[t] # None}
  IN IF out = {} THEN None ELSE nonces[CHOOSE t \in out : \A u \in out : t <= u]

\* The nonce a response is tagged with.
Tagged(s) == nonces[s]

\* The driver takes an event: a shred for a stream that has a nonce is tagged
\* with it and handed on; any end of a stream clears its nonce.
DriveRequester ==
  LET e == Head(events["requester"])
  IN /\ events["requester"] # <<>>
     /\ events' = [events EXCEPT !["requester"] = Tail(@)]
     /\ IF e.kind = "shred" THEN UNCHANGED <<nonces, told>>
        ELSE /\ nonces' = [nonces EXCEPT ![e.stream] = None]
             /\ told' = IF Tagged(e.stream) = None \/ e.answer \in {NotFound, None}
                        THEN told ELSE told \cup {<<Tagged(e.stream), e.answer>>}
     /\ UNCHANGED <<streams, opened, outbound, inbound, ops, rate, view, concluded, dropped>>

-----------------------------------------------------------------------------
(* The server.                                                             *)

\* Whether the request of this stream is still to be answered.
Awaiting(s) == IF inbound[s] = None THEN FALSE ELSE inbound[s].awaiting

\* The driver looks a request up and on_repair_response writes the answer.  A
\* shred that does not fit is not sent; other software may write anything.
DriveServer(outcome) ==
  LET s == Head(events["server"]).stream
      q == Head(events["server"]).request
      bytes == IF outcome = "shred" THEN Shred(q) ELSE <<outcome>>
  IN /\ events["server"] # <<>>
     /\ events' = [events EXCEPT !["server"] = Tail(@)]
     /\ inbound' = [inbound EXCEPT ![s] = None]
     /\ \/ ~Awaiting(s) /\ UNCHANGED <<streams, ops>>
        \/ Awaiting(s) /\ outcome = "oversize" /\ Reset("server", s, ops)
        \/ Awaiting(s) /\ outcome # "oversize" /\ Wrote("server", s, bytes)
     /\ UNCHANGED <<opened, outbound, rate, nonces, view, told, concluded, dropped>>

\* A second passes for RepairRateLimiter.
NextSecond ==
  /\ rate > 0 /\ rate' = 0
  /\ UNCHANGED <<streams, opened, outbound, inbound, ops, events, concluded, dropped,
                 nonces, view, told>>

-----------------------------------------------------------------------------
(* What arrives (deliver_stream_op, handle_stream_event).                  *)

Arrived(end) == Head(ops[end])
Rest(end) == [ops EXCEPT ![end] = Tail(@)]
Alive(end, s) == streams[end][s] # None

\* Opened: the server takes the stream unless it has too many.
ServerOpened(s) ==
  /\ IF ~linked["server"] THEN ops' = Rest("server") /\ UNCHANGED <<streams, inbound>>
     ELSE IF Cardinality({t \in Streams : inbound[t] # None}) >= MaxInbound
     THEN /\ streams' = streams
          /\ ops' = [Rest("server") EXCEPT !["requester"] =
                       Append(@, Op(s, "reset", None))]
          /\ UNCHANGED inbound
     ELSE /\ streams' = [streams EXCEPT !["server"][s] = Half]
          /\ inbound' = [inbound EXCEPT ![s] = [buf |-> <<>>, awaiting |-> FALSE]]
          /\ ops' = Rest("server")
  /\ Silent /\ UNCHANGED rate

\* Data: at the server a part of the request, at the requester of the answer.
ServerData(s, bytes) ==
  /\ IF ~Alive("server", s) \/ inbound[s] = None
     THEN ops' = Rest("server") /\ UNCHANGED <<streams, inbound>>
     ELSE IF bytes = Huge \/ Awaiting(s)
     THEN Reset("server", s, Rest("server")) /\ inbound' = [inbound EXCEPT ![s] = None]
     ELSE /\ ops' = Rest("server") /\ UNCHANGED streams
          /\ inbound' = [inbound EXCEPT ![s].buf = Append(@, bytes)]
  /\ Silent /\ UNCHANGED rate

RequesterData(s, bytes) ==
  /\ IF ~Alive("requester", s) \/ outbound[s] = None
     THEN ops' = Rest("requester") /\ Silent /\ UNCHANGED streams
     ELSE IF bytes = Huge
     THEN Reset("requester", s, Rest("requester")) /\ Conclude(s, None)
     ELSE /\ ops' = Rest("requester") /\ UNCHANGED <<streams, events, concluded, dropped>>
          /\ outbound' = [outbound EXCEPT ![s] = Append(@, bytes)]
  /\ UNCHANGED <<inbound, rate>>

Finished(end, s) ==
  [streams EXCEPT ![end][s] = IF @ = None THEN None ELSE Reaped([@ EXCEPT !.fin_recvd = TRUE])]

\* Finished: the request is whole.  If it decodes and the requester has not
\* asked too often, the driver is to look it up; otherwise the stream is reset.
ServerFinished(s) ==
  LET buf == inbound[s].buf
      decodes == Len(buf) = 1 /\ buf[1] # Garbage
  IN IF ~Alive("server", s) \/ inbound[s] = None \/ Awaiting(s)
     THEN /\ ops' = Rest("server") /\ streams' = Finished("server", s)
          /\ Silent /\ UNCHANGED <<inbound, rate>>
     ELSE IF decodes /\ rate < MaxRate
     THEN /\ ops' = Rest("server") /\ streams' = Finished("server", s)
          /\ rate' = rate + 1
          /\ inbound' = [inbound EXCEPT ![s] = [buf |-> <<>>, awaiting |-> TRUE]]
          /\ events' = Pushed("server", [kind |-> "request", stream |-> s,
                                         request |-> buf[1][2]])
          /\ UNCHANGED <<outbound, concluded, dropped>>
     ELSE /\ Reset("server", s, Rest("server"))
          /\ inbound' = [inbound EXCEPT ![s] = None]
          /\ Silent /\ UNCHANGED rate

\* Finished: the answer is whole, or ends before it is.
RequesterFinished(s) ==
  /\ ops' = Rest("requester") /\ streams' = Finished("requester", s)
  /\ IF ~Alive("requester", s) \/ outbound[s] = None THEN Silent
     ELSE Conclude(s, IF Len(outbound[s]) = 1 /\ outbound[s][1] # Garbage
                      THEN outbound[s][1] ELSE None)
  /\ UNCHANGED <<inbound, rate>>

\* Failed: the other end has reset the stream.
Failed(end, s) ==
  /\ ops' = Rest(end) /\ streams' = [streams EXCEPT ![end][s] = None]
  /\ inbound' = IF end = "server" THEN [inbound EXCEPT ![s] = None] ELSE inbound
  /\ IF end = "requester" /\ Alive(end, s) /\ outbound[s] # None
     THEN Conclude(s, None) ELSE Silent
  /\ UNCHANGED rate

Receive(end) ==
  /\ ops[end] # <<>>
  /\ LET s == Arrived(end).stream
         kind == Arrived(end).kind
         bytes == Arrived(end).bytes
     IN \/ kind = "open" /\ ServerOpened(s)
        \/ kind = "data" /\ end = "server" /\ ServerData(s, bytes)
        \/ kind = "data" /\ end = "requester" /\ RequesterData(s, bytes)
        \/ kind = "fin" /\ end = "server" /\ ServerFinished(s)
        \/ kind = "fin" /\ end = "requester" /\ RequesterFinished(s)
        \/ kind = "reset" /\ Failed(end, s)
  /\ UNCHANGED <<opened, nonces, view, told>>

-----------------------------------------------------------------------------
(* Deadlines and lost connections.                                         *)

\* expire_repairs: streams that did not conclude in time are reset.
ExpireOutbound(s) ==
  /\ outbound[s] # None
  /\ Reset("requester", s, ops) /\ Conclude(s, None)
  /\ UNCHANGED <<opened, inbound, rate, nonces, view, told>>

ExpireInbound(s) ==
  /\ inbound[s] # None
  /\ Reset("server", s, ops) /\ inbound' = [inbound EXCEPT ![s] = None]
  /\ UNCHANGED <<opened, outbound, events, rate, nonces, view, told, concluded, dropped>>

\* MemTransport::disconnect and drop_connection: an end that has lost the
\* connection fails all its streams, in their order.
Unlinked(end) == linked[end] /\ ~linked'[end]

\* The streams of a set, the lowest first.
Rank(S, s) == Cardinality({t \in S : t <= s})
InOrder(S) == [i \in 1 .. Cardinality(S) |-> CHOOSE s \in S : Rank(S, s) = i]

FailAll ==
  LET failed == InOrder({s \in Streams : outbound[s] # None})
      all == events["requester"] \o
             [i \in DOMAIN failed |->
                [kind |-> "concluded", stream |-> failed[i], answer |-> None]]
      excess == IF Len(all) > MaxEvents THEN Len(all) - MaxEvents ELSE 0
  IN /\ outbound' = [s \in Streams |-> None]
     /\ events' = [events EXCEPT !["requester"] = SubSeq(all, excess + 1, Len(all))]
     /\ concluded' = [s \in Streams |->
                        concluded[s] + (IF outbound[s] # None THEN 1 ELSE 0)]
     /\ dropped' = dropped \cup {all[i].stream : i \in {j \in 1 .. excess : all[j].kind # "shred"}}

\* What becomes of the streams when connections change, or the server crashes.
Follow(crashed) ==
  /\ streams' = [end \in Ends |-> IF Unlinked(end) THEN [s \in Streams |-> None]
                                  ELSE streams[end]]
  /\ inbound' = IF Unlinked("server") THEN [s \in Streams |-> None] ELSE inbound
  /\ rate' = IF crashed THEN 0 ELSE rate
  /\ ops' = IF crashed THEN [ops EXCEPT !["server"] = <<>>] ELSE ops
  /\ \/ Unlinked("requester") /\ FailAll
     \/ /\ ~Unlinked("requester")
        /\ events' = IF crashed THEN [events EXCEPT !["server"] = <<>>] ELSE events
        /\ UNCHANGED <<outbound, concluded, dropped>>
  /\ UNCHANGED <<opened, nonces, view, told>>

-----------------------------------------------------------------------------
Outcomes == {"shred", "notfound", "oversize", "garbage", "huge"}

InitRepair ==
  /\ streams = [end \in Ends |-> [s \in Streams |-> None]]
  /\ opened = 0 /\ rate = 0 /\ view = FALSE
  /\ outbound = [s \in Streams |-> None]
  /\ inbound = [s \in Streams |-> None]
  /\ nonces = [s \in Streams |-> None]
  /\ concluded = [s \in Streams |-> 0]
  /\ ops = [end \in Ends |-> <<>>]
  /\ events = [end \in Ends |-> <<>>]
  /\ told = {} /\ dropped = {}

Ask ==
  \/ PublishView
  \/ \E q \in Nonces : RequestRepair(q)
  \/ \E bytes \in {Garbage, Huge} : RequestGarbage(bytes)

Progress ==
  \/ OtherEvent
  \/ DriveRequester
  \/ \E outcome \in Outcomes : DriveServer(outcome)
  \/ NextSecond
  \/ \E end \in Ends : Receive(end)
  \/ \E s \in Streams : ExpireOutbound(s) \/ ExpireInbound(s)

-----------------------------------------------------------------------------
\* The core reports the end of a stream it opened exactly once, whatever
\* crosses: an answer and the deadline, a reset and a lost connection.  A
\* nonce is kept just as long as the end of its stream is to be reported
\* (unless the report was lost from a full queue, which nothing repairs), and
\* what is handed on under a nonce answers the request that had it.  The
\* server holds no request of a stream that is dead (outbound_repairs,
\* inbound_repairs, outstanding_nonces).
RepairConcludes ==
  LET reported == {e \in {events["requester"][i] : i \in DOMAIN events["requester"]} :
                     e.kind = "concluded"}
  IN /\ \A s \in Streams :
          /\ concluded[s] <= 1
          /\ outbound[s] # None => nonces[s] # None /\ Alive("requester", s)
          /\ nonces[s] # None =>
               outbound[s] # None \/ s \in dropped \/ \E e \in reported : e.stream = s
          /\ inbound[s] # None => Alive("server", s)
     /\ \A t \in told : t[2] = Shred(t[1])

=============================================================================
