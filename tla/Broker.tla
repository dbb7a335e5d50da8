-------------------------------- MODULE Broker --------------------------------
(***************************************************************************)
(* The event publisher of the capture-daemon (broker/broker.go).  Publish   *)
(* puts a message into a bounded Go channel and never waits; one goroutine  *)
(* (run, connectAndPump) dials RabbitMQ, takes messages out of the channel  *)
(* and publishes them with publisher confirms, and dials again when the     *)
(* connection fails.  AMQP_URL is set: without it Publish does nothing.     *)
(*                                                                         *)
(* Messages are numbered by the order of the Publish calls; 0 stands for    *)
(* the service_up message connectAndPump itself sends on each connection.   *)
(***************************************************************************)
EXTENDS Naturals, Sequences, SequencesExt

CONSTANTS
  BufSize,   \* capacity of the buf channel
  MaxMsgs    \* bound: number of Publish calls

ASSUME BufSizeAssumption == BufSize \in Nat \ {0}
ASSUME MaxMsgsAssumption == MaxMsgs \in Nat

VARIABLES
  nextMsg,    \* number of the next Publish call
  buf,        \* contents of the buf channel
  closed,     \* buf has been closed
  panicked,   \* a Publish call found buf closed
  cancelled,  \* Close was called: the context of run is cancelled
  pc,         \* where the run goroutine is
  hand,       \* message taken from buf and not yet published; 0 for none
  link,       \* the current connection
  wire,       \* published on the connection, not yet received by the exchange
  acks,       \* confirmations on their way to, or in, the acks channel
  delivered,  \* what the exchange received, in order
  believed    \* messages after whose publication the goroutine read an ack

callerVars == <<nextMsg, closed, panicked, cancelled>>
connVars == <<link, wire, acks, delivered>>
vars == <<callerVars, buf, pc, hand, connVars, believed>>

Pcs == {"dial", "hello", "select", "publish", "await", "backoff", "drain",
        "close", "exited"}

Up == 0
None == 0

Init ==
  /\ nextMsg = 1 /\ buf = <<>> /\ closed = FALSE /\ panicked = FALSE
  /\ cancelled = FALSE
  /\ pc = "dial" /\ hand = None
  /\ link = "down" /\ wire = <<>> /\ acks = <<>>
  /\ delivered = <<>> /\ believed = {}

-----------------------------------------------------------------------------
(* The callers. *)

\* A non-blocking send: the newest message is dropped when buf is full, and
\* a send on a closed channel panics, which ends the process.
Publish ==
  /\ nextMsg <= MaxMsgs /\ ~panicked
  /\ nextMsg' = nextMsg + 1
  /\ IF closed
     THEN panicked' = TRUE /\ UNCHANGED buf
     ELSE /\ buf' = IF Len(buf) < BufSize THEN Append(buf, nextMsg) ELSE buf
          /\ UNCHANGED panicked
  /\ UNCHANGED <<closed, cancelled, pc, hand, connVars, believed>>

Close ==
  /\ ~cancelled
  /\ cancelled' = TRUE
  /\ UNCHANGED <<nextMsg, closed, panicked, buf, pc, hand, connVars, believed>>

-----------------------------------------------------------------------------
(* The run goroutine. *)

Alive == ~panicked

\* Fault: a new connection starts with an empty buffer.
DialFresh ==
  /\ pc = "dial" /\ Alive
  /\ link' = "open" /\ pc' = "hello"
  /\ wire' = <<>> /\ acks' = <<>> /\ buf' = <<>>
  /\ UNCHANGED <<callerVars, hand, delivered, believed>>

\* amqp.Dial, the channel, the exchange and confirm mode: all of it or an error.
Dial ==
  /\ pc = "dial" /\ Alive
  /\ \/ link' = "open" /\ pc' = "hello"
     \/ link' = "down" /\ pc' = "backoff"
  /\ wire' = <<>> /\ acks' = <<>>
  /\ UNCHANGED <<callerVars, buf, hand, delivered, believed>>

\* service_up; an error is only logged.
Hello ==
  /\ pc = "hello" /\ Alive
  /\ pc' = "select"
  /\ wire' = IF link = "open" THEN <<Up>> ELSE <<>>
  /\ UNCHANGED <<callerVars, buf, hand, link, acks, delivered, believed>>

Take ==
  /\ pc = "select" /\ Alive
  /\ buf # <<>>
  /\ hand' = Head(buf)
  /\ buf' = Tail(buf)
  /\ pc' = "publish"
  /\ UNCHANGED <<callerVars, connVars, believed>>

\* Fault: a message that could not be published is queued again.
PublishHandRequeues ==
  /\ pc = "publish" /\ Alive
  /\ IF link = "open"
     THEN /\ pc' = "await" /\ wire' = Append(wire, hand)
          /\ UNCHANGED <<hand, buf, link>>
     ELSE /\ pc' = "backoff" /\ link' = "down" /\ hand' = None
          /\ buf' = IF Len(buf) < BufSize THEN Append(buf, hand) ELSE buf
          /\ UNCHANGED wire
  /\ UNCHANGED <<callerVars, acks, delivered, believed>>

\* An error returns from connectAndPump: the message in hand is gone.
PublishHand ==
  /\ pc = "publish" /\ Alive
  /\ hand' = IF link = "open" THEN hand ELSE None
  /\ IF link = "open"
     THEN pc' = "await" /\ wire' = Append(wire, hand) /\ UNCHANGED link
     ELSE pc' = "backoff" /\ link' = "down" /\ UNCHANGED wire
  /\ UNCHANGED <<callerVars, buf, acks, delivered, believed>>

\* Fault: only the confirmation for the message in hand is accepted.
AwaitOwn ==
  /\ pc = "await" /\ Alive
  /\ acks # <<>> => Head(acks) = hand
  /\ acks = <<>> => link # "open"
  /\ acks' = IF acks = <<>> THEN acks ELSE Tail(acks)
  /\ hand' = None /\ pc' = "select"
  /\ UNCHANGED <<callerVars, buf, link, wire, delivered, believed>>

\* One confirmation is read, whichever message it is for; a closed channel
\* yields the zero Confirmation, which counts as a NACK and is logged.
Await ==
  /\ pc = "await" /\ Alive
  /\ \/ /\ acks # <<>>
        /\ acks' = Tail(acks)
        /\ believed' = believed \cup {hand}
     \/ /\ acks = <<>> /\ link # "open"
        /\ UNCHANGED <<acks, believed>>
  /\ hand' = None
  /\ pc' = "select"
  /\ UNCHANGED <<callerVars, buf, link, wire, delivered>>

Backoff ==
  /\ pc = "backoff" /\ Alive
  /\ \/ pc' = "dial"
     \/ cancelled /\ pc' = "exited"
  /\ UNCHANGED <<callerVars, buf, hand, connVars, believed>>

\* ctx.Done: close the channel, then publish what is left without waiting.
StartDrain ==
  /\ pc = "select" /\ cancelled /\ Alive
  /\ closed' = TRUE
  /\ pc' = "drain"
  /\ UNCHANGED <<nextMsg, panicked, cancelled, buf, hand, connVars, believed>>

DrainOne ==
  /\ pc = "drain" /\ buf # <<>> /\ Alive
  /\ buf' = Tail(buf)
  /\ wire' = IF link = "open" THEN Append(wire, Head(buf)) ELSE wire
  /\ UNCHANGED <<callerVars, pc, hand, link, acks, delivered, believed>>

DrainDone ==
  /\ pc = "drain" /\ buf = <<>> /\ Alive
  /\ pc' = "close"
  /\ UNCHANGED <<callerVars, buf, hand, connVars, believed>>

\* The deferred ch.Close and conn.Close shake hands with the server, which
\* has by then received everything published before. The answer comes after
\* the confirmations: the client reads no further once a second one waits for
\* the acks channel, which has room for one and is not read any more.
CloseConn ==
  /\ pc = "close" /\ wire = <<>> /\ Alive
  /\ link = "open" => Len(acks) <= 1
  /\ pc' = "exited"
  /\ link' = "down"
  /\ acks' = <<>>
  /\ UNCHANGED <<callerVars, buf, hand, wire, delivered, believed>>

RunStep ==
  \/ Dial \/ Hello \/ Take \/ PublishHand \/ Await \/ Backoff
  \/ StartDrain \/ DrainOne \/ DrainDone \/ CloseConn

-----------------------------------------------------------------------------
(* RabbitMQ and the network. *)

\* The exchange receives the next message and confirms it.
Receive ==
  /\ link = "open" /\ wire # <<>>
  /\ delivered' = IF Head(wire) = Up THEN delivered ELSE Append(delivered, Head(wire))
  /\ acks' = Append(acks, Head(wire))
  /\ wire' = Tail(wire)
  /\ UNCHANGED <<callerVars, buf, pc, hand, link, believed>>

\* The connection fails: what is on it is lost, and so are the confirmations
\* that have not reached the acks channel yet.
Break ==
  /\ link = "open"
  /\ link' = "broken"
  /\ wire' = <<>>
  /\ \E n \in 0 .. Len(acks) : acks' = SubSeq(acks, 1, n)
  /\ UNCHANGED <<callerVars, buf, pc, hand, delivered, believed>>

-----------------------------------------------------------------------------
Next == Publish \/ Close \/ RunStep \/ Receive \/ Break

Spec == Init /\ [][Next]_vars

\* The goroutine is scheduled and its timer fires; RabbitMQ handles what it
\* receives. That a dial succeeds, and that a connection lasts, is not assumed.
FairSpec == Spec /\ WF_vars(RunStep) /\ WF_vars(Receive)

-----------------------------------------------------------------------------
(* Properties. *)

TypeOK ==
  /\ nextMsg \in 1 .. MaxMsgs + 1
  /\ buf \in Seq(1 .. MaxMsgs) /\ Len(buf) <= BufSize
  /\ closed \in BOOLEAN /\ panicked \in BOOLEAN /\ cancelled \in BOOLEAN
  /\ pc \in Pcs
  /\ hand \in 0 .. MaxMsgs
  /\ link \in {"down", "open", "broken"}
  /\ wire \in Seq(0 .. MaxMsgs)
  /\ acks \in Seq(0 .. MaxMsgs)
  /\ delivered \in Seq(1 .. MaxMsgs)
  /\ believed \in SUBSET (1 .. MaxMsgs)

\* Messages that Publish accepted and that may still be delivered. A message
\* in hand that is already on the wire is counted there.
InHand == IF pc = "publish" THEN {hand} ELSE {}
Pending == (ToSet(wire) \ {Up}) \cup InHand \cup ToSet(buf)

\* The publisher implements a lossy queue: no message is delivered twice or
\* out of order, over any number of reconnections.
Fifo == INSTANCE LossyFifo
          WITH next <- nextMsg, pending <- Pending, out <- ToSet(delivered)
FifoSpec == Fifo!Spec

\* What was accepted is only lost with a connection: at most two messages when
\* it fails while pumping, one for each attempt to publish on it afterwards.
LossIsBounded ==
  [][LET gone == Pending \ (Pending' \cup ToSet(delivered'))
     IN  /\ link = "open" /\ link' = "open" => gone = {}
         /\ gone # {} => link # "down"
         /\ \A a, b, c \in gone : pc # "drain" /\ pc # "close" =>
              a = b \/ b = c \/ a = c]_vars

\* On a connection that lasts, everything accepted leaves the buffer and the
\* wire, and by LossIsBounded that means it is delivered.
StableLinkDelivers ==
  <>[](link = "open") => <>[](Pending = {} \/ panicked)

(* What the comments say and the code does not do. *)

\* "publisher confirms -> we know if a message made it": a message after whose
\* publication an ack was read is never lost.
AckMeansDelivered == believed \subseteq ToSet(delivered) \cup ToSet(wire)
=============================================================================
