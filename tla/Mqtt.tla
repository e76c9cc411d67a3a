--------------------------------- MODULE Mqtt ---------------------------------
(***************************************************************************)
(* The MQTT client of src/src/mqtt.rs, which main does not spawn for now:  *)
(* it connects to a broker, subscribes to two topics, and stores what they *)
(* publish as the waiting times of the beam.                               *)
(*                                                                         *)
(* External, as the code uses them: the network, the broker, which drops a *)
(* client that it has not heard for KEEP_ALIVE seconds, and rust-mqtt,     *)
(* whose calls keep what they have read to themselves.  A call that is     *)
(* dropped halfway leaves the rest of its packet in the socket, where the  *)
(* next one takes it for a header with a length ("data might get lost").   *)
(* What is misread is an error or has another topic: a topic comes behind  *)
(* its length, two bytes that no number or text contains.                  *)
(*                                                                         *)
(* A panic stops the whole firmware.                                       *)
(***************************************************************************)
EXTENDS Naturals, Sequences

CONSTANTS
  KEEP_ALIVE,  \* seconds after which the broker drops a silent client
  MaxSent,     \* bound: numbers published
  MaxWire      \* bound: packets under way while time passes

ASSUME MqttAssumption == KEEP_ALIVE \in Nat \ {0} /\ MaxSent \in Nat /\ MaxWire \in Nat

Topics == {"beam_off", "beam_on"}
Other == [payload |-> "other", topic |-> "", value |-> 0]    \* a message that is no number
Answer == [payload |-> "answer", topic |-> "", value |-> 0]  \* to a ping
Handshake == <<"dns", "connect", "broker", "subscribe beam_off", "subscribe beam_on", "receive">>
IDLE == 2  \* seconds without a message until a ping

VARIABLES
  task,     \* where mqtt_stuff is
  up,       \* whether network and broker can be reached
  open,     \* whether the socket is connected
  wire,     \* packets under way to the client, the first maybe in part
  frame,    \* "whole": the next byte is the first of a packet; "half": the
            \* call has read some of one; "torn": an earlier call did, its
            \* rest comes next; "astray": the call is reading what is no packet
  idle,     \* seconds since select began, 0 outside of it
  unheard,  \* seconds since the client last wrote to the broker
  excuse,   \* history: how many of them are due to messages that need no
            \* answer, errors, and a ping that waits for its answer
  sent,     \* the last number published for a topic since it is subscribed
  setting,  \* WAIT_BEFORE_BEAM_OFF and WAIT_AFTER_BEAM_ON
  lost      \* history: topics whose latest number got lost on its way

NumbersIn(packets) == { packets[i].topic : i \in {j \in DOMAIN packets : packets[j].payload = "number"} }
Capped(seconds) == IF seconds < KEEP_ALIVE THEN seconds ELSE KEEP_ALIVE

client == <<task, idle, setting>>
heard == <<unheard, excuse>>
stream == <<wire, frame, lost>>
vars == <<client, up, open, stream, heard, sent>>

Init ==
  /\ task = "sleep" /\ up \in BOOLEAN /\ open = FALSE
  /\ wire = <<>> /\ frame = "whole" /\ idle = 0 /\ unheard = 0 /\ excuse = 0
  /\ sent = [t \in Topics |-> 0] /\ setting = [t \in Topics |-> 0]
  /\ lost = {}

-----------------------------------------------------------------------------
(* External: the network, the broker, the time                             *)

NetworkChanges ==
  /\ up' = ~up
  /\ UNCHANGED <<client, open, stream, heard, sent>>

\* The connection breaks, or the broker drops a silent client: what was under
\* way is lost.
Break ==
  /\ open /\ (~up \/ unheard = KEEP_ALIVE)
  /\ open' = FALSE /\ frame' = "whole" /\ wire' = <<>>
  /\ lost' = lost \union NumbersIn(wire)
  /\ UNCHANGED <<client, up, heard, sent>>

Subscribed(t) ==
  \/ task \in {"receive", "ping", "pong", "pause"}
  \/ task = "subscribe beam_on" /\ t = "beam_off"

\* Somebody publishes a number.
PublishNumber(t) ==
  /\ open /\ Subscribed(t) /\ Len(wire) < MaxWire
  /\ sent["beam_off"] + sent["beam_on"] < MaxSent
  /\ wire' = Append(wire, [payload |-> "number", topic |-> t, value |-> sent[t] + 1])
  /\ sent' = [sent EXCEPT ![t] = sent[t] + 1]
  /\ UNCHANGED <<client, up, open, frame, lost, heard>>

\* Or what is none.
PublishOther ==
  /\ open /\ (\E t \in Topics : Subscribed(t)) /\ Len(wire) < MaxWire
  /\ wire' = Append(wire, Other)
  /\ UNCHANGED <<client, up, open, frame, lost, heard, sent>>

Publish == PublishOther \/ \E t \in Topics : PublishNumber(t)

\* The select has a deadline, the wait for the answer to a ping has none.
Tick ==
  /\ \/ /\ task = "receive" /\ idle < IDLE /\ Len(wire) <= MaxWire
        /\ idle' = idle + 1 /\ UNCHANGED excuse
     \/ /\ task = "pong" /\ unheard < KEEP_ALIVE
        /\ excuse' = Capped(excuse + 1) /\ UNCHANGED idle
  /\ unheard' = Capped(unheard + 1)
  /\ UNCHANGED <<task, setting, up, open, stream, sent>>

-----------------------------------------------------------------------------
(* mqtt_stuff: connecting                                                  *)

Sleep ==
  /\ task = "sleep" /\ task' = "dns"
  /\ UNCHANGED <<idle, setting, up, open, stream, heard, sent>>

\* The next step of the handshake is done; an answer is heard.
Succeed(i) ==
  /\ task = Handshake[i] /\ task' = Handshake[i + 1]
  /\ up /\ (i > 2 => open) /\ wire = <<>>
  /\ open' = (i >= 2) /\ unheard' = 0 /\ excuse' = 0
  /\ UNCHANGED <<idle, setting, up, stream, sent>>

\* An error before the subscriptions: the socket is dropped, try again.  The
\* mutant leaves the loop.
FailWith(next) ==
  /\ task \in {"dns", "connect", "broker"} /\ task' = next
  /\ open' = FALSE
  /\ UNCHANGED <<idle, setting, up, stream, heard, sent>>
FailForGood == FailWith("ended")
Fail == FailWith("sleep")

\* A subscription fails, is refused, or a message comes instead of its answer.
SubscribePanics ==
  /\ task \in {"subscribe beam_off", "subscribe beam_on"} /\ task' = "panicked"
  /\ UNCHANGED <<idle, setting, up, open, stream, heard, sent>>

-----------------------------------------------------------------------------
(* mqtt_stuff: what a call of the client reads                             *)

Reading == task \in {"receive", "pong"}
InFrame == frame \in {"whole", "half"}

\* The first packet is read without being handled.
DropFirst ==
  /\ wire # <<>> /\ wire' = Tail(wire)
  /\ lost' = lost \union NumbersIn(<<Head(wire)>>)

\* An error: the loop goes on, select with a new deadline.
GoOn ==
  /\ task' = "pause"
  /\ excuse' = IF task = "receive" THEN Capped(excuse + IDLE) ELSE excuse
  /\ idle' = 0 /\ UNCHANGED <<setting, up, open, unheard, sent>>

ReadHalf ==
  /\ task = "receive" /\ wire # <<>> /\ frame = "whole"
  /\ frame' = "half"
  /\ UNCHANGED <<client, up, open, wire, lost, heard, sent>>

\* Out of frame, the call takes the rest of the first packet; it ends there,
\* or, by the length that it has read, more is to come.
ReadRest ==
  /\ Reading /\ ~InFrame /\ DropFirst
  /\ \/ frame' = "astray" /\ UNCHANGED <<client, up, open, heard, sent>>
     \/ frame' = "whole" /\ GoOn

\* Or it ends within the first packet.
Misread ==
  /\ Reading /\ ~InFrame /\ wire # <<>>
  /\ frame' = "torn" /\ UNCHANGED <<wire, lost>>
  /\ GoOn

\* A message longer than recv_buffer is an error, and its rest is left.
TooLong ==
  /\ InFrame /\ wire # <<>> /\ Head(wire) = Other
  /\ frame' = "torn" /\ UNCHANGED <<wire, lost>>

\* The connection is closed, or a packet cannot be decoded: one like this, or
\* an answer that comes late.
ReceiveFails ==
  /\ task = "receive" /\ GoOn
  /\ \/ ~open /\ UNCHANGED stream
     \/ InFrame /\ DropFirst /\ Head(wire) \in {Other, Answer} /\ frame' = "whole"
     \/ TooLong

-----------------------------------------------------------------------------
(* mqtt_stuff: the loop                                                    *)

\* receive_message returns a message.  What is not UTF-8 is ignored, and
\* parse panics if the text is no number.  A message of quality 1 is answered.
\* The mutant handles the newest of several first.
ReceiveFrom(message, rest) ==
  /\ task = "receive" /\ InFrame /\ message.payload # "answer"
  /\ task' \in IF message.payload = "number" THEN {"pause"} ELSE {"pause", "panicked"}
  /\ setting' = IF message.payload = "number"
                THEN [setting EXCEPT ![message.topic] = message.value]
                ELSE setting
  /\ lost' = IF message.payload = "number" THEN lost \ {message.topic} ELSE lost
  /\ \/ unheard' = 0 /\ excuse' = 0
     \/ unheard' = unheard /\ excuse' = Capped(excuse + IDLE)
  /\ wire' = rest /\ frame' = "whole"
  /\ idle' = 0 /\ UNCHANGED <<up, open, sent>>
ReceiveNewest == wire # <<>> /\ ReceiveFrom(wire[Len(wire)], SubSeq(wire, 1, Len(wire) - 1))
Receive == wire # <<>> /\ ReceiveFrom(Head(wire), Tail(wire))

\* The other side of select: receive_message is dropped where it stands.  What
\* it has read is gone, within a packet or, if it waited for more, at its end.
\* With the mutant the next call believes that it has read half a packet.
TimesOutHalfway ==
  /\ task = "receive" /\ idle = IDLE /\ task' = "ping"
  /\ idle' = 0 /\ UNCHANGED <<setting, up, open, stream, heard, sent>>
TimesOut ==
  /\ task = "receive" /\ idle = IDLE /\ task' = "ping"
  /\ frame' \in CASE frame = "half" -> {"torn"}
                  [] frame = "astray" -> IF wire # <<>> THEN {"whole", "torn"} ELSE {"whole"}
                  [] OTHER -> {frame}
  /\ idle' = 0 /\ UNCHANGED <<setting, up, open, wire, lost, heard, sent>>

\* send_ping writes, and waits for the answer, which comes behind what is
\* under way; the mutant forgets it.
NoPing ==
  /\ task = "ping" /\ task' = "pause"
  /\ UNCHANGED <<idle, setting, up, open, stream, heard, sent>>
Ping ==
  /\ task = "ping"
  /\ IF open
     THEN /\ task' = "pong" /\ wire' = Append(wire, Answer)
          /\ unheard' = 0 /\ excuse' = 0
     ELSE task' = "pause" /\ UNCHANGED <<wire, heard>>
  /\ UNCHANGED <<idle, setting, up, open, frame, lost, sent>>

\* It takes the first packet for the answer; if it is none, or the connection
\* is closed, that is an error, which nobody looks at.
Pong ==
  /\ task = "pong" /\ GoOn
  /\ \/ ~open /\ UNCHANGED stream
     \/ InFrame /\ DropFirst /\ frame' = "whole"
     \/ TooLong

\* The pause of 100 ms; after it, the mutant leaves the loop.
ServeOnce ==
  /\ task = "pause" /\ task' = "ended"
  /\ UNCHANGED <<idle, setting, up, open, stream, heard, sent>>
PauseEnds ==
  /\ task = "pause" /\ task' = "receive"
  /\ UNCHANGED <<idle, setting, up, open, stream, heard, sent>>

Mqtt ==
  \/ Sleep \/ (\E i \in 1..5 : Succeed(i)) \/ Fail \/ SubscribePanics
  \/ ReadHalf \/ ReadRest \/ Misread
  \/ Receive \/ ReceiveFails \/ TimesOut \/ Ping \/ Pong \/ PauseEnds

Next == Mqtt \/ Tick \/ NetworkChanges \/ Break \/ Publish

\* The task is polled, time passes, the network does what it can reach, and a
\* packet under way, or its rest, arrives some time.
Fairness ==
  /\ WF_vars(Mqtt) /\ WF_vars(Tick) /\ WF_vars(Break)
  /\ \A i \in 1..5 : SF_vars(Succeed(i))
  /\ SF_vars(Receive) /\ SF_vars(ReceiveFails) /\ SF_vars(ReadRest)

Spec == Init /\ [][Next]_vars
FairSpec == Spec /\ Fairness

-----------------------------------------------------------------------------
(* Properties                                                              *)

Serving == task \in {"receive", "ping", "pong", "pause"}

Number == [payload : {"number"}, topic : Topics, value : 1..MaxSent]
Packet == Number \union {Other, Answer}
TypeOK ==
  /\ task \in {"sleep", "dns", "connect", "broker", "subscribe beam_off", "subscribe beam_on",
               "receive", "ping", "pong", "pause", "panicked"}
  /\ up \in BOOLEAN /\ open \in BOOLEAN /\ lost \subseteq Topics
  /\ wire \in Seq(Packet) /\ Len(wire) <= MaxWire + 1
  /\ task = "ping" \/ idle > 0 => Len(wire) <= MaxWire
  /\ frame \in {"whole", "half", "torn", "astray"}
  /\ frame = "half" => wire # <<>> /\ task = "receive"
  /\ frame = "torn" => wire # <<>>
  /\ frame = "astray" => open /\ Reading
  /\ wire # <<>> => open /\ task \notin {"sleep", "dns", "connect", "broker"}
  /\ idle \in 0..IDLE /\ (idle > 0 => task = "receive") /\ unheard \in 0..KEEP_ALIVE /\ excuse \in 0..KEEP_ALIVE
  /\ sent \in [Topics -> 0..MaxSent] /\ setting \in [Topics -> 0..MaxSent]

\* A setting is a number of its own topic, and what is still under way for it
\* is newer: no setting goes back, whatever gets lost or misread.
Newer(packet) == packet.payload = "number" => packet.value > setting[packet.topic]
SettingsFollow ==
  /\ \A t \in Topics : setting[t] <= sent[t]
  /\ \A i \in DOMAIN wire : Newer(wire[i])

\* The broker hears the client every two seconds, but for messages that need
\* no answer and errors, each of which puts the ping off by two seconds, and
\* the time that a ping waits for its answer.
PingsWhenIdle == Serving /\ open => unheard <= IDLE + excuse

\* If the network stays up, the client gets to the end of its handshake, or
\* panics there.
GetsServed == <>[]up => <>(task \in {"receive", "panicked"})

\* Once nobody publishes any more, the latest number of each topic is in its
\* atomic or was lost, and is not left unread, even if the client is out of
\* frame; unless it is deaf (the loop does not reconnect) or panicked.
Deaf == Serving /\ ~open
SettingsArrive ==
  <>[][~Publish]_vars =>
    <>[](Deaf \/ task = "panicked" \/ \A t \in Topics : setting[t] = sent[t] \/ t \in lost)
================================================================================
