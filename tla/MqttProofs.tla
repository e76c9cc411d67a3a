------------------------------ MODULE MqttProofs ------------------------------
(***************************************************************************)
(* Proofs about Mqtt, for every keep alive and any number of messages.     *)
(***************************************************************************)
EXTENDS Mqtt, TLAPS

(***************************************************************************)
(* The inductive invariant.                                                *)
(***************************************************************************)
IsNumber(i, t) == i \in DOMAIN wire /\ wire[i].payload = "number" /\ wire[i].topic = t

\* The numbers under way for a topic come in the order in which they were
\* published, all newer than the setting.
WireInv ==
  /\ \A t \in Topics : setting[t] <= sent[t]
  /\ \A t \in Topics, i \in DOMAIN wire :
       IsNumber(i, t) => setting[t] < wire[i].value /\ wire[i].value <= sent[t]
  /\ \A t \in Topics, i, j \in DOMAIN wire :
       IsNumber(i, t) /\ IsNumber(j, t) /\ i < j => wire[i].value < wire[j].value

\* Losses take the oldest message: as long as a topic has a number under way,
\* its latest one is.
LossInv ==
  \A t \in Topics :
    \/ \E i \in DOMAIN wire : IsNumber(i, t) /\ wire[i].value = sent[t]
    \/ /\ \A i \in DOMAIN wire : ~IsNumber(i, t)
       /\ setting[t] = sent[t] \/ t \in lost

\* How long the broker has not heard the client, by where the loop is.
PingInv ==
  open =>
    /\ task = "receive"         => unheard <= excuse + idle
    /\ task = "ping"            => unheard <= excuse + IDLE
    /\ task \in {"pong", "pause"} => unheard <= excuse

IInv == TypeOK /\ WireInv /\ LossInv /\ PingInv

(***************************************************************************)
(* What the steps do to the messages under way.                            *)
(***************************************************************************)
wired == <<wire, sent, setting, lost>>

\* A packet that is no number is on its way.
SendOther ==
  /\ \E m \in {Other, Answer} : wire' = Append(wire, m)
  /\ UNCHANGED <<sent, setting, lost>>

\* Every step leaves the packets alone, or is one of five.
LEMMA WireSteps ==
  [Next]_vars =>
    \/ UNCHANGED wired
    \/ DropFirst /\ UNCHANGED <<sent, setting>>
    \/ SendOther
    \/ Break
    \/ Receive
    \/ \E t \in Topics : PublishNumber(t)
  <1> SUFFICES ASSUME [Next]_vars, ~Break, ~Receive, ~ \E t \in Topics : PublishNumber(t)
               PROVE  UNCHANGED wired \/ (DropFirst /\ UNCHANGED <<sent, setting>>) \/ SendOther
    OBVIOUS
  <1> USE DEF wired, client, stream
  <1>1. CASE Sleep \/ (\E i \in 1..5 : Succeed(i)) \/ Fail \/ SubscribePanics
    BY <1>1 DEF Sleep, Succeed, Fail, FailWith, SubscribePanics
  <1>2. CASE ReadHalf \/ TimesOut \/ PauseEnds \/ Tick \/ NetworkChanges
    BY <1>2 DEF ReadHalf, TimesOut, PauseEnds, Tick, NetworkChanges
  <1>3. CASE ReadRest \/ Misread
    BY <1>3 DEF ReadRest, Misread, GoOn
  <1>4. CASE ReceiveFails \/ Pong
    BY <1>4 DEF ReceiveFails, Pong, GoOn, TooLong
  <1>5. CASE Ping
    BY <1>5 DEF Ping, SendOther
  <1>6. CASE PublishOther
    BY <1>6 DEF PublishOther, SendOther
  <1>7. CASE UNCHANGED vars
    BY <1>7 DEF vars
  <1> QED
    BY <1>1, <1>2, <1>3, <1>4, <1>5, <1>6, <1>7 DEF Next, Mqtt, Publish

\* What a packet is.
LEMMA PacketFacts ==
  ASSUME NEW m \in Packet
  PROVE  /\ m.value \in 0..MaxSent /\ m.value \in Nat
         /\ m.payload = "number" => m.topic \in Topics
  <1>0. MaxSent \in Nat
    BY MqttAssumption
  <1>1. CASE m \in Number
    <2>1. m.value \in 1..MaxSent /\ m.topic \in Topics
      BY <1>1 DEF Number
    <2> QED
      BY <1>0, <2>1
  <1>2. CASE m \in {Other, Answer}
    <2>1. m.value = 0 /\ m.payload # "number"
      <3>1. CASE m = Other
        BY <3>1 DEF Other
      <3>2. CASE m = Answer
        BY <3>2 DEF Answer
      <3> QED
        BY <1>2, <3>1, <3>2
    <2> QED
      BY <1>0, <2>1
  <1> QED
    BY <1>1, <1>2 DEF Packet

\* What is left of the messages when the first is gone, or one more is sent.
LEMMA TailOfPackets ==
  ASSUME NEW s \in Seq(Packet), s # <<>>
  PROVE  /\ Head(s) \in Packet /\ Head(s) = s[1] /\ 1 \in DOMAIN s
         /\ Tail(s) \in Seq(Packet) /\ Len(Tail(s)) = Len(s) - 1
         /\ \A i \in DOMAIN Tail(s) : i + 1 \in DOMAIN s /\ Tail(s)[i] = s[i + 1]
         /\ \A i \in DOMAIN s : i = 1 \/ (i - 1 \in DOMAIN Tail(s) /\ Tail(s)[i - 1] = s[i])
  OBVIOUS

LEMMA AppendOfPackets ==
  ASSUME NEW s \in Seq(Packet), NEW m \in Packet
  PROVE  /\ Append(s, m) \in Seq(Packet) /\ Len(Append(s, m)) = Len(s) + 1
         /\ Append(s, m)[Len(s) + 1] = m
         /\ \A i \in DOMAIN Append(s, m) :
              i = Len(s) + 1 \/ (i \in DOMAIN s /\ Append(s, m)[i] = s[i])
         /\ \A i \in DOMAIN s : i \in DOMAIN Append(s, m) /\ Append(s, m)[i] = s[i]
  OBVIOUS

\* The steps of the handshake lead from one place to the next.
LEMMA Places ==
  \A i \in 1..5 :
    /\ Handshake[i] \in {"dns", "connect", "broker", "subscribe beam_off", "subscribe beam_on"}
    /\ Handshake[i + 1] \in {"connect", "broker", "subscribe beam_off", "subscribe beam_on", "receive"}
    /\ Handshake[i + 1] = "receive" <=> i = 5
  <1> SUFFICES ASSUME NEW i \in 1..5
               PROVE /\ Handshake[i] \in {"dns", "connect", "broker", "subscribe beam_off", "subscribe beam_on"}
                     /\ Handshake[i + 1] \in {"connect", "broker", "subscribe beam_off", "subscribe beam_on", "receive"}
                     /\ Handshake[i + 1] = "receive" <=> i = 5
    OBVIOUS
  <1>1. \/ i = 1 /\ i + 1 = 2
        \/ i = 2 /\ i + 1 = 3
        \/ i = 3 /\ i + 1 = 4
        \/ i = 4 /\ i + 1 = 5
        \/ i = 5 /\ i + 1 = 6
    OBVIOUS
  <1>2. /\ Handshake[1] = "dns" /\ Handshake[2] = "connect" /\ Handshake[3] = "broker"
        /\ Handshake[4] = "subscribe beam_off" /\ Handshake[5] = "subscribe beam_on"
        /\ Handshake[6] = "receive"
    BY DEF Handshake
  <1> QED
    BY <1>1, <1>2

\* What receive_message does when it is done.
LEMMA ReceiveStep ==
  ASSUME Receive
  PROVE  /\ task = "receive" /\ wire # <<>> /\ task' \in {"pause", "panicked"}
         /\ setting' = IF Head(wire).payload = "number"
                       THEN [setting EXCEPT ![Head(wire).topic] = Head(wire).value]
                       ELSE setting
         /\ lost' = IF Head(wire).payload = "number" THEN lost \ {Head(wire).topic} ELSE lost
         /\ \/ unheard' = 0 /\ excuse' = 0
            \/ unheard' = unheard /\ excuse' = Capped(excuse + IDLE)
         /\ wire' = Tail(wire) /\ frame' = "whole" /\ idle' = 0
         /\ UNCHANGED <<up, open, sent>>
  BY DEF Receive, ReceiveFrom

\* What a publication adds.
LEMMA PublishStep ==
  ASSUME TypeOK, NEW t \in Topics, PublishNumber(t)
  PROVE  /\ sent[t] + 1 \in 1..MaxSent
         /\ \E m \in Number :
              wire' = Append(wire, m) /\ m.topic = t /\ m.payload = "number" /\ m.value = sent[t] + 1
  <1> DEFINE m == [payload |-> "number", topic |-> t, value |-> sent[t] + 1]
  <1>1. sent["beam_off"] + sent["beam_on"] < MaxSent /\ wire' = Append(wire, m)
    BY DEF PublishNumber
  <1>2. sent[t] + 1 \in 1..MaxSent
    <2>1. sent \in [Topics -> 0..MaxSent] /\ MaxSent \in Nat
      BY MqttAssumption DEF TypeOK
    <2>2. t \in {"beam_off", "beam_on"} /\ "beam_off" \in Topics /\ "beam_on" \in Topics
      BY DEF Topics
    <2>3. sent["beam_off"] \in Nat /\ sent["beam_on"] \in Nat
      BY <2>1, <2>2
    <2> QED
      BY <1>1, <2>1, <2>2, <2>3
  <1>3. m \in Number
    BY <1>2 DEF Number
  <1>4. m.topic = t /\ m.payload = "number" /\ m.value = sent[t] + 1
    OBVIOUS
  <1> HIDE DEF m
  <1> QED
    BY <1>1, <1>2, <1>3, <1>4

(***************************************************************************)
(* The invariant is inductive.                                             *)
(***************************************************************************)
\* Nothing is published, heard or lost at the start.
LEMMA InitIInv == Init => IInv
  <1> SUFFICES ASSUME Init PROVE IInv
    OBVIOUS
  <1> USE MqttAssumption DEF Init
  <1>1. TypeOK
    <2>1. wire \in Seq(Packet) /\ Len(wire) = 0 /\ lost \subseteq Topics
      OBVIOUS
    <2>2. sent \in [Topics -> 0..MaxSent] /\ setting \in [Topics -> 0..MaxSent]
      OBVIOUS
    <2>3. idle \in 0..IDLE /\ unheard \in 0..KEEP_ALIVE /\ excuse \in 0..KEEP_ALIVE
          /\ ~(idle > 0)
      BY DEF IDLE
    <2>4. Len(wire) <= MaxWire + 1
      BY <2>1
    <2>5. task = "sleep" /\ up \in BOOLEAN /\ open = FALSE /\ frame = "whole" /\ wire = <<>>
      OBVIOUS
    <2> QED
      BY <2>1, <2>2, <2>3, <2>4, <2>5 DEF TypeOK
  <1>2. WireInv /\ LossInv /\ PingInv
    BY DEF WireInv, LossInv, PingInv, IsNumber
  <1> QED
    BY <1>1, <1>2 DEF IInv

\* The topics that a packet read without being handled adds to the lost ones.
LEMMA LostTopics ==
  ASSUME NEW s \in Seq(Packet)
  PROVE  NumbersIn(s) \subseteq Topics
  <1>1. \A i \in DOMAIN s : s[i] \in Packet
    OBVIOUS
  <1>2. \A i \in DOMAIN s : s[i].payload = "number" => s[i].topic \in Topics
    BY <1>1, PacketFacts
  <1> QED
    BY <1>2, Zenon DEF NumbersIn

\* What dropping the first packet leaves.
LEMMA DropFirstTypes ==
  ASSUME TypeOK, DropFirst
  PROVE  /\ wire # <<>> /\ open /\ task \notin {"sleep", "dns", "connect", "broker"}
         /\ wire' \in Seq(Packet) /\ Len(wire') <= MaxWire /\ Len(wire') <= MaxWire + 1
         /\ lost' \subseteq Topics
  <1>1. wire # <<>> /\ wire' = Tail(wire) /\ lost' = lost \union NumbersIn(<<Head(wire)>>)
    BY DEF DropFirst
  <1>2. wire \in Seq(Packet) /\ Len(wire) <= MaxWire + 1 /\ lost \subseteq Topics /\ MaxWire \in Nat
    BY MqttAssumption DEF TypeOK
  <1>3. /\ Head(wire) \in Packet /\ Tail(wire) \in Seq(Packet) /\ Len(Tail(wire)) = Len(wire) - 1
        /\ Len(wire) \in Nat
    BY <1>1, <1>2, TailOfPackets
  <1>4. <<Head(wire)>> \in Seq(Packet)
    BY <1>3
  <1>5. NumbersIn(<<Head(wire)>>) \subseteq Topics
    BY <1>4, LostTopics
  <1>6. wire' \in Seq(Packet) /\ Len(wire') <= MaxWire /\ Len(wire') <= MaxWire + 1
    BY <1>1, <1>2, <1>3
  <1> QED
    BY <1>1, <1>2, <1>5, <1>6 DEF TypeOK

\* Every step keeps the types.
LEMMA StepTypeOK == TypeOK /\ [Next]_vars => TypeOK'
  <1> SUFFICES ASSUME TypeOK, [Next]_vars PROVE TypeOK'
    OBVIOUS
  <1>0. /\ wire \in Seq(Packet) /\ Len(wire) \in Nat /\ Len(wire) <= MaxWire + 1
        /\ sent \in [Topics -> 0..MaxSent] /\ setting \in [Topics -> 0..MaxSent]
        /\ KEEP_ALIVE \in Nat /\ MaxWire \in Nat
    <2>1. wire \in Seq(Packet) /\ Len(wire) <= MaxWire + 1
      BY DEF TypeOK
    <2>2. sent \in [Topics -> 0..MaxSent] /\ setting \in [Topics -> 0..MaxSent]
      BY DEF TypeOK
    <2>3. Len(wire) \in Nat
      BY <2>1
    <2> QED
      BY <2>1, <2>2, <2>3, MqttAssumption
  <1>c. \A n \in Nat : Capped(n) \in 0..KEEP_ALIVE
    BY <1>0 DEF Capped
  <1>e. excuse \in Nat /\ unheard \in Nat /\ Capped(excuse + IDLE) \in 0..KEEP_ALIVE
        /\ Capped(excuse + 1) \in 0..KEEP_ALIVE /\ Capped(unheard + 1) \in 0..KEEP_ALIVE
    <2>1. excuse \in 0..KEEP_ALIVE /\ unheard \in 0..KEEP_ALIVE
      BY DEF TypeOK
    <2>2. excuse \in Nat /\ unheard \in Nat /\ excuse + IDLE \in Nat /\ excuse + 1 \in Nat
          /\ unheard + 1 \in Nat
      BY <1>0, <2>1 DEF IDLE
    <2> QED
      BY <1>c, <2>2
  <1>g. ASSUME GoOn
        PROVE  /\ task' = "pause" /\ idle' = 0 /\ ~(idle' > 0) /\ idle' \in 0..IDLE
               /\ excuse' \in 0..KEEP_ALIVE /\ UNCHANGED <<setting, up, open, unheard, sent>>
    <2>1. excuse \in 0..KEEP_ALIVE
      BY DEF TypeOK
    <2>2. task' = "pause" /\ idle' = 0 /\ UNCHANGED <<setting, up, open, unheard, sent>>
          /\ excuse' \in {Capped(excuse + IDLE), excuse}
      BY <1>g DEF GoOn
    <2>3. excuse' \in 0..KEEP_ALIVE
      BY <1>e, <2>1, <2>2
    <2>4. ~(idle' > 0) /\ idle' \in 0..IDLE
      BY <2>2 DEF IDLE
    <2> QED
      BY <2>2, <2>3, <2>4
  <1> USE DEF client, stream, heard
  <1>1. CASE \E i \in 1..5 : Succeed(i)
    <2>1. PICK i \in 1..5 : Succeed(i)
      BY <1>1
    <2>2. /\ task = Handshake[i] /\ task' = Handshake[i + 1] /\ wire = <<>> /\ open' \in BOOLEAN
          /\ unheard' = 0 /\ excuse' = 0
          /\ UNCHANGED <<idle, setting, up, wire, frame, lost, sent>>
      BY <2>1 DEF Succeed
    <2>3. task \in {"dns", "connect", "broker", "subscribe beam_off", "subscribe beam_on"}
          /\ task' \in {"connect", "broker", "subscribe beam_off", "subscribe beam_on", "receive"}
      BY <2>2, Places
    <2>4. frame = "whole" /\ ~(idle > 0)
      BY <2>2, <2>3 DEF TypeOK, Reading
    <2>5. unheard' \in 0..KEEP_ALIVE /\ excuse' \in 0..KEEP_ALIVE
      BY <1>0, <2>2
    <2> QED
      BY <2>2, <2>3, <2>4, <2>5 DEF TypeOK
  <1>2. CASE Sleep
    BY <1>2 DEF Sleep, TypeOK, Reading
  <1>3. CASE Fail
    BY <1>3 DEF Fail, FailWith, TypeOK, Reading
  <1>4. CASE SubscribePanics
    BY <1>4 DEF SubscribePanics, TypeOK, Reading
  <1>5. CASE ReadHalf
    BY <1>5 DEF ReadHalf, TypeOK, Reading
  <1>6. CASE ReadRest
    <2>1. DropFirst /\ Reading /\ UNCHANGED <<setting, up, open, unheard, sent>>
      BY <1>6 DEF ReadRest, GoOn
    <2>2. CASE frame' = "astray" /\ UNCHANGED <<client, up, open, heard, sent>>
      <3>1. /\ wire # <<>> /\ open /\ task \notin {"sleep", "dns", "connect", "broker"}
            /\ wire' \in Seq(Packet) /\ Len(wire') <= MaxWire /\ Len(wire') <= MaxWire + 1
            /\ lost' \subseteq Topics
        BY <2>1, DropFirstTypes
      <3>2. /\ open' = open /\ task' = task /\ idle' = idle /\ setting' = setting /\ up' = up
            /\ unheard' = unheard /\ excuse' = excuse /\ sent' = sent
        BY <2>2
      <3>3. Reading' /\ task # "ping"
        BY <2>1, <3>2 DEF Reading
      <3>4. wire' # <<>> => open' /\ task' \notin {"sleep", "dns", "connect", "broker"}
        BY <3>1, <3>2
      <3>5. /\ idle' \in 0..IDLE /\ (idle' > 0 => task' = "receive")
            /\ task' = "ping" \/ idle' > 0 => Len(wire') <= MaxWire
        BY <3>1, <3>2, <3>3 DEF TypeOK
      <3>6. /\ unheard' \in 0..KEEP_ALIVE /\ excuse' \in 0..KEEP_ALIVE
            /\ up' \in BOOLEAN /\ open' \in BOOLEAN
        BY <3>2 DEF TypeOK
      <3>7. frame' = "astray" /\ open'
        BY <2>2, <3>1, <3>2
      <3>8. sent' \in [Topics -> 0..MaxSent] /\ setting' \in [Topics -> 0..MaxSent]
        BY <1>0, <3>2
      <3>9. task' \in {"sleep", "dns", "connect", "broker", "subscribe beam_off", "subscribe beam_on",
                       "receive", "ping", "pong", "pause", "panicked"}
        BY <3>2 DEF TypeOK
      <3> QED
        BY <3>1, <3>3, <3>4, <3>5, <3>6, <3>7, <3>8, <3>9 DEF TypeOK
    <2>3. CASE frame' = "whole" /\ GoOn
      BY <1>g, <2>1, <2>3, DropFirstTypes DEF TypeOK
    <2> QED
      BY <1>6, <2>2, <2>3 DEF ReadRest
  <1>7. CASE Misread
    <2>1. GoOn /\ Reading /\ wire # <<>> /\ frame' = "torn" /\ UNCHANGED <<wire, lost>>
      BY <1>7 DEF Misread
    <2> QED
      BY <1>g, <2>1 DEF TypeOK
  <1>8. CASE ReceiveFails \/ Pong
    <2>1. GoOn /\ Reading
      BY <1>8 DEF ReceiveFails, Pong, Reading
    <2>2. CASE ~open /\ UNCHANGED stream
      <3>1. wire = <<>> /\ frame = "whole"
        BY <2>2 DEF TypeOK
      <3> QED
        BY <1>g, <2>1, <2>2, <3>1 DEF TypeOK
    <2>3. CASE DropFirst /\ frame' = "whole"
      BY <1>g, <2>1, <2>3, DropFirstTypes DEF TypeOK
    <2>4. CASE TooLong
      <3>1. wire # <<>> /\ frame' = "torn" /\ UNCHANGED <<wire, lost>>
        BY <2>4 DEF TooLong
      <3> QED
        BY <1>g, <2>1, <3>1 DEF TypeOK
    <2> QED
      BY <1>8, <2>2, <2>3, <2>4 DEF ReceiveFails, Pong
  <1>9. CASE Receive
    <2>1. /\ task = "receive" /\ wire # <<>> /\ task' \in {"pause", "panicked"}
          /\ wire' = Tail(wire) /\ frame' = "whole" /\ idle' = 0 /\ UNCHANGED <<up, open, sent>>
      BY <1>9, ReceiveStep
    <2>2. /\ Head(wire) \in Packet /\ Tail(wire) \in Seq(Packet) /\ Len(Tail(wire)) = Len(wire) - 1
      BY <1>0, <2>1, TailOfPackets
    <2>3. Head(wire).value \in 0..MaxSent /\ (Head(wire).payload = "number" => Head(wire).topic \in Topics)
      BY <2>2, PacketFacts
    <2>4. setting' \in [Topics -> 0..MaxSent]
      BY <1>0, <1>9, <2>3, ReceiveStep
    <2>5. lost' \subseteq Topics
      BY <1>9, ReceiveStep DEF TypeOK
    <2>6. unheard' \in 0..KEEP_ALIVE /\ excuse' \in 0..KEEP_ALIVE
      <3>1. \/ unheard' = 0 /\ excuse' = 0
            \/ unheard' = unheard /\ excuse' = Capped(excuse + IDLE)
        BY <1>9, ReceiveStep
      <3>2. unheard \in 0..KEEP_ALIVE /\ 0 \in 0..KEEP_ALIVE
        <4>1. unheard \in 0..KEEP_ALIVE
          BY DEF TypeOK
        <4> QED
          BY <1>0, <4>1
      <3> QED
        BY <1>e, <3>1, <3>2
    <2>7. wire' \in Seq(Packet) /\ Len(wire') <= MaxWire + 1
      BY <1>0, <2>1, <2>2
    <2>8. idle' \in 0..IDLE /\ ~(idle' > 0)
      BY <2>1 DEF IDLE
    <2>9. task \notin {"sleep", "dns", "connect", "broker"} /\ open /\ up \in BOOLEAN
      BY <2>1 DEF TypeOK
    <2> QED
      BY <2>1, <2>4, <2>5, <2>6, <2>7, <2>8, <2>9 DEF TypeOK
  <1>10. CASE TimesOut
    <2>1. /\ task = "receive" /\ idle = IDLE /\ task' = "ping" /\ idle' = 0
          /\ UNCHANGED <<setting, up, open, wire, lost, heard, sent>>
      BY <1>10 DEF TimesOut
    <2>2. frame' \in {"whole", "torn"} /\ (frame' = "torn" => wire # <<>>)
      BY <1>10 DEF TimesOut, TypeOK
    <2>3. Len(wire) <= MaxWire /\ idle' \in 0..IDLE /\ ~(idle' > 0)
      BY <2>1 DEF TypeOK, IDLE
    <2> QED
      BY <2>1, <2>2, <2>3 DEF TypeOK
  <1>11. CASE Ping
    <2>1. task = "ping" /\ ~(idle > 0) /\ Len(wire) <= MaxWire /\ frame \in {"whole", "torn"}
      BY <1>11 DEF Ping, TypeOK, Reading
    <2>2. CASE open
      <3>1. /\ task' = "pong" /\ wire' = Append(wire, Answer) /\ unheard' = 0 /\ excuse' = 0
            /\ UNCHANGED <<idle, setting, up, open, frame, lost, sent>>
        BY <1>11, <2>2 DEF Ping
      <3>2. wire' \in Seq(Packet) /\ Len(wire') = Len(wire) + 1
        BY <1>0, <3>1, AppendOfPackets DEF Packet
      <3>3. Len(wire') <= MaxWire + 1 /\ wire' # <<>>
        BY <1>0, <2>1, <3>2
      <3>4. unheard' \in 0..KEEP_ALIVE /\ excuse' \in 0..KEEP_ALIVE
        BY <1>0, <3>1
      <3> QED
        BY <2>1, <2>2, <3>1, <3>2, <3>3, <3>4 DEF TypeOK
    <2>3. CASE ~open
      <3>1. task' = "pause" /\ UNCHANGED <<wire, heard, idle, setting, up, open, frame, lost, sent>>
        BY <1>11, <2>3 DEF Ping
      <3> QED
        BY <2>1, <2>3, <3>1 DEF TypeOK
    <2> QED
      BY <2>2, <2>3
  <1>12. CASE PauseEnds
    BY <1>12 DEF PauseEnds, TypeOK, Reading
  <1>13. CASE Tick
    <2>1. unheard' \in 0..KEEP_ALIVE /\ UNCHANGED <<task, setting, up, open, stream, sent>>
      BY <1>e, <1>13 DEF Tick
    <2>2. CASE task = "receive" /\ idle < IDLE /\ Len(wire) <= MaxWire /\ idle' = idle + 1 /\ UNCHANGED excuse
      <3>1. idle' \in 0..IDLE
        BY <2>2 DEF TypeOK, IDLE
      <3> QED
        BY <2>1, <2>2, <3>1 DEF TypeOK, Reading
    <2>3. CASE task = "pong" /\ excuse' = Capped(excuse + 1) /\ UNCHANGED idle
      BY <1>e, <2>1, <2>3 DEF TypeOK, Reading
    <2> QED
      BY <1>13, <2>2, <2>3 DEF Tick
  <1>14. CASE NetworkChanges
    BY <1>14 DEF NetworkChanges, TypeOK, Reading
  <1>15. CASE Break
    <2>1. /\ open' = FALSE /\ frame' = "whole" /\ wire' = <<>> /\ lost' = lost \union NumbersIn(wire)
          /\ UNCHANGED <<client, up, heard, sent>>
      BY <1>15 DEF Break
    <2>2. lost' \subseteq Topics
      BY <1>0, <2>1, LostTopics DEF TypeOK
    <2>3. wire' \in Seq(Packet) /\ Len(wire') <= MaxWire /\ Len(wire') <= MaxWire + 1
      BY <1>0, <2>1
    <2> QED
      BY <2>1, <2>2, <2>3 DEF TypeOK
  <1>16. ASSUME NEW m \in Packet, wire' = Append(wire, m), open,
                task \notin {"sleep", "dns", "connect", "broker"}, Len(wire) < MaxWire,
                sent' \in [Topics -> 0..MaxSent],
                UNCHANGED <<client, up, open, frame, lost, heard>>
         PROVE  TypeOK'
    <2>1. wire' \in Seq(Packet) /\ Len(wire') = Len(wire) + 1
      BY <1>0, <1>16, AppendOfPackets
    <2>2. Len(wire') <= MaxWire /\ Len(wire') <= MaxWire + 1 /\ wire' # <<>>
      BY <1>0, <1>16, <2>1
    <2> QED
      BY <1>16, <2>1, <2>2 DEF TypeOK, Reading
  <1>17. ASSUME NEW t \in Topics, PublishNumber(t)
         PROVE  TypeOK'
    <2>1. PICK m \in Number : wire' = Append(wire, m)
      BY <1>17, PublishStep
    <2>2. /\ open /\ Subscribed(t) /\ Len(wire) < MaxWire
          /\ sent' = [sent EXCEPT ![t] = sent[t] + 1]
          /\ UNCHANGED <<client, up, open, frame, lost, heard>>
      BY <1>17 DEF PublishNumber
    <2>3. sent' \in [Topics -> 0..MaxSent]
      BY <1>0, <1>17, <2>2, PublishStep
    <2>4. m \in Packet /\ task \notin {"sleep", "dns", "connect", "broker"}
      BY <2>2 DEF Subscribed, Packet
    <2> QED
      BY <1>16, <2>1, <2>2, <2>3, <2>4
  <1>18. CASE PublishOther
    BY <1>0, <1>16, <1>18 DEF PublishOther, Packet, Subscribed
  <1>19. CASE UNCHANGED vars
    BY <1>19 DEF vars, TypeOK, Reading
  <1> QED
    BY <1>1, <1>2, <1>3, <1>4, <1>5, <1>6, <1>7, <1>8, <1>9, <1>10, <1>11, <1>12, <1>13, <1>14,
       <1>15, <1>17, <1>18, <1>19 DEF Next, Mqtt, Publish

\* What happens to the numbers of a topic when the first message is gone.
LEMMA NumbersMove ==
  ASSUME TypeOK, wire # <<>>, wire' = Tail(wire)
  PROVE  /\ \A t \in Topics, i \in DOMAIN wire' :
              /\ i + 1 \in DOMAIN wire /\ wire'[i] = wire[i + 1]
              /\ IsNumber(i, t)' => IsNumber(i + 1, t)
         /\ \A t \in Topics, i \in DOMAIN wire :
              IsNumber(i, t) => \/ i = 1
                                \/ IsNumber(i - 1, t)' /\ wire'[i - 1] = wire[i]
  <1>1. /\ wire \in Seq(Packet) /\ wire' \in Seq(Packet)
        /\ \A i \in DOMAIN wire' : i + 1 \in DOMAIN wire /\ wire'[i] = wire[i + 1]
        /\ \A i \in DOMAIN wire : i = 1 \/ (i - 1 \in DOMAIN wire' /\ wire'[i - 1] = wire[i])
    BY TailOfPackets DEF TypeOK
  <1> QED
    BY <1>1 DEF IsNumber

\* A publication comes behind all other numbers.
LEMMA NumbersGrow ==
  ASSUME TypeOK, NEW t \in Topics, PublishNumber(t)
  PROVE  LET n == Len(wire) + 1
         IN /\ n \in DOMAIN wire' /\ n \in Nat
            /\ wire'[n].topic = t /\ wire'[n].payload = "number" /\ wire'[n].value = sent[t] + 1
            /\ sent' = [sent EXCEPT ![t] = sent[t] + 1]
            /\ \A i \in DOMAIN wire' : i = n \/ (i \in DOMAIN wire /\ i < n /\ wire'[i] = wire[i])
            /\ \A i \in DOMAIN wire : i \in DOMAIN wire' /\ i < n /\ wire'[i] = wire[i]
            /\ setting' = setting /\ lost' = lost
  <1>1. PICK m \in Number :
          wire' = Append(wire, m) /\ m.topic = t /\ m.payload = "number" /\ m.value = sent[t] + 1
    BY PublishStep
  <1>2. wire \in Seq(Packet) /\ m \in Packet
    BY DEF TypeOK, Packet
  <1>3. /\ wire' \in Seq(Packet) /\ Len(wire') = Len(wire) + 1 /\ wire'[Len(wire) + 1] = m
        /\ \A i \in DOMAIN wire' : i = Len(wire) + 1 \/ (i \in DOMAIN wire /\ wire'[i] = wire[i])
        /\ \A i \in DOMAIN wire : i \in DOMAIN wire' /\ wire'[i] = wire[i]
    BY <1>1, <1>2, AppendOfPackets
  <1>4. /\ Len(wire) \in Nat /\ Len(wire) + 1 \in DOMAIN wire'
        /\ \A i \in DOMAIN wire : i < Len(wire) + 1
    BY <1>2, <1>3
  <1>5. setting' = setting /\ lost' = lost /\ sent' = [sent EXCEPT ![t] = sent[t] + 1]
    BY DEF PublishNumber, client
  <1> QED
    BY <1>1, <1>3, <1>4, <1>5

\* A packet that is no number leaves the numbers where they are.
LEMMA NumbersStay ==
  ASSUME TypeOK, SendOther
  PROVE  /\ \A t \in Topics : \A i : IsNumber(i, t)' <=> IsNumber(i, t)
         /\ \A i \in DOMAIN wire : i \in DOMAIN wire' /\ wire'[i] = wire[i]
         /\ \A t \in Topics, i \in DOMAIN wire' : IsNumber(i, t)' => i \in DOMAIN wire /\ wire'[i] = wire[i]
  <1>1. PICK m \in {Other, Answer} : wire' = Append(wire, m)
    BY DEF SendOther
  <1>2. wire \in Seq(Packet) /\ m \in Packet /\ m.payload # "number"
    <2>1. wire \in Seq(Packet)
      BY DEF TypeOK
    <2>2. m \in Packet
      BY DEF Packet
    <2>3. m.payload # "number"
      <3>1. CASE m = Other
        BY <3>1 DEF Other
      <3>2. CASE m = Answer
        BY <3>2 DEF Answer
      <3> QED
        BY <3>1, <3>2
    <2> QED
      BY <2>1, <2>2, <2>3
  <1>3. /\ wire'[Len(wire) + 1] = m
        /\ \A i \in DOMAIN wire' : i = Len(wire) + 1 \/ (i \in DOMAIN wire /\ wire'[i] = wire[i])
        /\ \A i \in DOMAIN wire : i \in DOMAIN wire' /\ wire'[i] = wire[i]
    BY <1>1, <1>2, AppendOfPackets
  <1> QED
    BY <1>2, <1>3 DEF IsNumber

\* What is left is in order, and newer than what is gone.
LEMMA OrderStays ==
  ASSUME TypeOK, WireInv, wire # <<>>, wire' = Tail(wire), sent' = sent
  PROVE  /\ \A t \in Topics, i \in DOMAIN wire' :
              IsNumber(i, t)' =>
                /\ setting[t] < wire'[i].value /\ wire'[i].value <= sent'[t]
                /\ IsNumber(1, t) => wire[1].value < wire'[i].value
         /\ \A t \in Topics, i, j \in DOMAIN wire' :
              IsNumber(i, t)' /\ IsNumber(j, t)' /\ i < j => wire'[i].value < wire'[j].value
  <1>0. /\ 1 \in DOMAIN wire /\ \A i \in DOMAIN wire' : i \in Nat /\ i >= 1 /\ i + 1 \in DOMAIN wire
        /\ \A i, j \in DOMAIN wire' : i < j => i + 1 < j + 1
    <2>1. wire \in Seq(Packet)
      BY DEF TypeOK
    <2> QED
      BY <2>1, TailOfPackets
  <1>1. ASSUME NEW t \in Topics, NEW i \in DOMAIN wire', IsNumber(i, t)'
        PROVE  /\ setting[t] < wire'[i].value /\ wire'[i].value <= sent'[t]
               /\ IsNumber(1, t) => wire[1].value < wire'[i].value
    <2>1. IsNumber(i + 1, t) /\ wire'[i] = wire[i + 1] /\ i + 1 \in DOMAIN wire /\ 1 < i + 1
      BY <1>0, <1>1, NumbersMove
    <2> QED
      BY <1>0, <2>1 DEF WireInv
  <1>2. ASSUME NEW t \in Topics, NEW i \in DOMAIN wire', NEW j \in DOMAIN wire',
               IsNumber(i, t)', IsNumber(j, t)', i < j
        PROVE  wire'[i].value < wire'[j].value
    <2>1. /\ IsNumber(i + 1, t) /\ wire'[i] = wire[i + 1] /\ i + 1 \in DOMAIN wire
          /\ IsNumber(j + 1, t) /\ wire'[j] = wire[j + 1] /\ j + 1 \in DOMAIN wire
          /\ i + 1 < j + 1
      BY <1>0, <1>2, NumbersMove
    <2> QED
      BY <2>1 DEF WireInv
  <1> QED
    BY <1>1, <1>2

\* Every step keeps the order of the numbers.
LEMMA StepWireInv == TypeOK /\ TypeOK' /\ WireInv /\ [Next]_vars => WireInv'
  <1> SUFFICES ASSUME TypeOK, TypeOK', WireInv, [Next]_vars PROVE WireInv'
    OBVIOUS
  <1>0. /\ sent \in [Topics -> Nat] /\ setting \in [Topics -> Nat]
        /\ \A i \in DOMAIN wire : wire[i].value \in Nat /\ i \in Nat
        /\ \A i \in DOMAIN wire' : i \in Nat
    <2>1. /\ wire \in Seq(Packet) /\ wire' \in Seq(Packet)
          /\ sent \in [Topics -> 0..MaxSent] /\ setting \in [Topics -> 0..MaxSent]
      BY DEF TypeOK
    <2>2. \A i \in DOMAIN wire : wire[i] \in Packet
      BY <2>1
    <2>3. \A i \in DOMAIN wire : wire[i].value \in Nat
      BY <2>2, PacketFacts
    <2> QED
      BY <2>1, <2>3, MqttAssumption
  <1>1. CASE UNCHANGED wired
    BY <1>1 DEF wired, WireInv, IsNumber
  <1>2. CASE DropFirst /\ UNCHANGED <<sent, setting>>
    <2>1. /\ wire # <<>> /\ wire' = Tail(wire) /\ UNCHANGED <<sent, setting>>
      BY <1>2 DEF DropFirst
    <2> QED
      BY <2>1, OrderStays DEF WireInv
  <1>3. CASE Break
    <2>1. DOMAIN wire' = {}
      BY <1>3 DEF Break
    <2> QED
      BY <1>3, <2>1 DEF Break, WireInv, client
  <1>4. CASE Receive
    <2>1. wire # <<>> /\ wire' = Tail(wire) /\ sent' = sent
      BY <1>4, ReceiveStep
    <2>2. CASE Head(wire).payload # "number"
      <3>1. setting' = setting
        BY <1>4, <2>2, ReceiveStep
      <3> QED
        BY <2>1, <3>1, OrderStays DEF WireInv
    <2>3. CASE Head(wire).payload = "number"
      <3> DEFINE t == wire[1].topic
      <3>1. Head(wire) = wire[1] /\ 1 \in DOMAIN wire /\ wire[1] \in Packet
        <4>1. wire \in Seq(Packet)
          BY DEF TypeOK
        <4> QED
          BY <2>1, <4>1, TailOfPackets
      <3>2. /\ t \in Topics /\ IsNumber(1, t)
            /\ setting' = [setting EXCEPT ![t] = wire[1].value]
        BY <1>4, <2>3, <3>1, ReceiveStep, PacketFacts DEF IsNumber
      <3>3. wire[1].value <= sent[t]
        BY <3>1, <3>2 DEF WireInv
      <3> HIDE DEF t
      <3>4. \A u \in Topics : setting'[u] = IF u = t THEN wire[1].value ELSE setting[u]
        BY <1>0, <3>2
      <3>5. \A u \in Topics, i \in DOMAIN wire' : IsNumber(i, u)' => setting'[u] < wire'[i].value
        BY <2>1, <3>2, <3>4, OrderStays
      <3> QED
        BY <2>1, <3>3, <3>4, <3>5, OrderStays DEF WireInv
    <2> QED
      BY <2>2, <2>3
  <1>5. ASSUME NEW t \in Topics, PublishNumber(t)
        PROVE  WireInv'
    <2> DEFINE n == Len(wire) + 1
    <2>1. /\ n \in DOMAIN wire' /\ n \in Nat
          /\ wire'[n].topic = t /\ wire'[n].value = sent[t] + 1
          /\ sent' = [sent EXCEPT ![t] = sent[t] + 1]
          /\ \A i \in DOMAIN wire' : i = n \/ (i \in DOMAIN wire /\ i < n /\ wire'[i] = wire[i])
          /\ setting' = setting
      BY <1>5, NumbersGrow
    <2> HIDE DEF n
    <2>2. \A u \in Topics : sent[u] <= sent'[u] /\ (u = t => sent'[u] = sent[u] + 1)
      BY <1>0, <2>1
    <2>3. \A u \in Topics, i \in DOMAIN wire' :
            IsNumber(i, u)' => \/ i = n /\ u = t
                               \/ i \in DOMAIN wire /\ i < n /\ wire'[i] = wire[i] /\ IsNumber(i, u)
      BY <2>1 DEF IsNumber
    <2>4. \A u \in Topics, i \in DOMAIN wire' :
            IsNumber(i, u)' => setting'[u] < wire'[i].value /\ wire'[i].value <= sent'[u]
      BY <1>0, <2>1, <2>2, <2>3 DEF WireInv
    <2>5. \A u \in Topics, i, j \in DOMAIN wire' :
            IsNumber(i, u)' /\ IsNumber(j, u)' /\ i < j => wire'[i].value < wire'[j].value
      BY <1>0, <2>1, <2>2, <2>3 DEF WireInv
    <2> QED
      BY <1>0, <2>1, <2>2, <2>4, <2>5 DEF WireInv
  <1>6. CASE SendOther
    <2>1. sent' = sent /\ setting' = setting
      BY <1>6 DEF SendOther
    <2> QED
      BY <1>6, <2>1, NumbersStay DEF WireInv
  <1> QED
    BY <1>1, <1>2, <1>3, <1>4, <1>5, <1>6, WireSteps

\* The latest number of a topic is the last one to be handled or lost.
LEMMA LatestStays ==
  ASSUME TypeOK, WireInv, LossInv, wire # <<>>, wire' = Tail(wire), sent' = sent,
         NEW t \in Topics
  PROVE  \/ \E i \in DOMAIN wire' : IsNumber(i, t)' /\ wire'[i].value = sent'[t]
         \/ /\ \A i \in DOMAIN wire' : ~IsNumber(i, t)'
            /\ IF IsNumber(1, t) THEN wire[1].value = sent[t] ELSE setting[t] = sent[t] \/ t \in lost
  <1>1. CASE \E i \in DOMAIN wire' : IsNumber(i, t)'
    <2>1. PICK k \in DOMAIN wire' : IsNumber(k, t)'
      BY <1>1
    <2>2. IsNumber(k + 1, t) /\ k + 1 \in DOMAIN wire /\ wire'[k] = wire[k + 1]
      BY <2>1, NumbersMove
    <2>3. PICK i \in DOMAIN wire : IsNumber(i, t) /\ wire[i].value = sent[t]
      BY <2>2 DEF LossInv
    <2>4. wire'[k].value <= sent[t] /\ (IsNumber(1, t) => wire[1].value < wire'[k].value)
      BY <2>1, OrderStays
    <2>5. wire[1].value \in Nat /\ wire'[k].value \in Nat /\ sent[t] \in Nat
      <3>1. wire \in Seq(Packet) /\ sent \in [Topics -> 0..MaxSent]
        BY DEF TypeOK
      <3>2. wire[1] \in Packet /\ wire[k + 1] \in Packet
        BY <2>2, <3>1, TailOfPackets
      <3>3. wire[1].value \in 0..MaxSent /\ wire[k + 1].value \in 0..MaxSent /\ sent[t] \in 0..MaxSent
        <4>1. \A m \in Packet : m.value \in 0..MaxSent
          BY PacketFacts
        <4> QED
          BY <3>1, <3>2, <4>1, Zenon
      <3>4. wire'[k].value \in 0..MaxSent
        BY <2>2, <3>3, Zenon
      <3> QED
        BY <3>3, <3>4
    <2>6. i # 1
      BY <2>3, <2>4, <2>5
    <2>7. IsNumber(i - 1, t)' /\ wire'[i - 1] = wire[i]
      BY <2>3, <2>6, NumbersMove
    <2> QED
      BY <2>3, <2>7 DEF IsNumber
  <1>2. CASE \A i \in DOMAIN wire' : ~IsNumber(i, t)'
    <2>1. \A i \in DOMAIN wire : IsNumber(i, t) => i = 1
      BY <1>2, NumbersMove DEF IsNumber
    <2> QED
      BY <1>2, <2>1 DEF LossInv, IsNumber
  <1> QED
    BY <1>1, <1>2

\* Every step keeps the latest number, or names the topic.
LEMMA StepLossInv == TypeOK /\ WireInv /\ LossInv /\ [Next]_vars => LossInv'
  <1> SUFFICES ASSUME TypeOK, WireInv, LossInv, [Next]_vars, NEW t \in Topics
               PROVE  \/ \E i \in DOMAIN wire' : IsNumber(i, t)' /\ wire'[i].value = sent'[t]
                      \/ /\ \A i \in DOMAIN wire' : ~IsNumber(i, t)'
                         /\ setting'[t] = sent'[t] \/ t \in lost'
    BY DEF LossInv
  <1>0. wire \in Seq(Packet) /\ setting \in [Topics -> 0..MaxSent] /\ sent \in [Topics -> 0..MaxSent]
    BY DEF TypeOK
  <1>1. CASE UNCHANGED wired
    BY <1>1 DEF wired, LossInv, IsNumber
  <1>2. CASE DropFirst /\ UNCHANGED <<sent, setting>>
    <2>1. /\ wire # <<>> /\ wire' = Tail(wire) /\ UNCHANGED <<sent, setting>>
          /\ lost' = lost \union NumbersIn(<<Head(wire)>>)
      BY <1>2 DEF DropFirst
    <2>2. IsNumber(1, t) => t \in NumbersIn(<<Head(wire)>>)
      <3>1. Head(wire) = wire[1] /\ DOMAIN <<wire[1]>> = {1} /\ <<wire[1]>>[1] = wire[1]
        BY <1>0, <2>1, TailOfPackets
      <3> QED
        BY <3>1, Zenon DEF NumbersIn, IsNumber
    <2> QED
      BY <2>1, <2>2, LatestStays
  <1>3. CASE Break
    <2>1. DOMAIN wire' = {} /\ lost' = lost \union NumbersIn(wire) /\ sent' = sent /\ setting' = setting
      BY <1>3 DEF Break, client
    <2>2. ASSUME NEW i \in DOMAIN wire, IsNumber(i, t)
          PROVE  t \in NumbersIn(wire)
      BY <2>2, Zenon DEF NumbersIn, IsNumber
    <2> QED
      BY <2>1, <2>2 DEF LossInv
  <1>4. CASE Receive
    <2>1. wire # <<>> /\ wire' = Tail(wire) /\ sent' = sent
      BY <1>4, ReceiveStep
    <2>2. Head(wire) = wire[1] /\ 1 \in DOMAIN wire /\ wire[1] \in Packet
      BY <1>0, <2>1, TailOfPackets
    <2>3. CASE IsNumber(1, t)
      <3>1. setting' = [setting EXCEPT ![t] = wire[1].value]
        BY <1>4, <2>2, <2>3, ReceiveStep DEF IsNumber
      <3>2. setting'[t] = wire[1].value
        BY <1>0, <3>1
      <3> QED
        BY <2>1, <2>3, <3>2, LatestStays
    <2>4. CASE ~IsNumber(1, t)
      <3>1. setting'[t] = setting[t] /\ (t \in lost => t \in lost')
        BY <1>0, <1>4, <2>2, <2>4, ReceiveStep, PacketFacts DEF IsNumber
      <3> QED
        BY <2>1, <2>4, <3>1, LatestStays
    <2> QED
      BY <2>3, <2>4
  <1>5. ASSUME NEW u \in Topics, PublishNumber(u)
        PROVE  \/ \E i \in DOMAIN wire' : IsNumber(i, t)' /\ wire'[i].value = sent'[t]
               \/ /\ \A i \in DOMAIN wire' : ~IsNumber(i, t)'
                  /\ setting'[t] = sent'[t] \/ t \in lost'
    <2> DEFINE n == Len(wire) + 1
    <2>1. /\ n \in DOMAIN wire'
          /\ wire'[n].topic = u /\ wire'[n].payload = "number" /\ wire'[n].value = sent[u] + 1
          /\ sent' = [sent EXCEPT ![u] = sent[u] + 1]
          /\ \A i \in DOMAIN wire' : i = n \/ (i \in DOMAIN wire /\ i < n /\ wire'[i] = wire[i])
          /\ \A i \in DOMAIN wire : i \in DOMAIN wire' /\ i < n /\ wire'[i] = wire[i]
          /\ setting' = setting /\ lost' = lost
      BY <1>5, NumbersGrow
    <2> HIDE DEF n
    <2>2. CASE t = u
      <3>1. sent'[t] = sent[t] + 1
        BY <1>0, <2>1, <2>2
      <3> QED
        BY <2>1, <2>2, <3>1 DEF IsNumber
    <2>3. CASE t # u
      <3>1. sent'[t] = sent[t]
        BY <1>0, <2>1, <2>3
      <3>2. \A i : IsNumber(i, t)' <=> IsNumber(i, t)
        BY <2>1, <2>3 DEF IsNumber
      <3>3. \A i \in DOMAIN wire : i \in DOMAIN wire' /\ wire'[i] = wire[i]
        BY <2>1
      <3> QED
        BY <2>1, <3>1, <3>2, <3>3 DEF LossInv, IsNumber
    <2> QED
      BY <2>2, <2>3
  <1>6. CASE SendOther
    <2>1. sent' = sent /\ setting' = setting /\ lost' = lost
      BY <1>6 DEF SendOther
    <2> QED
      BY <1>6, <2>1, NumbersStay DEF LossInv, IsNumber
  <1> QED
    BY <1>1, <1>2, <1>3, <1>4, <1>5, <1>6, WireSteps

\* Every step keeps the bound on the broker's patience.
LEMMA StepPingInv == TypeOK /\ PingInv /\ [Next]_vars => PingInv'
  <1> SUFFICES ASSUME TypeOK, PingInv, [Next]_vars PROVE PingInv'
    OBVIOUS
  <1>0. /\ idle \in 0..2 /\ unheard \in 0..KEEP_ALIVE /\ excuse \in 0..KEEP_ALIVE
        /\ KEEP_ALIVE \in Nat /\ IDLE = 2
    BY MqttAssumption DEF TypeOK, IDLE
  <1>1. ASSUME GoOn, Reading, UNCHANGED open
        PROVE  PingInv'
    <2>1. CASE task = "receive"
      <3>1. excuse' = Capped(excuse + 2) /\ unheard' = unheard /\ task' = "pause"
        BY <1>0, <1>1, <2>1 DEF GoOn
      <3>2. open => unheard <= excuse + 2
        BY <1>0, <2>1 DEF PingInv
      <3>3. open' => unheard' <= excuse'
        BY <1>0, <1>1, <3>1, <3>2 DEF Capped
      <3> QED
        BY <3>1, <3>3 DEF PingInv
    <2>2. CASE task = "pong"
      BY <1>1, <2>2 DEF GoOn, PingInv
    <2> QED
      BY <1>1, <2>1, <2>2 DEF Reading
  <1>2. CASE ReceiveFails \/ Pong \/ Misread
    <2>1. GoOn /\ Reading
      BY <1>2 DEF ReceiveFails, Pong, Misread, Reading
    <2> QED
      BY <1>1, <2>1 DEF GoOn
  <1>3. CASE ReadRest
    <2>1. CASE GoOn
      BY <1>1, <1>3, <2>1 DEF ReadRest, GoOn
    <2>2. CASE UNCHANGED <<client, up, open, heard, sent>>
      BY <2>2 DEF PingInv, client, heard
    <2> QED
      BY <1>3, <2>1, <2>2 DEF ReadRest
  <1>4. CASE Receive
    <2>1. /\ task = "receive" /\ task' \in {"panicked", "pause"} /\ open' = open
          /\ \/ unheard' = 0 /\ excuse' = 0
             \/ unheard' = unheard /\ excuse' = Capped(excuse + 2)
      BY <1>0, <1>4, ReceiveStep
    <2>2. open => unheard <= excuse + 2
      BY <1>0, <2>1 DEF PingInv
    <2>3. open => unheard' <= excuse'
      BY <1>0, <2>1, <2>2 DEF Capped
    <2> QED
      BY <2>1, <2>3 DEF PingInv
  <1> USE DEF PingInv, client, heard, stream
  <1>5. CASE \E i \in 1..5 : Succeed(i)
    <2>1. unheard' = 0 /\ excuse' = 0 /\ idle' = idle
      BY <1>5 DEF Succeed
    <2> QED
      BY <1>0, <2>1
  <1>6. CASE Sleep \/ Fail \/ SubscribePanics
    BY <1>6 DEF Sleep, Fail, FailWith, SubscribePanics
  <1>7. CASE ReadHalf \/ NetworkChanges \/ Break \/ (\E t \in Topics : PublishNumber(t)) \/ PublishOther
    BY <1>7 DEF ReadHalf, NetworkChanges, Break, PublishNumber, PublishOther
  <1>8. CASE TimesOut
    <2>1. task = "receive" /\ idle = 2 /\ task' = "ping" /\ UNCHANGED <<open, unheard, excuse>>
      BY <1>0, <1>8 DEF TimesOut
    <2> QED
      BY <1>0, <2>1
  <1>9. CASE Ping
    <2>1. CASE open
      <3>1. task' = "pong" /\ unheard' = 0 /\ excuse' = 0
        BY <1>9, <2>1 DEF Ping
      <3> QED
        BY <3>1
    <2>2. CASE ~open
      BY <1>9, <2>2 DEF Ping
    <2> QED
      BY <2>1, <2>2
  <1>10. CASE PauseEnds
    <2>1. task = "pause" /\ task' = "receive" /\ UNCHANGED <<open, unheard, excuse, idle>>
      BY <1>10 DEF PauseEnds
    <2> QED
      BY <1>0, <2>1
  <1>11. CASE Tick
    <2>1. unheard' = Capped(unheard + 1) /\ UNCHANGED <<task, open>>
      BY <1>11 DEF Tick
    <2>2. CASE task = "receive" /\ idle' = idle + 1 /\ UNCHANGED excuse
      BY <1>0, <2>1, <2>2 DEF Capped
    <2>3. CASE task = "pong" /\ excuse' = Capped(excuse + 1)
      BY <1>0, <2>1, <2>3 DEF Capped
    <2> QED
      BY <1>11, <2>2, <2>3 DEF Tick
  <1>12. CASE UNCHANGED vars
    BY <1>12 DEF vars
  <1> QED
    BY <1>2, <1>3, <1>4, <1>5, <1>6, <1>7, <1>8, <1>9, <1>10, <1>11, <1>12 DEF Next, Mqtt, Publish

(***************************************************************************)
(* The theorems.                                                           *)
(***************************************************************************)
\* The invariant.
THEOREM InvariantHolds == Spec => []IInv
  <1>1. IInv /\ [Next]_vars => IInv'
    BY StepTypeOK, StepWireInv, StepLossInv, StepPingInv DEF IInv
  <1> QED
    BY <1>1, InitIInv, PTL DEF Spec

\* The types; nothing is under way on a connection that is not open, and what
\* an earlier call has left of a packet is all that may be torn.
THEOREM TypeCorrect == Spec => []TypeOK
  BY InvariantHolds, PTL DEF IInv

\* Whatever of the published numbers gets lost, with the call that was dropped
\* halfway, with those that it leaves out of frame, or with a ping,
\* WAIT_BEFORE_BEAM_OFF and WAIT_AFTER_BEAM_ON only ever go forward, each by
\* the numbers of its own topic.
THEOREM SettingsInOrder == Spec => []SettingsFollow
  <1>1. IInv => SettingsFollow
    <2> SUFFICES ASSUME IInv, NEW i \in DOMAIN wire, wire[i].payload = "number"
                 PROVE  wire[i].value > setting[wire[i].topic]
      BY DEF SettingsFollow, Newer, IInv, WireInv
    <2>0. wire \in Seq(Packet) /\ setting \in [Topics -> 0..MaxSent]
      BY DEF IInv, TypeOK
    <2>1. wire[i] \in Packet
      BY <2>0
    <2>2. wire[i].topic \in Topics /\ wire[i].value \in Nat
      BY <2>1, PacketFacts
    <2>3. setting[wire[i].topic] < wire[i].value
      BY <2>2 DEF IInv, WireInv, IsNumber
    <2>4. setting[wire[i].topic] \in Nat
      BY <2>0, <2>2, MqttAssumption
    <2> QED
      BY <2>2, <2>3, <2>4
  <1> QED
    BY <1>1, InvariantHolds, PTL

\* Between two pings the broker hears nothing for two seconds, two more for
\* each error and each message that needs no answer, and as long as a ping
\* waits for its answer.
THEOREM PingsInTime == Spec => []PingsWhenIdle
  <1>1. IInv => PingsWhenIdle
    <2> SUFFICES ASSUME IInv, Serving, open
                 PROVE  unheard <= 2 + excuse
      BY DEF PingsWhenIdle, IDLE
    <2>1. idle \in 0..IDLE /\ unheard \in 0..KEEP_ALIVE /\ excuse \in 0..KEEP_ALIVE
      BY DEF IInv, TypeOK
    <2>2. idle \in 0..2 /\ unheard \in Nat /\ excuse \in Nat
      BY <2>1, MqttAssumption DEF IDLE
    <2>3. PingInv
      BY DEF IInv
    <2> QED
      BY <2>2, <2>3 DEF PingInv, Serving, IDLE
  <1> QED
    BY <1>1, InvariantHolds, PTL

\* A topic whose setting is behind has its latest number under way, or is
\* among those whose latest number was read without being handled (in half,
\* as part of what is no packet, or instead of the answer to a ping) or under
\* way when the connection broke.
THEOREM LossesNamed ==
  Spec => [](\A t \in Topics :
               \/ setting[t] = sent[t] \/ t \in lost
               \/ \E i \in DOMAIN wire : IsNumber(i, t) /\ wire[i].value = sent[t])
  <1>1. IInv => \A t \in Topics :
               \/ setting[t] = sent[t] \/ t \in lost
               \/ \E i \in DOMAIN wire : IsNumber(i, t) /\ wire[i].value = sent[t]
    BY DEF IInv, LossInv
  <1> QED
    BY <1>1, InvariantHolds, PTL
===============================================================================
