------------------------- MODULE L2tcpServerProofs -------------------------
(* Theorems about the backend server, for every crate and every set of clients. *)
EXTENDS L2tcpServer, TLAPS

USE BoundsAssumption, ClientsAssumption, ConfigsAssumption

-----------------------------------------------------------------------------
(* Type correctness *)

Ramps == [active : BOOLEAN, enable : BOOLEAN, ch : 0 .. NumChannels + 1]

\* A ramp that is stopped, begun or moved one channel on is a ramp.
LEMMA RampType ==
  ASSUME NEW r \in Ramps
  PROVE  /\ [r EXCEPT !.active = FALSE] \in Ramps
         /\ ~[r EXCEPT !.active = FALSE].active
         /\ \A b \in BOOLEAN : [active |-> TRUE, enable |-> b, ch |-> 1] \in Ramps
         /\ [active |-> FALSE, enable |-> FALSE, ch |-> 0] \in Ramps
<1>1. 0 \in 0 .. NumChannels + 1 /\ 1 \in 0 .. NumChannels + 1
  OBVIOUS
<1>2. QED
  BY <1>1 DEF Ramps

\* The step counter of a ramp under way stays within the ramp's type.
LEMMA RampStepType ==
  ASSUME NEW r \in Ramps, r.ch \in Channels
  PROVE  LET next == [r EXCEPT !.ch = @ + 1, !.active = r.ch < NumChannels]
         IN next \in Ramps /\ (next.active => next.ch \in Channels)
<1>1. /\ r.ch + 1 \in 0 .. NumChannels + 1
      /\ r.ch < NumChannels => r.ch + 1 \in Channels
  BY DEF Channels
<1>2. (r.ch < NumChannels) \in BOOLEAN
  OBVIOUS
<1>3. ASSUME NEW k \in 0 .. NumChannels + 1, NEW b \in BOOLEAN
      PROVE  LET next == [r EXCEPT !.ch = k, !.active = b]
             IN next \in Ramps /\ next.ch = k /\ next.active = b
  BY DEF Ramps
<1>4. QED
  BY <1>1, <1>2, <1>3

\* Zero is a possible lateness and a possible time to the next ramp step.
LEMMA ZeroType == 0 \in (-MaxLag) .. RampDelay /\ 0 \in 0 .. ClientTimeout + 1
                  /\ 0 \in 0 .. RampDelay /\ 0 \in 0 .. MaxLag /\ 0 \in 0 .. MaxUnread
                  /\ RampDelay \in 0 .. RampDelay /\ 1 \in Channels
  BY DEF Channels

\* The connection variables keep their types when the server closes a client.
LEMMA CloseClientType ==
  ASSUME TypeOK, CloseClient
  PROVE  /\ clientFd' \in Clients \cup {NoClient}
         /\ idle' \in 0 .. ClientTimeout + 1
         /\ link' \in [Clients -> {"closed", "up", "shut", "dead"}]
         /\ unread' \in [Clients -> 0 .. MaxUnread]
  BY ZeroType DEF TypeOK, CloseClient

\* So they do when one request is taken out of the receive buffer.
LEMMA TakenType ==
  ASSUME TypeOK, Taken, clientFd # NoClient, unread[clientFd] > 0
  PROVE  /\ clientFd' \in Clients \cup {NoClient}
         /\ link' \in [Clients -> {"closed", "up", "shut", "dead"}]
         /\ unread' \in [Clients -> 0 .. MaxUnread]
  BY DEF TypeOK, Taken

\* Reading a request and answering it leaves every variable they change typed.
LEMMA AnswerType ==
  ASSUME TypeOK, Receive, NEW r \in {"HELLO", "ACK", "ERROR"}, Answer(r)
  PROVE  /\ pc' \in {"select", "client", "send", "refuse", "ramp"}
         /\ ready' \in BOOLEAN
         /\ clientFd' \in Clients \cup {NoClient}
         /\ idle' \in 0 .. ClientTimeout + 1
         /\ reply' \in {"none", "HELLO", "ACK", "ERROR"}
         /\ link' \in [Clients -> {"closed", "up", "shut", "dead"}]
         /\ unread' \in [Clients -> 0 .. MaxUnread]
         /\ backlog' \in Seq(Clients)
<1>1. CASE pc' \in {"ramp", "send"} /\ Taken
  BY <1>1, TakenType DEF TypeOK, Receive, Answer
<1>2. CASE pc' = "ramp" /\ CloseClient
  BY <1>2, CloseClientType DEF TypeOK, Receive, Answer
<1>3. QED
  BY <1>1, <1>2 DEF Answer

\* The boards' registers stay subsets of the channels.
LEMMA SetPowerType ==
  ASSUME TypeOK, NEW values, SetPower(values)
  PROVE  pwr' \in Masks /\ trip' \in Masks
  BY DEF TypeOK, SetPower, LatchedIn, Masks

LEMMA NoMaskType == [s \in Slots |-> {}] \in Masks
  BY DEF Masks

LEMMA SetPowerChannelType ==
  ASSUME NEW reg \in SUBSET Channels, NEW c \in Channels, NEW on \in BOOLEAN,
         NEW o \in SetPowerChannel(reg, c, on)
  PROVE  o.reg \in SUBSET Channels /\ o.err \in BOOLEAN
<1>1. Bit(reg, c, on) \in SUBSET Channels
  BY DEF Bit
<1>2. CASE o = [reg |-> Bit(reg, c, on), err |-> FALSE]
  BY <1>1, <1>2
<1>3. ASSUME NEW r \in {reg, Bit(reg, c, on)}, o = [reg |-> r, err |-> TRUE]
      PROVE  o.reg \in SUBSET Channels /\ o.err \in BOOLEAN
  BY <1>1, <1>3
<1>4. QED
  BY <1>2, <1>3 DEF SetPowerChannel

LEMMA ExplicitOffType ==
  ASSUME TypeOK, NEW s \in Slots, NEW c \in Channels, NEW on \in BOOLEAN
  PROVE  ExplicitOff(s, c, on) \subseteq SUBSET Channels
<1>1. pwr[s] \in SUBSET Channels
  BY DEF TypeOK, Masks
<1>2. QED
  BY <1>1, SetPowerChannelType, ZenonT(30) DEF ExplicitOff

LEMMA ChannelPowerType ==
  ASSUME TypeOK, NEW s \in Slots, NEW c \in Channels, NEW on \in BOOLEAN,
         ChannelPower(s, c, on)
  PROVE  /\ pwr' \in Masks
         /\ trip' \in Masks
         /\ \E r \in {"ACK", "ERROR"} : Answer(r)
<1>1. CASE UNCHANGED hardware /\ Answer("ERROR")
  BY <1>1 DEF hardware, TypeOK
<1>2. ASSUME NEW off \in ExplicitOff(s, c, on),
             NEW w \in SetPowerChannel(off, c, on),
             pwr' = [pwr EXCEPT ![s] = w.reg],
             trip' = [trip EXCEPT ![s] = @ \cap off \cap w.reg],
             Answer(IF w.err THEN "ERROR" ELSE "ACK")
      PROVE  /\ pwr' \in Masks
             /\ trip' \in Masks
             /\ \E r \in {"ACK", "ERROR"} : Answer(r)
  <2>1. w.reg \in SUBSET Channels
    BY ExplicitOffType, SetPowerChannelType
  <2>2. \E r \in {"ACK", "ERROR"} : Answer(r)
    BY <1>2
  <2>3. QED
    BY <1>2, <2>1, <2>2 DEF TypeOK, Masks
<1>3. QED
  BY <1>1, <1>2 DEF ChannelPower

\* Each step of the server and of its surroundings keeps every variable typed.
LEMMA TypeStep == TypeOK /\ [Next]_vars => TypeOK'
<1> SUFFICES ASSUME TypeOK, [Next]_vars PROVE TypeOK'
  OBVIOUS
<1> USE DEF server, config, ramping, hardware, network, owners, history
<1>1. CASE NothingToAccept
  BY <1>1 DEF TypeOK, NothingToAccept, Select
<1>2. CASE RejectSecondClient
  BY <1>2 DEF TypeOK, RejectSecondClient, Select
<1>3. CASE AcceptClient
  <2>1. clientFd' \in Clients /\ backlog' \in Seq(Clients)
    BY <1>3 DEF TypeOK, AcceptClient
  <2>2. ramp' \in Ramps /\ ~ramp'.active
    BY <1>3, RampType DEF TypeOK, AcceptClient, ResetSession, Ramps
  <2>3. QED
    BY <1>3, <2>1, <2>2, NoMaskType, ZeroType
    DEF TypeOK, AcceptClient, Select, ResetSession, Ramps
<1>4. CASE NoRequest
  BY <1>4 DEF TypeOK, NoRequest
<1>5. CASE DropIdleClient
  BY <1>5, CloseClientType DEF TypeOK, DropIdleClient
<1>6. CASE LoseClient
  BY <1>6, CloseClientType DEF TypeOK, LoseClient
<1>7. CASE RefuseRequest
  <2>1. CASE pc' = "ramp" /\ CloseClient
    BY <1>7, <2>1, CloseClientType DEF TypeOK, RefuseRequest, Receive
  <2>2. CASE pc' = "refuse" /\ Taken
    BY <1>7, <2>2, TakenType DEF TypeOK, RefuseRequest, Receive
  <2>3. QED
    BY <1>7, <2>1, <2>2 DEF RefuseRequest
<1>8. ASSUME NEW b \in BOOLEAN, Hello(b) PROVE TypeOK'
  BY <1>8, AnswerType DEF TypeOK, Hello, Receive
<1>9. ASSUME NEW b \in BOOLEAN, RampPower(b) PROVE TypeOK'
  <2>1. CASE active = {}
    BY <1>9, <2>1, AnswerType DEF TypeOK, RampPower, Command, Receive
  <2>2. CASE StartRamp(b) /\ Answer("ACK")
    <3>1. pwr' \in Masks /\ trip' \in Masks
      BY <2>2, SetPowerType DEF StartRamp
    <3>2. /\ ramp' \in Ramps /\ ramp'.ch \in Channels
          /\ due' \in (-MaxLag) .. RampDelay
          /\ since' \in 0 .. RampDelay
          /\ late' \in 0 .. MaxLag
      BY <2>2, RampType, ZeroType DEF TypeOK, StartRamp, NewRamp, Ramps
    <3>3. QED
      BY <1>9, <2>2, <3>1, <3>2, AnswerType
      DEF TypeOK, RampPower, StartRamp, Command, Receive, Ramps
  <2>3. QED
    BY <1>9, <2>1, <2>2 DEF RampPower
<1>10. ASSUME NEW cfg \in Configs, SetConfig(cfg) PROVE TypeOK'
  BY <1>10, AnswerType DEF TypeOK, SetConfig, Command, Receive
<1>11. CASE EmergencyOff
  <2>1. pwr' \in Masks /\ trip' \in Masks
    BY <1>11, SetPowerType DEF EmergencyOff
  <2>2. QED
    BY <1>11, <2>1, AnswerType DEF TypeOK, EmergencyOff, CancelledRamp, Command, Receive
<1>12. ASSUME NEW s \in Slots \cup {BadSlot}, NEW c \in 0 .. NumChannels,
              NEW b \in BOOLEAN, SetChannelPower(s, c, b)
       PROVE  TypeOK'
  <2>1. /\ pwr' \in Masks /\ trip' \in Masks
        /\ \E r \in {"ACK", "ERROR"} : Answer(r)
    <3>1. CASE UNCHANGED hardware /\ \E r \in {"ACK", "ERROR"} : Answer(r)
      BY <3>1 DEF TypeOK
    <3>2. CASE Mutable(s, c) /\ ChannelPower(s, c, b)
      <4>1. s \in Slots /\ c \in Channels
        BY <3>2 DEF Mutable, TypeOK
      <4>2. QED
        BY <3>2, <4>1, ChannelPowerType
    <3>3. QED
      BY <1>12, <3>1, <3>2 DEF SetChannelPower
  <2>2. QED
    BY <1>12, <2>1, AnswerType DEF TypeOK, SetChannelPower, Command, Receive
<1>13. CASE OtherCommand
  BY <1>13, AnswerType DEF TypeOK, OtherCommand, Command, Receive
<1>14. CASE RampWaits
  BY <1>14 DEF TypeOK, RampWaits, EndIteration
<1>15. CASE RampStep
  <2>1. pwr' \in Masks /\ trip' \in Masks
    BY <1>15, SetPowerType DEF RampStep
  <2>2. ramp' \in Ramps /\ (ramp'.active => ramp'.ch \in Channels)
    <3>1. ramp \in Ramps /\ ramp.ch \in Channels
      BY <1>15 DEF TypeOK, RampStep, RampDue, Ramps
    <3>2. ramp' = [ramp EXCEPT !.ch = @ + 1, !.active = ramp.ch < NumChannels]
      BY <1>15 DEF RampStep, RampAfterStep
    <3>3. QED
      BY <3>1, <3>2, RampStepType
  <2>3. due' \in (-MaxLag) .. RampDelay /\ late' \in 0 .. MaxLag
    <3>1. due \in (-MaxLag) .. 0 /\ (late' = -due \/ late' = 0)
      BY <1>15 DEF TypeOK, RampStep, RampDue
    <3>2. due' = due + RampDelay \/ due' = 0
      BY <1>15 DEF RampStep, NextStep
    <3>3. QED
      BY <3>1, <3>2
  <2>4. QED
    BY <1>15, <2>1, <2>2, <2>3, ZeroType DEF TypeOK, RampStep, EndIteration, Ramps
<1>16. ASSUME NEW c \in Clients, Connect(c) PROVE TypeOK'
  BY <1>16 DEF TypeOK, Connect
<1>17. ASSUME NEW c \in Clients, Send(c) PROVE TypeOK'
  BY <1>17 DEF TypeOK, Send
<1>18. ASSUME NEW c \in Clients, Leave(c) PROVE TypeOK'
  BY <1>18 DEF TypeOK, Leave
<1>19. ASSUME NEW s \in Slots, NEW c \in Channels, Trip(s, c) PROVE TypeOK'
  BY <1>19 DEF TypeOK, Trip, Masks
<1>20. CASE Tick
  BY <1>20 DEF TypeOK, Tick
<1>21. CASE Restart
  <2>1. ramp' \in Ramps /\ ~ramp'.active /\ backlog' \in Seq(Clients)
    BY <1>21, RampType DEF Restart, TypeOK, Ramps
  <2>2. QED
    BY <1>21, <2>1, NoMaskType, ZeroType DEF TypeOK, Restart, Ramps
<1>22. CASE UNCHANGED vars
  BY <1>22 DEF TypeOK, vars
<1>23. CASE SendFails
  BY <1>23, CloseClientType DEF TypeOK, SendFails
<1>24. CASE ClientReads
  <2>1. CASE CloseClient
    <3>1. /\ pc' = "ramp"
          /\ UNCHANGED <<ready, negotiated, config, ramping, reply, hardware, backlog,
                         history>>
      BY <1>24 DEF ClientReads
    <3>2. QED
      BY <2>1, <3>1, CloseClientType DEF TypeOK
  <2>2. CASE UNCHANGED <<clientFd, link, unread, idle>>
    BY <1>24, <2>2 DEF TypeOK, ClientReads
  <2>3. QED
    BY <1>24, <2>1, <2>2 DEF ClientReads
<1>25. QED
  BY <1>1, <1>2, <1>3, <1>4, <1>5, <1>6, <1>7, <1>8, <1>9, <1>10, <1>11, <1>12,
     <1>13, <1>14, <1>15, <1>16, <1>17, <1>18, <1>19, <1>20, <1>21, <1>22, <1>23,
     <1>24
  DEF Next, Loop, HandleRequest, Environment

\* The server starts, on boards in any state, with every variable typed.
LEMMA InitType == Init => TypeOK
<1> SUFFICES ASSUME Init PROVE TypeOK
  OBVIOUS
<1>1. ramp \in Ramps /\ ~ramp.active
  BY RampType, ZeroType DEF Init, Ramps
<1>2. pwr \in Masks /\ trip \in Masks /\ immutable \in Masks /\ active \in SUBSET Slots
  BY NoMaskType DEF Init
<1>3. /\ link \in [Clients -> {"closed", "up", "shut", "dead"}]
      /\ unread \in [Clients -> 0 .. MaxUnread]
      /\ backlog \in Seq(Clients)
  BY ZeroType DEF Init
<1>4. QED
  BY <1>1, <1>2, <1>3, ZeroType DEF TypeOK, Init, Ramps

\* Every variable keeps to its type: the channel a ramp stands at is never
\* beyond the step after the last channel, whatever requests arrive when.
THEOREM TypeCorrect == Spec => []TypeOK
  BY InitType, TypeStep, PTL DEF Spec

-----------------------------------------------------------------------------
(* Sessions *)

\* The connected client's end is open, and the connections in the listen queue
\* are open, distinct, and not the connected client's.
OpenEnds ==
  /\ clientFd # NoClient => link[clientFd] # "closed"
  /\ \A i \in DOMAIN backlog :
       /\ backlog[i] # clientFd
       /\ link[backlog[i]] # "closed"
       /\ \A j \in DOMAIN backlog : backlog[i] = backlog[j] => i = j

SessionInv == TypeOK /\ OpenEnds /\ SessionOwnsState

\* Taking the first connection out of the queue leaves the others in order.
LEMMA TailFacts ==
  ASSUME NEW S, NEW q \in Seq(S), q # <<>>
  PROVE  /\ Head(q) = q[1] /\ 1 \in DOMAIN q
         /\ \A i \in DOMAIN Tail(q) : /\ i + 1 \in DOMAIN q /\ i \in Nat /\ i + 1 # 1
                                      /\ Tail(q)[i] = q[i + 1]
  OBVIOUS

\* A queue of open, distinct connections stays one when its head leaves it,
\* whatever becomes of the end that was at the head.
LEMMA QueueAfterAccept ==
  ASSUME TypeOK, OpenEnds, backlog # <<>>, backlog' = Tail(backlog)
  PROVE  \A i \in DOMAIN backlog' :
           /\ backlog'[i] \in Clients
           /\ backlog'[i] # Head(backlog) /\ backlog'[i] # clientFd
           /\ link[backlog'[i]] # "closed"
           /\ \A j \in DOMAIN backlog' : backlog'[i] = backlog'[j] => i = j
<1>1. backlog \in Seq(Clients)
  BY DEF TypeOK
<1>2. /\ Head(backlog) = backlog[1] /\ 1 \in DOMAIN backlog
      /\ \A i \in DOMAIN backlog' : /\ i + 1 \in DOMAIN backlog /\ i \in Nat /\ i + 1 # 1
                                    /\ backlog'[i] = backlog[i + 1]
  BY <1>1, TailFacts
<1>3. ASSUME NEW i \in DOMAIN backlog'
      PROVE  /\ backlog'[i] \in Clients
             /\ backlog'[i] # Head(backlog) /\ backlog'[i] # clientFd
             /\ link[backlog'[i]] # "closed"
  <2>1. i + 1 \in DOMAIN backlog /\ i + 1 # 1 /\ backlog'[i] = backlog[i + 1]
    BY <1>2
  <2>2. backlog[i + 1] \in Clients
    BY <1>1, <2>1
  <2>3. QED
    BY <1>2, <2>1, <2>2 DEF OpenEnds
<1>4. ASSUME NEW i \in DOMAIN backlog', NEW j \in DOMAIN backlog', backlog'[i] = backlog'[j]
      PROVE  i = j
  <2>1. i + 1 = j + 1
    BY <1>2, <1>4 DEF OpenEnds
  <2>2. QED
    BY <1>2, <2>1
<1>5. QED
  BY <1>3, <1>4

\* Closing the connected client touches no other end.
LEMMA CloseClientEnds ==
  ASSUME TypeOK, OpenEnds, clientFd # NoClient, CloseClient, UNCHANGED backlog
  PROVE  OpenEnds'
<1>1. \A i \in DOMAIN backlog : backlog[i] \in Clients
  BY DEF TypeOK
<1>2. clientFd' = NoClient /\ \A c \in Clients : c # clientFd => link'[c] = link[c]
  BY DEF TypeOK, CloseClient
<1>3. QED
  BY <1>1, <1>2 DEF OpenEnds

\* Answering keeps the client, or closes it: it never makes another one current.
LEMMA AnswerEnds ==
  ASSUME TypeOK, OpenEnds, Receive, NEW r, Answer(r)
  PROVE  OpenEnds' /\ clientFd' \in {clientFd, NoClient}
<1>1. CASE Taken
  BY <1>1 DEF Receive, Taken, OpenEnds
<1>2. CASE CloseClient
  BY <1>2, CloseClientEnds DEF Receive, CloseClient
<1>3. QED
  BY <1>1, <1>2 DEF Answer

\* Every step keeps the ends of the connections apart, and what a session set
\* up in force for that session only.
LEMMA SessionStep == SessionInv /\ [Next]_vars => SessionInv'
<1> SUFFICES ASSUME TypeOK, OpenEnds, SessionOwnsState, [Next]_vars
             PROVE  OpenEnds' /\ SessionOwnsState'
  BY TypeStep DEF SessionInv
<1> USE DEF server, config, ramping, hardware, network, owners, history
<1>1. CASE NothingToAccept \/ NoRequest \/ RampWaits \/ RampStep \/ Tick
  <2>1. /\ UNCHANGED <<clientFd, negotiated, config, link, backlog, owners>>
        /\ ramp'.active => ramp.active
    BY <1>1 DEF NothingToAccept, NoRequest, RampWaits, RampStep, RampDue, EndIteration,
                Tick, Select
  <2>2. QED
    BY <2>1 DEF OpenEnds, SessionOwnsState
<1>2. CASE RejectSecondClient
  <2>1. OpenEnds'
    <3>1. clientFd # NoClient => clientFd # Head(backlog)
      BY <1>2, TailFacts DEF RejectSecondClient, OpenEnds, TypeOK
    <3>2. \A c \in Clients : c # Head(backlog) => link'[c] = link[c]
      BY <1>2 DEF RejectSecondClient, TypeOK
    <3>3. QED
      BY <1>2, <3>1, <3>2, QueueAfterAccept DEF RejectSecondClient, OpenEnds, TypeOK
  <2>2. QED
    BY <1>2, <2>1 DEF RejectSecondClient, SessionOwnsState
<1>3. CASE AcceptClient
  <2>1. OpenEnds'
    BY <1>3, QueueAfterAccept, TailFacts DEF AcceptClient, OpenEnds, TypeOK
  <2>2. SessionOwnsState'
    <3>1. ~ramp'.active
      BY <1>3 DEF TypeOK, AcceptClient, ResetSession
    <3>2. ~negotiated' /\ active' = {} /\ \A s \in Slots : immutable'[s] = {}
      BY <1>3 DEF AcceptClient, ResetSession
    <3>3. QED
      BY <3>1, <3>2 DEF SessionOwnsState
  <2>3. QED
    BY <2>1, <2>2
<1>4. CASE DropIdleClient \/ LoseClient \/ RefuseRequest \/ SendFails \/ ClientReads
  <2>1. /\ clientFd # NoClient
        /\ CloseClient \/ UNCHANGED <<clientFd, link>>
        /\ UNCHANGED <<negotiated, config, ramping, backlog, owners>>
    BY <1>4 DEF DropIdleClient, LoseClient, RefuseRequest, Receive, Taken, SendFails,
                ClientReads
  <2>2. CASE CloseClient
    BY <2>1, <2>2, CloseClientEnds DEF CloseClient, SessionOwnsState
  <2>3. CASE UNCHANGED <<clientFd, link>>
    BY <2>1, <2>3 DEF OpenEnds, SessionOwnsState
  <2>4. QED
    BY <2>1, <2>2, <2>3
<1>5. ASSUME NEW b \in BOOLEAN, Hello(b) PROVE OpenEnds' /\ SessionOwnsState'
  BY <1>5, AnswerEnds DEF Hello, SessionOwnsState
<1>6. ASSUME NEW b \in BOOLEAN, RampPower(b) PROVE OpenEnds' /\ SessionOwnsState'
  <2>1. OpenEnds' /\ clientFd' \in {clientFd, NoClient}
    BY <1>6, AnswerEnds DEF RampPower, Command
  <2>2. CASE UNCHANGED <<ramping, rampBy>>
    BY <1>6, <2>1, <2>2 DEF RampPower, Command, SessionOwnsState
  <2>3. CASE StartRamp(b)
    BY <1>6, <2>1, <2>3 DEF RampPower, Command, StartRamp, SessionOwnsState
  <2>4. QED
    BY <1>6, <2>1, <2>2, <2>3 DEF RampPower
<1>7. ASSUME NEW cfg \in Configs, SetConfig(cfg) PROVE OpenEnds' /\ SessionOwnsState'
  BY <1>7, AnswerEnds DEF SetConfig, Command, SessionOwnsState
<1>8. CASE EmergencyOff
  <2>1. ~ramp'.active
    BY <1>8 DEF TypeOK, EmergencyOff, CancelledRamp
  <2>2. QED
    BY <1>8, <2>1, AnswerEnds DEF EmergencyOff, Command, SessionOwnsState
<1>9. ASSUME NEW s, NEW c, NEW b, SetChannelPower(s, c, b)
      PROVE  OpenEnds' /\ SessionOwnsState'
  <2>1. \E r : Answer(r)
    BY <1>9 DEF SetChannelPower, ChannelPower
  <2>2. QED
    BY <1>9, <2>1, AnswerEnds DEF SetChannelPower, Command, SessionOwnsState
<1>10. CASE OtherCommand
  BY <1>10, AnswerEnds DEF OtherCommand, Command, SessionOwnsState
<1>11. ASSUME NEW c \in Clients, Connect(c) PROVE OpenEnds' /\ SessionOwnsState'
  <2>1. c # clientFd /\ (\A i \in DOMAIN backlog : backlog[i] # c)
    BY <1>11 DEF Connect, OpenEnds
  <2>2. link'[c] = "up" /\ (\A d \in Clients : d # c => link'[d] = link[d])
    BY <1>11 DEF Connect, TypeOK
  <2>3. /\ \A i \in DOMAIN backlog' :
             \/ i \in DOMAIN backlog /\ backlog'[i] = backlog[i]
             \/ i = Len(backlog) + 1 /\ backlog'[i] = c
        /\ \A i \in DOMAIN backlog : backlog[i] \in Clients
    BY <1>11 DEF Connect, TypeOK
  <2>4. OpenEnds'
    BY <1>11, <2>1, <2>2, <2>3 DEF Connect, OpenEnds, TypeOK
  <2>5. QED
    BY <1>11, <2>1, <2>4 DEF Connect, SessionOwnsState
<1>12. CASE \E c \in Clients : Send(c) \/ Leave(c)
  <2>1. /\ UNCHANGED <<clientFd, negotiated, config, ramping, backlog, owners>>
        /\ \A c \in Clients : link[c] # "closed" => link'[c] # "closed"
    BY <1>12 DEF Send, Leave, TypeOK
  <2>2. \A i \in DOMAIN backlog : backlog[i] \in Clients
    BY DEF TypeOK
  <2>3. QED
    BY <2>1, <2>2 DEF OpenEnds, SessionOwnsState, TypeOK
<1>13. CASE \E s \in Slots, c \in Channels : Trip(s, c)
  BY <1>13 DEF Trip, OpenEnds, SessionOwnsState
<1>14. CASE Restart
  BY <1>14 DEF Restart, OpenEnds, SessionOwnsState
<1>15. CASE UNCHANGED vars
  BY <1>15 DEF vars, OpenEnds, SessionOwnsState
<1>16. QED
  BY <1>1, <1>2, <1>3, <1>4, <1>5, <1>6, <1>7, <1>8, <1>9, <1>10, <1>11, <1>12,
     <1>13, <1>14, <1>15
  DEF Next, Loop, HandleRequest, Environment

\* The handshake, configuration and ramp that the server acts on while a client
\* is connected are always that client's own, for any number of clients.
THEOREM SessionCorrect == Spec => []SessionOwnsState
<1>1. Init => SessionInv
  BY InitType DEF Init, SessionInv, OpenEnds, SessionOwnsState
<1>2. SessionInv => SessionOwnsState
  BY DEF SessionInv
<1>3. QED
  BY <1>1, <1>2, SessionStep, PTL DEF Spec

-----------------------------------------------------------------------------
(* The schedule of a ramp *)

\* The time since the last step and the time to the next add up to at least
\* ramp_delay_ms, less the lateness of the last step.
OnSchedule == ramp.active => since = RampDelay \/ due + since + late >= RampDelay

\* Every step keeps to the schedule.
LEMMA ScheduleStep == TypeOK /\ OnSchedule /\ [Next]_vars => OnSchedule'
<1> SUFFICES ASSUME TypeOK, OnSchedule, [Next]_vars, ramp'.active
             PROVE  since' = RampDelay \/ due' + since' + late' >= RampDelay
  BY DEF OnSchedule
<1> USE DEF server, config, ramping, hardware, network, owners, history
<1>1. /\ due \in (-MaxLag) .. RampDelay /\ since \in 0 .. RampDelay
      /\ late \in 0 .. MaxLag /\ ramp \in Ramps
  BY DEF TypeOK, Ramps
<1>2. CASE AcceptClient \/ EmergencyOff \/ Restart
  <2>1. ramp' = [ramp EXCEPT !.active = FALSE] \/ ~ramp'.active
    BY <1>2 DEF AcceptClient, ResetSession, EmergencyOff, CancelledRamp, Restart
  <2>2. QED
    BY <1>1, <2>1, RampType
<1>3. CASE UNCHANGED <<ramp, due, since, late>>
  BY <1>3 DEF OnSchedule
<1>4. ASSUME NEW b \in BOOLEAN, RampPower(b)
      PROVE  since' = RampDelay \/ UNCHANGED <<ramp, due, since, late>>
  BY <1>4 DEF RampPower, StartRamp
<1>5. CASE RampStep
  <2>1. due' = due + RampDelay /\ since' = 0 /\ late' = -due
    BY <1>5 DEF RampStep, NextStep
  <2>2. QED
    BY <1>1, <2>1
<1>6. CASE Tick
  <2>1. /\ ramp.active
        /\ due' = (IF due > -MaxLag THEN due - 1 ELSE due)
        /\ since' = (IF since < RampDelay THEN since + 1 ELSE since)
        /\ late' = late
    BY <1>6 DEF Tick
  <2>2. since = RampDelay \/ due + since + late >= RampDelay
    BY <2>1 DEF OnSchedule
  <2>3. QED
    BY <1>1, <2>1, <2>2
<1>7. CASE \/ NothingToAccept \/ RejectSecondClient \/ NoRequest
           \/ DropIdleClient \/ LoseClient \/ RefuseRequest \/ OtherCommand
           \/ SendFails \/ ClientReads \/ RampWaits \/ UNCHANGED vars
           \/ \E b \in BOOLEAN : Hello(b)
           \/ \E cfg \in Configs : SetConfig(cfg)
           \/ \E s, c, b : SetChannelPower(s, c, b)
           \/ \E c \in Clients : Connect(c) \/ Send(c) \/ Leave(c)
           \/ \E s \in Slots, c \in Channels : Trip(s, c)
  BY <1>3, <1>7
  DEF NothingToAccept, RejectSecondClient, NoRequest, DropIdleClient, LoseClient,
      RefuseRequest, OtherCommand, SendFails, ClientReads, RampWaits, vars, Hello, SetConfig,
      SetChannelPower, Connect, Send, Leave, Trip
<1>8. QED
  BY <1>2, <1>3, <1>4, <1>5, <1>6, <1>7 DEF Next, Loop, HandleRequest, Environment

\* Two steps of a ramp are never closer than ramp_delay_ms less the lateness of
\* the first, for every delay and every load on the loop.
THEOREM ScheduleCorrect == Spec => GapShrinksOnlyByLateness
<1> DEFINE A == RampStep => since >= RampDelay - late
<1>1. Init => TypeOK /\ OnSchedule
  BY InitType DEF OnSchedule, Init
<1>2. TypeOK /\ OnSchedule /\ [Next]_vars => (TypeOK /\ OnSchedule)'
  BY TypeStep, ScheduleStep
<1>3. TypeOK /\ OnSchedule /\ [Next]_vars => [A]_vars
  <2> SUFFICES ASSUME TypeOK, OnSchedule, RampStep PROVE since >= RampDelay - late
    OBVIOUS
  <2>1. /\ due \in (-MaxLag) .. RampDelay /\ since \in 0 .. RampDelay
        /\ late \in 0 .. MaxLag
    BY DEF TypeOK
  <2>2. due <= 0 /\ (since = RampDelay \/ due + since + late >= RampDelay)
    BY DEF RampStep, RampDue, OnSchedule
  <2>3. QED
    BY <2>1, <2>2
<1>4. QED
  BY <1>1, <1>2, <1>3, PTL DEF Spec, GapShrinksOnlyByLateness
=============================================================================
