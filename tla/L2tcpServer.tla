---------------------------- MODULE L2tcpServer ----------------------------
(***************************************************************************)
(* The backend server of the L2 trigger crate                              *)
(* (src/l2tcp_server/l2tcp_server_main.c): one process, one select() loop. *)
(* An iteration of the loop accepts at most one connection, serves at most *)
(* one request of the connected client (or drops it for inactivity) and    *)
(* runs process_ramp() once.  The module keeps the state of g_server, the  *)
(* power registers (PONF) and the over/under current latches of the CTDB   *)
(* boards, and the server's end of the TCP connections.                    *)
(*                                                                         *)
(* Time is relative and in ticks: due is next_step_ts - now, idle is       *)
(* now - last_activity_ts.  Every SPI transaction may time out when        *)
(* SpiFaults holds; a write that times out may have reached the board.     *)
(*                                                                         *)
(* send() blocks while the replies that the client has not read fill the   *)
(* socket; only the receive side has a timeout.  The bytes are not         *)
(* counted: any reply may be the one that does not fit.                    *)
(*                                                                         *)
(* The contents of a request are chosen when the server reads it, not when *)
(* the client sends it: no other variable can tell the difference.         *)
(***************************************************************************)
EXTENDS Integers, FiniteSets, Sequences, PowerRegister

CONSTANTS
  Clients,        \* the ends of TCP connections that clients may open
  NoClient,       \* client_fd = -1
  Slots,          \* the valid slots (1-9 and 13-21 in the crate)
  BadSlot,        \* any slot number of a request that is not a valid slot
  NumChannels,    \* channels of a board (15 in the crate)
  Configs,        \* the SYS_SET_CONFIG payloads clients send
  ClientTimeout,  \* client_timeout_ms, in ticks
  RampDelay,      \* ramp_delay_ms, in ticks
  MaxLag,         \* bound: the lateness of a ramp step saturates here
  MaxUnread       \* bound: requests waiting in a socket's receive buffer

Channels == 1 .. NumChannels
Masks == [Slots -> SUBSET Channels]

ASSUME ClientsAssumption == NoClient \notin Clients
ASSUME SlotsAssumption == BadSlot \notin Slots
ASSUME BoundsAssumption ==
  /\ NumChannels \in Nat \ {0}
  /\ ClientTimeout \in Nat
  /\ RampDelay \in Nat
  /\ MaxLag \in Nat
  /\ MaxUnread \in Nat
  /\ SpiFaults \in BOOLEAN
ASSUME ConfigsAssumption ==
  Configs \subseteq [slots : SUBSET (Slots \cup {BadSlot}), masks : Masks]

VARIABLES
  pc,          \* where the loop is: "select", "client" or "ramp", or blocked in
               \* send(): "send", or "refuse" when a close() comes after it
  ready,       \* FD_ISSET(client_fd) in this iteration
  clientFd,    \* the connected client
  negotiated,  \* is_negotiated
  idle,        \* ticks since last_activity_ts, saturating at ClientTimeout + 1
  active,      \* active_slots_mask
  immutable,   \* immutable_masks
  ramp,        \* ramp.active, ramp.enable, ramp.current_ch
  due,         \* ramp.next_step_ts - now, saturating at -MaxLag
  reply,       \* what the request of this iteration was answered with
  pwr,         \* per slot, the bits set in PONF
  trip,        \* per slot, the channels latched in over or under current
  link,        \* per client, the state of its end of the connection
  unread,      \* per client, requests in the server's receive buffer
  backlog      \* connections waiting for accept()

\* History variables: read by the properties, never by an action.
VARIABLES
  clean,       \* nothing but ramp steps touched the power since start_ramp
  killed,      \* emergency off since the last command to power on
  since,       \* ticks since the last ramp step, saturating at RampDelay
  late,        \* how late the last ramp step was
  helloBy, configBy, rampBy  \* whose session negotiated, configured, ramped

server == <<pc, ready, clientFd, negotiated, idle>>
config == <<active, immutable>>
ramping == <<ramp, due>>
hardware == <<pwr, trip>>
network == <<link, unread, backlog>>
owners == <<helloBy, configBy, rampBy>>
history == <<clean, killed, since, late, owners>>
vars == <<server, config, ramping, reply, hardware, network, history>>

TypeOK ==
  /\ pc \in {"select", "client", "send", "refuse", "ramp"}
  /\ ready \in BOOLEAN
  /\ clientFd \in Clients \cup {NoClient}
  /\ negotiated \in BOOLEAN
  /\ idle \in 0 .. ClientTimeout + 1
  /\ active \in SUBSET Slots
  /\ immutable \in Masks
  /\ ramp \in [active : BOOLEAN, enable : BOOLEAN, ch : 0 .. NumChannels + 1]
  /\ ramp.active => ramp.ch \in Channels
  /\ due \in (-MaxLag) .. RampDelay
  /\ reply \in {"none", "HELLO", "ACK", "ERROR"}
  /\ pwr \in Masks
  /\ trip \in Masks
  /\ link \in [Clients -> {"closed", "up", "shut", "dead"}]
  /\ unread \in [Clients -> 0 .. MaxUnread]
  /\ backlog \in Seq(Clients)
  /\ clean \in BOOLEAN
  /\ killed \in BOOLEAN
  /\ since \in 0 .. RampDelay
  /\ late \in 0 .. MaxLag
  /\ helloBy \in Clients \cup {NoClient}
  /\ configBy \in Clients \cup {NoClient}
  /\ rampBy \in Clients \cup {NoClient}

-----------------------------------------------------------------------------
(* The crate, seen through the HAL *)

Mutable(s, c) == s \in active /\ c \in Channels /\ c \notin immutable[s]

\* A channel whose PONF bit is 0 has no latched error.
LatchedIn(new) == [s \in Slots |-> trip[s] \cap new[s]]

\* Each board ends up with one of the PONF values listed for its slot.
SetPower(values) ==
  /\ pwr' \in {new \in Masks : \A s \in Slots : new[s] \in values[s]}
  /\ trip' = LatchedIn(pwr')

-----------------------------------------------------------------------------
(* The server's socket calls *)

Readable(c) == unread[c] > 0 \/ link[c] = "shut"

\* close(client_fd); client_fd = -1.  accept() sets last_activity_ts before it is
\* read again.
CloseClient ==
  /\ clientFd' = NoClient
  /\ link' = [link EXCEPT ![clientFd] = "closed"]
  /\ unread' = [unread EXCEPT ![clientFd] = 0]
  /\ idle' = 0

\* Header and payload of one request are read; last_activity_ts is updated.
Receive ==
  /\ pc = "client" /\ ready /\ clientFd # NoClient /\ idle <= ClientTimeout
  /\ unread[clientFd] > 0
  /\ idle' = 0
  /\ UNCHANGED <<ready, backlog>>

\* One request is out of the receive buffer, and its client stays connected.
Taken ==
  /\ unread' = [unread EXCEPT ![clientFd] = @ - 1]
  /\ UNCHANGED <<clientFd, link>>

\* send_all: the reply goes out, or send() blocks on it.  A send to a peer that
\* has gone may fail, which closes the client.
Answer(r) ==
  /\ reply' = r
  /\ \/ pc' \in {"ramp", "send"} /\ Taken
     \/ pc' = "ramp" /\ link[clientFd] = "shut" /\ CloseClient

Sending == {"send", "refuse"}

-----------------------------------------------------------------------------
(* One iteration of the loop: select() and accept() *)

Select ==
  /\ pc = "select"
  /\ pc' = "client"
  /\ ready' = (clientFd # NoClient /\ Readable(clientFd))
  /\ UNCHANGED reply

NothingToAccept ==
  /\ Select
  /\ backlog = <<>>
  /\ UNCHANGED <<clientFd, negotiated, idle, config, ramping, hardware,
                 network, history>>

\* Mutant: the new connection counts as activity of the client there is.
RejectRefreshesIdle ==
  /\ Select
  /\ backlog # <<>> /\ clientFd # NoClient
  /\ link' = [link EXCEPT ![Head(backlog)] = "closed"]
  /\ unread' = [unread EXCEPT ![Head(backlog)] = 0]
  /\ backlog' = Tail(backlog)
  /\ idle' = 0
  /\ UNCHANGED <<clientFd, negotiated, config, ramping, hardware, history>>

\* Mutant: no accept() while a client is connected.
RejectIsLeftQueued ==
  /\ Select
  /\ backlog # <<>> /\ clientFd # NoClient
  /\ UNCHANGED <<clientFd, negotiated, idle, config, ramping, hardware,
                 network, history>>

RejectSecondClient ==
  /\ Select
  /\ backlog # <<>> /\ clientFd # NoClient
  /\ link' = [link EXCEPT ![Head(backlog)] = "closed"]
  /\ unread' = [unread EXCEPT ![Head(backlog)] = 0]
  /\ backlog' = Tail(backlog)
  /\ UNCHANGED <<clientFd, negotiated, idle, config, ramping, hardware, history>>

\* Mutant: is_negotiated survives the session.
ResetAllButHandshake ==
  /\ active' = {}
  /\ immutable' = [s \in Slots |-> {}]
  /\ ramp' = [ramp EXCEPT !.active = FALSE]
  /\ UNCHANGED negotiated

\* "Reset configuration on new client connection"
ResetSession ==
  /\ active' = {}
  /\ immutable' = [s \in Slots |-> {}]
  /\ ramp' = [ramp EXCEPT !.active = FALSE]
  /\ negotiated' = FALSE

AcceptClient ==
  /\ Select
  /\ backlog # <<>> /\ clientFd = NoClient
  /\ clientFd' = Head(backlog)
  /\ backlog' = Tail(backlog)
  /\ ResetSession
  /\ idle' = 0
  /\ UNCHANGED <<due, hardware, link, unread, history>>

-----------------------------------------------------------------------------
(* One iteration of the loop: the connected client *)

NoRequest ==
  /\ pc = "client"
  /\ clientFd = NoClient \/ (~ready /\ idle <= ClientTimeout)
  /\ pc' = "ramp"
  /\ UNCHANGED <<ready, clientFd, negotiated, idle, config, ramping, reply,
                 hardware, network, history>>

DropIdleClient ==
  /\ pc = "client" /\ clientFd # NoClient /\ idle > ClientTimeout
  /\ CloseClient
  /\ pc' = "ramp"
  /\ UNCHANGED <<ready, negotiated, config, ramping, reply, hardware, backlog,
                 history>>

\* recv() returns 0 bytes, an error or a part of a header or payload.
LoseClient ==
  /\ pc = "client" /\ ready /\ clientFd # NoClient /\ idle <= ClientTimeout
  /\ CloseClient
  /\ pc' = "ramp"
  /\ UNCHANGED <<ready, negotiated, config, ramping, reply, hardware, backlog,
                 history>>

\* A payload of the wrong length, or a command before HELLO: the error is sent,
\* then the connection is closed.
RefuseRequest ==
  /\ Receive
  /\ reply' = "ERROR"
  /\ \/ pc' = "ramp" /\ CloseClient
     \/ pc' = "refuse" /\ Taken
  /\ UNCHANGED <<negotiated, config, ramping, hardware, history>>

Hello(versionMatches) ==
  /\ Receive
  /\ Answer("HELLO")
  /\ negotiated' = versionMatches
  /\ helloBy' = clientFd
  /\ UNCHANGED <<config, ramping, hardware, clean, killed, since, late,
                 configBy, rampBy>>

\* A request that handle_request goes on to execute.
Command == Receive /\ negotiated /\ UNCHANGED negotiated

SetConfig(cfg) ==
  /\ Command
  /\ Answer("ACK")
  /\ active' = cfg.slots \cap Slots
  /\ immutable' = cfg.masks
  /\ clean' = FALSE
  /\ configBy' = clientFd
  /\ UNCHANGED <<ramping, hardware, killed, since, late, helloBy, rampBy>>

\* Mutant: the errors are read, and the channels stay on.
NothingSwept(s) == {pwr[s]}

\* PONF after the pre-sweep of start_ramp.  The variables that receive the
\* latches and PONF are not initialised and the reads' results are ignored: a
\* read that times out leaves whatever was on the stack.
PreSweep(s) ==
  LET resetable == trip[s] \ immutable[s]
  IN {pwr[s] \ resetable}
     \cup IF SpiFaults
          THEN {pwr[s]} \cup {p \ r : p \in SUBSET Channels,
                                      r \in SUBSET (Channels \ immutable[s]) \ {{}}}
          ELSE {}

\* Mutant: current_ch is not reset, so a new ramp goes on where one left off.
RampWithoutReset(on) == [active |-> TRUE, enable |-> on,
                         ch |-> IF ramp.ch \in Channels THEN ramp.ch ELSE 1]

NewRamp(on) == [active |-> TRUE, enable |-> on, ch |-> 1]

StartRamp(on) ==
  /\ ramp' = NewRamp(on)
  /\ due' = 0
  /\ SetPower([s \in Slots |-> IF on /\ s \in active THEN PreSweep(s)
                                                     ELSE {pwr[s]}])
  /\ clean' = TRUE
  /\ killed' = (killed /\ ~on)
  /\ since' = RampDelay
  /\ late' = 0
  /\ rampBy' = clientFd

RampPower(on) ==
  /\ Command
  /\ \/ /\ active = {}
        /\ Answer("ERROR")
        /\ UNCHANGED <<ramping, hardware, clean, killed, since, late, rampBy>>
     \/ active # {} /\ StartRamp(on) /\ Answer("ACK")
  /\ UNCHANGED <<config, helloBy, configBy>>

\* Mutant: the ramp is not cancelled.
RampGoesOn == ramp

CancelledRamp == [ramp EXCEPT !.active = FALSE]

\* cta_ctdb_setPowerEnabledToAll(0): every valid slot, errors ignored.
EmergencyOff ==
  /\ Command
  /\ SetPower([s \in Slots |-> {{}} \cup IF SpiFaults THEN {pwr[s]} ELSE {}])
  /\ ramp' = CancelledRamp
  /\ Answer("ACK")
  /\ clean' = FALSE
  /\ killed' = TRUE
  /\ UNCHANGED <<config, due, since, late, owners>>

\* PONF after the "explicit OFF to reset latch"; its result is ignored.
ExplicitOff(s, c, on) ==
  IF on /\ c \in trip[s] THEN {o.reg : o \in SetPowerChannel(pwr[s], c, FALSE)}
                          ELSE {pwr[s]}

\* handle_ch_power on a channel the server may change.
ChannelPower(s, c, on) ==
  \/ \E off \in ExplicitOff(s, c, on) : \E w \in SetPowerChannel(off, c, on) :
       /\ pwr' = [pwr EXCEPT ![s] = w.reg]
       /\ trip' = [trip EXCEPT ![s] = @ \cap off \cap w.reg]
       /\ Answer(IF w.err THEN "ERROR" ELSE "ACK")
  \/ SpiFaults /\ UNCHANGED hardware /\ Answer("ERROR")

SetChannelPower(s, c, on) ==
  /\ Command
  /\ \/ s \notin active /\ Answer("ERROR") /\ UNCHANGED hardware
     \/ s \in active /\ ~Mutable(s, c) /\ Answer("ACK") /\ UNCHANGED hardware
     \/ Mutable(s, c) /\ ChannelPower(s, c, on)
  /\ clean' = FALSE
  /\ killed' = (killed /\ ~on)
  /\ UNCHANGED <<config, ramping, since, late, owners>>

\* Every other command, known or not: it neither changes the session nor the
\* power.
OtherCommand ==
  /\ Command
  /\ \E r \in {"ACK", "ERROR"} : Answer(r)
  /\ UNCHANGED <<config, ramping, hardware, history>>

\* TCP ends a send() that waits for a client that has closed or vanished.
SendFails ==
  /\ pc \in Sending /\ clientFd # NoClient /\ link[clientFd] # "up"
  /\ CloseClient
  /\ pc' = "ramp"
  /\ UNCHANGED <<ready, negotiated, config, ramping, reply, hardware, backlog,
                 history>>

HandleRequest ==
  \/ LoseClient
  \/ RefuseRequest
  \/ \E b \in BOOLEAN : Hello(b) \/ RampPower(b)
  \/ \E cfg \in Configs : SetConfig(cfg)
  \/ EmergencyOff
  \/ \E s \in Slots \cup {BadSlot}, c \in 0 .. NumChannels, b \in BOOLEAN :
       SetChannelPower(s, c, b)
  \/ OtherCommand

-----------------------------------------------------------------------------
(* One iteration of the loop: process_ramp() *)

\* Mutant: no ramp step in an iteration that served a request.
RampDueIfNoRequest == ramp.active /\ due <= 0 /\ reply = "none"

RampDue == ramp.active /\ due <= 0

\* Mutant: immutable channels follow the ramp.
ColumnOfAll ==
  [s \in Slots |-> IF s \in active
                   THEN {o.reg : o \in SetPowerChannel(pwr[s], ramp.ch, ramp.enable)}
                   ELSE {pwr[s]}]

\* Mutant: a board is switched with one mask, as the triggers are.
ColumnIsBoard ==
  [s \in Slots |-> IF s \in active /\ ramp.enable
                   THEN {pwr[s] \cup (Channels \ immutable[s])}
                   ELSE {pwr[s]}]

\* One channel index across all slots; errors are ignored.
Column ==
  [s \in Slots |-> IF Mutable(s, ramp.ch)
                   THEN {o.reg : o \in SetPowerChannel(pwr[s], ramp.ch, ramp.enable)}
                   ELSE {pwr[s]}]

\* Mutant: the ramp runs one step too many.
OneStepMore == [ramp EXCEPT !.ch = @ + 1, !.active = ramp.ch <= NumChannels]

RampAfterStep == [ramp EXCEPT !.ch = @ + 1, !.active = ramp.ch < NumChannels]

\* Mutant: the schedule gains a tick at every step.
ScheduleTooTight == due + RampDelay - 1

NextStep == due + RampDelay

\* The last call of an iteration; fds and the reply are gone with it.
EndIteration ==
  /\ pc = "ramp"
  /\ pc' = "select" /\ ready' = FALSE /\ reply' = "none"

RampWaits ==
  /\ EndIteration
  /\ ~RampDue
  /\ UNCHANGED <<clientFd, negotiated, idle, config, ramping, hardware, network,
                 history>>

\* After the last step next_step_ts is not read again before start_ramp sets it.
RampStep ==
  /\ EndIteration
  /\ RampDue
  /\ SetPower(Column)
  /\ ramp' = RampAfterStep
  /\ due' = IF ramp'.active THEN NextStep ELSE 0
  /\ since' = 0
  /\ late' = IF ramp'.active THEN -due ELSE 0
  /\ UNCHANGED <<clientFd, negotiated, idle, config, network, clean, killed,
                 owners>>

-----------------------------------------------------------------------------
(* The server's surroundings *)

\* A client opens a connection; the kernel queues it for accept().
Connect(c) ==
  LET Without(owner) == IF owner = c THEN NoClient ELSE owner
  IN /\ link[c] = "closed"
     /\ link' = [link EXCEPT ![c] = "up"]
     /\ backlog' = Append(backlog, c)
     /\ helloBy' = Without(helloBy)
     /\ configBy' = Without(configBy)
     /\ rampBy' = Without(rampBy)
     /\ UNCHANGED <<server, config, ramping, reply, hardware, unread, clean,
                    killed, since, late>>

Send(c) ==
  /\ link[c] = "up" /\ unread[c] < MaxUnread
  /\ unread' = [unread EXCEPT ![c] = @ + 1]
  /\ UNCHANGED <<server, config, ramping, reply, hardware, link, backlog, history>>

\* The connected client reads what was sent to it, and a blocked send() returns.
\* Nothing obliges a client to do so.
ClientReads ==
  /\ pc \in Sending /\ clientFd # NoClient /\ link[clientFd] = "up"
  /\ \/ pc = "refuse" /\ CloseClient
     \/ pc = "send" /\ UNCHANGED <<clientFd, link, unread, idle>>
  /\ pc' = "ramp"
  /\ UNCHANGED <<ready, negotiated, config, ramping, reply, hardware, backlog,
                 history>>

\* The client closes its end, or vanishes without closing it.
Leave(c) ==
  /\ link[c] = "up"
  /\ \E how \in {"shut", "dead"} : link' = [link EXCEPT ![c] = how]
  /\ UNCHANGED <<server, config, ramping, reply, hardware, unread, backlog, history>>

\* The board trips a powered channel: over or under current.
Trip(s, c) ==
  /\ c \in pwr[s] \ trip[s]
  /\ trip' = [trip EXCEPT ![s] = @ \cup {c}]
  /\ UNCHANGED <<server, config, ramping, reply, pwr, network, history>>

Tick ==
  /\ idle' = IF clientFd # NoClient /\ idle <= ClientTimeout THEN idle + 1 ELSE idle
  /\ due' = IF ramp.active /\ due > -MaxLag THEN due - 1 ELSE due
  /\ since' = IF ramp.active /\ since < RampDelay THEN since + 1 ELSE since
  /\ UNCHANGED <<pc, ready, clientFd, negotiated, config, ramp, reply, hardware,
                 network, clean, killed, late, owners>>

\* The process is stopped or dies, and is started again: g_server is zero, the
\* connections are gone, the boards keep their registers.
Restart ==
  /\ pc' = "select" /\ ready' = FALSE /\ reply' = "none"
  /\ clientFd' = NoClient /\ negotiated' = FALSE /\ idle' = 0
  /\ active' = {} /\ immutable' = [s \in Slots |-> {}]
  /\ ramp' = [active |-> FALSE, enable |-> FALSE, ch |-> 0] /\ due' = 0
  /\ link' = [c \in Clients |-> "closed"]
  /\ unread' = [c \in Clients |-> 0]
  /\ backlog' = <<>>
  /\ clean' = FALSE /\ since' = 0 /\ late' = 0
  /\ UNCHANGED <<hardware, killed, owners>>

-----------------------------------------------------------------------------

Init ==
  /\ pc = "select" /\ ready = FALSE /\ reply = "none"
  /\ clientFd = NoClient /\ negotiated = FALSE /\ idle = 0
  /\ active = {} /\ immutable = [s \in Slots |-> {}]
  /\ ramp = [active |-> FALSE, enable |-> FALSE, ch |-> 0] /\ due = 0
  /\ pwr \in Masks
  /\ trip \in {t \in Masks : \A s \in Slots : t[s] \subseteq pwr[s]}
  /\ link = [c \in Clients |-> "closed"]
  /\ unread = [c \in Clients |-> 0]
  /\ backlog = <<>>
  /\ clean = FALSE /\ killed = FALSE /\ since = 0 /\ late = 0
  /\ helloBy = NoClient /\ configBy = NoClient /\ rampBy = NoClient

Loop ==
  \/ NothingToAccept \/ RejectSecondClient \/ AcceptClient
  \/ NoRequest \/ DropIdleClient \/ HandleRequest \/ SendFails
  \/ RampWaits \/ RampStep

Environment ==
  \/ \E c \in Clients : Connect(c) \/ Send(c) \/ Leave(c)
  \/ \E s \in Slots, c \in Channels : Trip(s, c)
  \/ ClientReads
  \/ Tick
  \/ Restart

Next == Loop \/ Environment

Spec == Init /\ [][Next]_vars

\* The loop is scheduled whenever no call blocks it, and time passes.  Nothing is
\* promised of the clients: ClientReads has no fairness.
FairSpec == Spec /\ WF_vars(Loop) /\ WF_vars(Tick)

\* What the server relies on, and cannot enforce: no client leaves its replies
\* unread for ever with its connection open.
SendsReturn == []<>(pc \notin Sending)

-----------------------------------------------------------------------------
(* What the server promises *)

\* Whatever a session set up is in force only while that session is connected:
\* the handshake, the slot configuration and a running ramp that the server
\* acts on while serving a client are that client's own (accept() in main()
\* resets them; closing a connection does not).
SessionOwnsState ==
  clientFd # NoClient =>
    /\ negotiated => helloBy = clientFd
    /\ (active # {} \/ \E s \in Slots : immutable[s] # {}) => configBy = clientFd
    /\ ramp.active => rampBy = clientFd

\* With an SPI bus that never times out, no step but EMERGENCY_OFF changes the
\* power of a channel that is immutable or on an inactive slot: not the ramp,
\* its pre-sweep, a command for one channel, nor a change of session or
\* configuration between two steps of a ramp.
ManagedPowerOnly ==
  [][\A s \in Slots, c \in Channels :
       (c \in pwr[s]) # (c \in pwr'[s]) => Mutable(s, c) \/ EmergencyOff]_vars

\* The README's promise of an immutable channel, with no exception for
\* EMERGENCY_OFF.
ImmutableNeverChanged ==
  [][\A s \in active : \A c \in immutable[s] : c \in pwr[s] <=> c \in pwr'[s]]_vars

\* With a reliable bus no step, whatever the interleaving of ramps and
\* commands, powers up two channels of one board: the inrush bound that the
\* ramp exists for.
OneChannelPerBoard ==
  [][\A s \in Slots : \A c, d \in pwr'[s] \ pwr[s] : c = d]_vars

\* With a reliable bus, a ramp that no other command disturbed has brought
\* every channel it has passed on every active slot, except the immutable ones,
\* to the state it was asked for; after the last step that is every channel.
RampDelivers ==
  clean => \A s \in active : \A c \in Channels :
             c < ramp.ch /\ Mutable(s, c) => (c \in pwr[s] <=> ramp.enable)

\* With a reliable bus, the crate is dark from EMERGENCY_OFF until a client
\* asks for power again: a ramp that was under way does not go on.
EmergencyHolds == killed => \A s \in Slots : pwr[s] = {}

\* Even when SPI transactions time out, nothing is powered up between
\* EMERGENCY_OFF and the next command to power on.
NoPowerUpAfterEmergency ==
  [][killed /\ killed' => \A s \in Slots : pwr'[s] \subseteq pwr[s]]_vars

\* Even when SPI transactions time out, SET_CH_POWER for a channel the server
\* may change is acknowledged only when the PONF bit has the requested value.
AckedPowerIsSet ==
  [][\A s \in active, c \in Channels, on \in BOOLEAN :
       Mutable(s, c) /\ SetChannelPower(s, c, on) /\ reply' = "ACK"
         => (c \in pwr'[s] <=> on)]_vars

\* SET_CH_POWER(on) for a channel in error turns it off first, which clears the
\* error: when it is acknowledged no latch is left.
AckedPowerRecovers ==
  [][\A s \in active, c \in Channels :
       Mutable(s, c) /\ SetChannelPower(s, c, TRUE) /\ reply' = "ACK"
         => c \notin trip'[s]]_vars

ManagedNow == [s \in Slots |-> {c \in Channels : Mutable(s, c)}]

ColumnsLeft == {c \in Channels : ramp.active /\ ramp.ch <= c}

Promise == INSTANCE PowerPromise WITH
  power <- pwr, latched <- trip, managed <- ManagedNow, left <- ColumnsLeft, up <- ramp.enable

\* With a reliable bus sessions, requests, refusals, the schedule and restarts
\* add nothing to what the clients were promised: every change of the power is
\* one command or one column of the ramp under way, over the channels managed
\* at that moment.
KeepsPromise == Promise!Spec

\* A ramp up leaves no channel of the column it powers in error: the README
\* says that the error of a channel is cleared when the ramp powers it on.
RampRecovers ==
  [][RampStep /\ ramp.enable =>
       \A s \in Slots : Mutable(s, ramp.ch) => ramp.ch \notin trip'[s]]_vars

\* next_step_ts advances from the schedule, not from the clock.  Two steps of
\* one ramp are therefore never closer than ramp_delay_ms less the lateness of
\* the first of them.
GapShrinksOnlyByLateness ==
  [][RampStep => since >= RampDelay - late]_vars

\* The delay between two columns that lets the inrush current settle: no two
\* steps of a ramp happen without time passing between them.
RampColumnsSpaced == [][RampStep => since > 0]_vars

\* A ramp under way does not stay at one column for ever, with no assumption on
\* the clients.  False: process_ramp() waits behind a send() that has no timeout.
RampNeverStalls == []<>(~ramp.active) \/ []<><<ramp'.ch # ramp.ch>>_ramp

\* As long as no client leaves its replies unread for ever, requests, refusals,
\* connections, slow readers and lost clients cannot stop a ramp.
RampProgresses == SendsReturn => RampNeverStalls

\* A client that vanished without closing its connection does not keep the
\* server for itself, not even when the server is blocked on a reply to it.
DeadClientEvicted ==
  \A c \in Clients : (clientFd = c /\ link[c] = "dead") ~> clientFd # c

\* As long as no client leaves its replies unread for ever, a connection does not
\* stay in the listen queue: it is accepted, or it is closed because another
\* client is connected.
ConnectionAnswered ==
  SendsReturn =>
    \A c \in Clients :
      (\E i \in DOMAIN backlog : backlog[i] = c)
        ~> (clientFd = c \/ link[c] = "closed")
=============================================================================
