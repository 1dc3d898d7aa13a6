------------------------------- MODULE Bridge -------------------------------
(***************************************************************************)
(* The OPC UA bridge (src/l2trig_asyncua_bridge.py) with the TCP client it *)
(* embeds (src/l2trig_api.py), against the session of the backend server.  *)
(*                                                                         *)
(* The bridge is one asyncio process: the update loop and the OPC UA       *)
(* method calls are tasks that interleave at their awaits.  A task holds   *)
(* _lock, which is handed on in order of arrival, from before              *)
(* _ensure_connected() to the end of its requests; a step here is what a   *)
(* task does from one await on the network to the next.                    *)
(*                                                                         *)
(* The server is reduced to what the bridge can tell: who holds the only   *)
(* session, its configuration, and whether a command has an effect under   *)
(* it (module L2tcpServer has the details).  Time is in ticks.             *)
(***************************************************************************)
EXTENDS Integers, Sequences

CONSTANTS
  Poll,        \* the task that runs _update_loop
  Calls,       \* the tasks that run OPC UA method calls
  Modules,     \* the modules of the active slots
  Methods,     \* the kinds of methods that clients call
  Ratio,       \* poll_ratio
  Lifetime,    \* variable_lifetime, in ticks
  MaxBackoff,  \* reconnection_backoff_interval, in ticks
  SeqSize,     \* number of sequence numbers (65536 in the API)
  Timeouts,    \* requests may time out
  Resets,      \* connections may be reset while nobody reads them
  Endless,     \* no bound on the faults of the network and the server
  MaxFaults,   \* bound: their number otherwise
  MaxCancels,  \* bound: method calls cancelled because their client has left
  MaxBacklog   \* bound: connections waiting for accept()

Tasks == Calls \cup {Poll}

ASSUME TasksAssumption == Poll \notin Calls
ASSUME MethodsAssumption == Methods \subseteq {"POWER", "TRIGGER", "CRATE", "IMMUTABLE"}
ASSUME BridgeAssumption ==
  /\ Ratio \in Nat \ {0} /\ Lifetime \in Nat /\ MaxBackoff \in Nat \ {0}
  /\ SeqSize \in Nat \ {0} /\ MaxBacklog \in Nat \ {0}
  /\ MaxFaults \in Nat /\ MaxCancels \in Nat
  /\ Timeouts \in BOOLEAN /\ Resets \in BOOLEAN /\ Endless \in BOOLEAN

VARIABLES
  lockq,       \* _lock: its holder, then the tasks waiting for it
  task,        \* per task: where it is, the method it runs and its arguments
  immutable,   \* immutable_channels (and the masks derived from it)
  connected,   \* _connected
  contact,     \* ticks since _last_contact, saturating; -1 for None
  wait,        \* ticks until _next_reconnect
  backoff,     \* _reconnect_delay
  pollEvent,   \* _poll_event
  cycle,       \* cycle % poll_ratio
  scaling,     \* _l1scalers_were_active
  fast,        \* the variables of the fast poll: status and origin of the value
  slow,        \* the variables of the slow poll
  mutable,     \* ModuleIsMutable, as published
  writer,      \* the API's connection: "none", "open" or "closing"
  eof,         \* the server has closed it
  seq,         \* _seq
  call         \* the request the lock's holder is waiting for

VARIABLES
  backlog,     \* connections waiting for accept(): the API's, or one it gave up
  session,     \* the server's client: "none", "cur" (the API's) or "old"
  inbox,       \* requests on the API's connection the server has not read
  stale,       \* requests the server has not read on the old one
  outbox,      \* replies the API has not read
  configured, config,  \* SET_CONFIG received, and its immutable modules
  on           \* the modules that are powered

\* Bounds, and history variables that no action reads.
VARIABLES
  faults, cancels,
  applied,     \* the method calls on whose command the server has acted
  sealed       \* modules whose SetModuleIsImmutable(True) returned OK

tasks == <<lockq, task>>
link == <<connected, contact, wait, backoff>>
polling == <<pollEvent, cycle, scaling>>
published == <<fast, slow, mutable>>
api == <<writer, eof, seq, call>>
server == <<backlog, session, stale, configured, config, on>>
wire == <<inbox, outbox>>
bounds == <<faults, cancels>>
history == <<applied, sealed>>
vars == <<tasks, immutable, link, polling, published, api, server, wire, bounds,
          history>>

ModuleOps == {"POWER", "TRIGGER"}
Requests == ModuleOps \cup
  {"CRATE", "HELLO", "SET_CONFIG", "FAST_POLL", "L1SCALERS", "SLOW_POLL"}
NoCall == [op |-> "none"]

\* The API call a bridge operation makes.
RequestOf(op) == IF op = "IMMUTABLE" THEN "SET_CONFIG" ELSE op

TypeOK ==
  /\ lockq \in Seq(Tasks)
  /\ task \in [Tasks -> [pc : {"idle", "lock", "connect", "recv", "slow"},
                         op : Methods \cup {"none"}, modules : SUBSET Modules,
                         value : BOOLEAN]]
  /\ immutable \in SUBSET Modules /\ mutable \in SUBSET Modules
  /\ connected \in BOOLEAN /\ contact \in -1 .. Lifetime
  /\ backoff \in 1 .. MaxBackoff /\ wait \in 0 .. MaxBackoff
  /\ pollEvent \in BOOLEAN /\ cycle \in 0 .. Ratio - 1 /\ scaling \in BOOLEAN
  /\ {fast, slow} \subseteq [status : {"Good", "Uncertain", "Waiting", "Bad"},
                             data : {"read", "none"}]
  /\ writer \in {"none", "open", "closing"} /\ eof \in BOOLEAN
  /\ seq \in 0 .. SeqSize - 1
  /\ session \in {"none", "cur", "old"} /\ backlog \in Seq({"cur", "old"})
  /\ \A q \in {inbox, stale} : \A i \in DOMAIN q : q[i].type \in Requests
  /\ outbox \in Seq([seq : 0 .. SeqSize - 1, ok : BOOLEAN,
                     data : {"read", "none"}, scaling : BOOLEAN])
  /\ configured \in BOOLEAN /\ config \in SUBSET Modules
  /\ on \in SUBSET Modules
  /\ applied \in SUBSET Calls /\ sealed \in SUBSET Modules

-----------------------------------------------------------------------------
(* The status published with a value *)

\* Mutant: variable_lifetime is forgotten.
StatusEverUsable(c) ==
  CASE c -> "Good" [] ~c /\ contact = -1 -> "Waiting" [] OTHER -> "Uncertain"

Status(c) ==
  CASE c -> "Good"
    [] ~c /\ contact = -1 -> "Waiting"
    [] ~c /\ contact \in 0 .. Lifetime - 1 -> "Uncertain"
    [] OTHER -> "Bad"

Values(c, d) == [status |-> Status(c), data |-> d]

\* The variables of disconnected(), zeros for every module.
PublishNothing(c) ==
  /\ fast' = Values(c, "none")
  /\ slow' = Values(c, "none")
  /\ UNCHANGED mutable

-----------------------------------------------------------------------------
(* The API *)

HoldsLock(t) == lockq # <<>> /\ Head(lockq) = t
At(t, pc) == HoldsLock(t) /\ task[t].pc = pc
Goto(t, pc) == task' = [task EXCEPT ![t].pc = pc]

Idle == [pc |-> "idle", op |-> "none", modules |-> {}, value |-> FALSE]

\* The task returns and releases _lock.
Finish(t) ==
  /\ lockq' = Tail(lockq)
  /\ task' = [task EXCEPT ![t] = Idle]
  /\ call' = NoCall

Remembered == applied' = {u \in applied : task'[u].pc # "idle"}

\* Mutant: the masks are computed before the new list.
MasksBefore == immutable

\* What set_config sends: the masks as they are now.
Masks == immutable'

\* The modules a request names.
Payload(t, type) ==
  CASE type = "SET_CONFIG" -> Masks
    [] type \in ModuleOps -> task[t].modules
    [] OTHER -> {}

Numbered(t, type, n) ==
  [type |-> type, seq |-> n, by |-> t, modules |-> Payload(t, type),
   value |-> task[t].value]

\* Mutant: the number is not cut to 16 bits.
UncutSeq == seq + 1

NextSeq == (seq + 1) % SeqSize

\* Write a request; on a connection that is closing it is lost.
Send(t, type, c) ==
  /\ seq' = NextSeq
  /\ inbox' = IF writer = "open" THEN Append(inbox, Numbered(t, type, NextSeq))
                                 ELSE inbox
  /\ call' = [c EXCEPT !.last = type, !.seq = NextSeq]

NewCall(op, stage, want) ==
  [op |-> op, stage |-> stage, want |-> want, last |-> want, seq |-> 0,
   data |-> "none", scaling |-> FALSE]

\* _send_recv: reconnect if need be (without SET_CONFIG), then write.
Request(t, c) ==
  /\ \/ writer = "open" /\ Send(t, c.want, c) /\ Goto(t, "recv")
     \/ writer # "open" /\ Goto(t, "connect") /\ call' = c /\ UNCHANGED <<seq, inbox>>
  /\ UNCHANGED <<lockq, writer, eof>>

\* A connection the client has given up stays with the server until it notices.
GiveUp ==
  /\ backlog' = [i \in DOMAIN backlog |-> "old"]
  /\ session' = IF session = "cur" THEN "old" ELSE session
  /\ stale' = IF session = "cur" THEN inbox ELSE stale
  /\ UNCHANGED <<configured, config, on>>

\* Mutant: the connection is closed and still taken for open.
DisconnectByHalf ==
  /\ writer' = "open" /\ eof' = TRUE
  /\ inbox' = <<>> /\ outbox' = <<>>
  /\ GiveUp

\* _disconnect_unlocked
Disconnect ==
  /\ writer' = "none" /\ eof' = FALSE
  /\ inbox' = <<>> /\ outbox' = <<>>
  /\ GiveUp

\* One more fault of the network or the server.
Fault ==
  \/ Endless /\ UNCHANGED faults
  \/ ~Endless /\ faults < MaxFaults /\ faults' = faults + 1

-----------------------------------------------------------------------------
(* The end of an operation of the bridge *)

\* SetModuleIsImmutable(False) lifts the promise as soon as it runs.
Unsealed(t) ==
  IF task[t].op = "IMMUTABLE" /\ ~task[t].value THEN sealed \ task[t].modules
                                                ELSE sealed

\* _ensure_connected has returned False.
NotConnected(t, op) ==
  CASE op = "FAST_POLL" ->
         /\ PublishNothing(connected')
         /\ Goto(t, "slow") /\ call' = NoCall
         /\ sealed' = Unsealed(t) /\ UNCHANGED <<lockq, polling>>
    [] op = "SLOW_POLL" ->
         /\ slow' = Values(connected', "none")
         /\ pollEvent' = FALSE /\ cycle' = (cycle + 1) % Ratio
         /\ Finish(t)
         /\ sealed' = Unsealed(t) /\ UNCHANGED <<fast, mutable, scaling>>
    [] op = "IMMUTABLE" ->
         /\ mutable' = Modules \ immutable'
         /\ pollEvent' = TRUE
         /\ sealed' = IF task[t].value THEN sealed \cup task[t].modules ELSE Unsealed(t)
         /\ Finish(t)
         /\ UNCHANGED <<fast, slow, cycle, scaling>>
    [] OTHER -> Finish(t) /\ sealed' = Unsealed(t) /\ UNCHANGED <<published, polling>>

\* Mutant: a failed poll publishes before it takes the link for lost.
RaisedUnnoticed(t, op) ==
  CASE op \in {"FAST_POLL", "L1SCALERS"} ->
         /\ PublishNothing(connected)
         /\ Goto(t, "slow") /\ call' = NoCall
         /\ UNCHANGED <<lockq, polling, link>>
    [] OTHER -> Finish(t) /\ UNCHANGED <<published, polling, link>>

\* A request of the operation itself has raised.
Raised(t, op) ==
  CASE op \in {"FAST_POLL", "L1SCALERS"} ->
         /\ connected' = FALSE
         /\ PublishNothing(FALSE)
         /\ Goto(t, "slow") /\ call' = NoCall
         /\ UNCHANGED <<lockq, polling, contact, wait, backoff>>
    [] op = "SLOW_POLL" ->
         /\ slow' = Values(connected, "none")
         /\ pollEvent' = FALSE /\ cycle' = (cycle + 1) % Ratio
         /\ Finish(t)
         /\ UNCHANGED <<fast, mutable, scaling, link>>
    [] OTHER -> Finish(t) /\ UNCHANGED <<published, polling, link>>

\* A request has raised: within _ensure_connected it backs off.  The delay
\* counts from before the attempt, which took some of it.
Failed(t) ==
  \/ /\ call.stage = "ensure"
     /\ connected' = FALSE
     /\ wait' \in 0 .. backoff
     /\ backoff' = IF 2 * backoff < MaxBackoff THEN 2 * backoff ELSE MaxBackoff
     /\ NotConnected(t, call.op)
     /\ UNCHANGED contact
  \/ call.stage = "op" /\ Raised(t, call.op) /\ UNCHANGED sealed

\* _ensure_connected, up to the first await, and the operation if it is True.
Ensure(t, op) ==
  /\ UNCHANGED <<link, outbox>>
  /\ \/ /\ writer = "open"
        /\ Request(t, NewCall(op, "op", RequestOf(op)))
        /\ sealed' = Unsealed(t) /\ UNCHANGED <<published, polling>>
     \/ /\ writer # "open" /\ wait = 0
        /\ Request(t, NewCall(op, "ensure", "HELLO"))
        /\ sealed' = Unsealed(t) /\ UNCHANGED <<published, polling>>
     \/ /\ writer # "open" /\ wait > 0
        /\ NotConnected(t, op)
        /\ UNCHANGED <<writer, eof, seq, inbox>>

-----------------------------------------------------------------------------
(* Steps of a task *)

\* The methods: on one module, or (CRATE) on all active slots.
Commands ==
  [op : Methods \ {"CRATE"}, modules : {{m} : m \in Modules}, value : BOOLEAN]
    \cup [op : Methods \cap {"CRATE"}, modules : {{}}, value : {FALSE}]

\* A method is called; commands to a module are refused if it is immutable.
Invoke(t) ==
  /\ t \in Calls /\ task[t].pc = "idle"
  /\ \E c \in Commands :
       /\ c.op \in ModuleOps => c.modules \cap immutable = {}
       /\ task' = [task EXCEPT ![t] = [pc |-> "lock", op |-> c.op, modules |-> c.modules,
                                       value |-> c.value]]
  /\ lockq' = Append(lockq, t)
  /\ UNCHANGED <<immutable, link, polling, published, api, server, wire, bounds, history>>

\* The update loop wakes up and waits for _lock.
WakePoll ==
  /\ task[Poll].pc = "idle"
  /\ Goto(Poll, "lock")
  /\ lockq' = Append(lockq, Poll)
  /\ UNCHANGED <<immutable, link, polling, published, api, server, wire, bounds, history>>

\* SetModuleIsImmutable: the masks change before the server is told.
NewMasks(t) ==
  IF task[t].op # "IMMUTABLE" THEN immutable
  ELSE IF task[t].value THEN immutable \cup task[t].modules
  ELSE immutable \ task[t].modules

\* The task has got _lock.
Start(t) ==
  /\ At(t, "lock")
  /\ immutable' = NewMasks(t)
  /\ Ensure(t, IF t = Poll THEN "FAST_POLL" ELSE task[t].op)
  /\ Remembered
  /\ UNCHANGED <<server, bounds>>

\* The second half of a poll cycle.
SlowPoll ==
  /\ At(Poll, "slow")
  /\ UNCHANGED <<immutable, server, bounds, applied>>
  /\ \/ (pollEvent \/ cycle = 0) /\ Ensure(Poll, "SLOW_POLL")
     \/ /\ ~pollEvent /\ cycle # 0
        /\ cycle' = (cycle + 1) % Ratio
        /\ Finish(Poll)
        /\ UNCHANGED <<pollEvent, scaling, link, published, writer, eof, seq, wire, sealed>>

ConnectSucceeds(t) ==
  /\ At(t, "connect")
  /\ Len(backlog) < MaxBacklog
  /\ seq' = NextSeq
  /\ call' = [call EXCEPT !.last = "HELLO", !.seq = NextSeq]
  /\ UNCHANGED immutable
  /\ inbox' = <<Numbered(t, "HELLO", NextSeq)>>
  /\ writer' = "open" /\ eof' = FALSE /\ outbox' = <<>>
  /\ backlog' = Append(backlog, "cur")
  /\ Goto(t, "recv")
  /\ UNCHANGED <<lockq, link, polling, published, session, stale,
                 configured, config, on, bounds, history>>

\* Refused, or timed out.
ConnectFails(t) ==
  /\ At(t, "connect")
  /\ Fault
  /\ writer' = "none"
  /\ UNCHANGED immutable
  /\ Failed(t)
  /\ Remembered
  /\ UNCHANGED <<eof, seq, wire, server, cancels>>

\* Mutant: the sequence number of the reply is not checked.
AnsweredByAny(t, last) ==
  /\ At(t, "recv") /\ call.last = last
  /\ outbox # <<>> /\ outbox' = Tail(outbox) /\ Head(outbox).ok
  /\ UNCHANGED <<immutable, server, bounds>>

\* A reply to the request the task is waiting for, and not an ERROR.
Answered(t, last) ==
  /\ At(t, "recv") /\ call.last = last
  /\ outbox # <<>> /\ outbox' = Tail(outbox)
  /\ Head(outbox).seq = call.seq /\ Head(outbox).ok
  /\ UNCHANGED <<immutable, server, bounds>>

\* HELLO: connect() returns and set_config follows, or the request goes out.
Negotiated(t) ==
  /\ Answered(t, "HELLO")
  /\ UNCHANGED <<link, polling, published, history>>
  /\ \/ call.want = "HELLO" /\ Request(t, NewCall(call.op, "ensure", "SET_CONFIG"))
     \/ /\ call.want # "HELLO"
        /\ Send(t, call.want, call)
        /\ UNCHANGED <<tasks, writer, eof>>

\* SET_CONFIG of _ensure_connected, which returns True; the operation follows.
Configured(t) ==
  /\ Answered(t, "SET_CONFIG") /\ call.stage = "ensure"
  /\ connected' = TRUE /\ contact' = 0 /\ backoff' = 1
  /\ pollEvent' = TRUE /\ scaling' = TRUE
  /\ Request(t, NewCall(call.op, "op", RequestOf(call.op)))
  /\ UNCHANGED <<wait, cycle, published, history>>

\* The fast poll; while boards count, a second request reads the scalers.
FastAnswered ==
  /\ Answered(Poll, "FAST_POLL")
  /\ connected' = TRUE /\ contact' = 0
  /\ LET reply == Head(outbox) IN
       \/ /\ reply.scaling \/ scaling
          /\ Request(Poll, [NewCall("L1SCALERS", "op", "L1SCALERS") EXCEPT
                              !.data = reply.data, !.scaling = reply.scaling])
          /\ UNCHANGED <<fast, scaling>>
       \/ /\ ~reply.scaling /\ ~scaling
          /\ fast' = Values(TRUE, reply.data)
          /\ Goto(Poll, "slow") /\ call' = NoCall
          /\ UNCHANGED <<lockq, writer, eof, seq, inbox, scaling>>
  /\ UNCHANGED <<wait, backoff, pollEvent, cycle, slow, mutable, history>>

ScalersAnswered ==
  /\ Answered(Poll, "L1SCALERS")
  /\ scaling' = call.scaling
  /\ fast' = Values(connected, call.data)
  /\ Goto(Poll, "slow") /\ call' = NoCall
  /\ UNCHANGED <<lockq, writer, eof, seq, inbox, link, pollEvent, cycle, slow, mutable, history>>

SlowAnswered ==
  /\ Answered(Poll, "SLOW_POLL")
  /\ slow' = Values(connected, Head(outbox).data)
  /\ pollEvent' = FALSE /\ cycle' = (cycle + 1) % Ratio
  /\ Finish(Poll)
  /\ UNCHANGED <<writer, eof, seq, inbox, link, scaling, fast, mutable, history>>

CommandAnswered(t) ==
  /\ \E op \in ModuleOps \cup {"CRATE"} : Answered(t, op)
  /\ pollEvent' = (pollEvent \/ call.op = "TRIGGER")
  /\ Finish(t)
  /\ Remembered
  /\ UNCHANGED <<writer, eof, seq, inbox, link, cycle, scaling, published, sealed>>

\* SetModuleIsImmutable publishes the new list once the server has it.
ImmutableAnswered(t) ==
  /\ Answered(t, "SET_CONFIG") /\ call.stage = "op"
  /\ UNCHANGED <<writer, eof, seq, inbox, link>>
  /\ NotConnected(t, "IMMUTABLE")
  /\ Remembered

\* An ERROR or another request's reply: raised, and the connection stays open.
WrongAnswer(t) ==
  /\ At(t, "recv")
  /\ outbox # <<>> /\ outbox' = Tail(outbox)
  /\ Head(outbox).seq # call.seq \/ ~Head(outbox).ok
  /\ UNCHANGED immutable
  /\ Failed(t)
  /\ Remembered
  /\ UNCHANGED <<writer, eof, seq, inbox, server, bounds>>

\* The server has closed the connection, or it was reset.
ConnectionLost(t) ==
  /\ At(t, "recv")
  /\ (eof /\ outbox = <<>>) \/ writer = "closing"
  /\ UNCHANGED immutable
  /\ Disconnect
  /\ Failed(t)
  /\ Remembered
  /\ UNCHANGED <<seq, bounds>>

\* Mutant: the API waits for ever.
NeverTimesOut(t) == FALSE

TimesOut(t) ==
  /\ At(t, "recv") /\ outbox = <<>> /\ Timeouts
  /\ Fault
  /\ UNCHANGED immutable
  /\ Disconnect
  /\ Failed(t)
  /\ Remembered
  /\ UNCHANGED <<seq, cancels>>

\* The OPC UA client leaves: its method is cancelled at the await it is at, and
\* nothing is undone but the lock.
Cancel(t) ==
  /\ t \in Calls /\ task[t].pc # "idle"
  /\ cancels < MaxCancels /\ cancels' = cancels + 1
  /\ lockq' = [i \in 1 .. Len(lockq) - 1 |->
                 IF \E j \in 1 .. i : lockq[j] = t THEN lockq[i + 1] ELSE lockq[i]]
  /\ task' = [task EXCEPT ![t] = Idle]
  /\ call' = IF HoldsLock(t) THEN NoCall ELSE call
  /\ Remembered
  /\ UNCHANGED <<immutable, link, polling, published, writer, eof, seq, server,
                 wire, faults, sealed>>

\* Time passes.
Tick ==
  /\ wait > 0 \/ contact \in 0 .. Lifetime - 1
  /\ wait' = IF wait > 0 THEN wait - 1 ELSE 0
  /\ contact' = IF contact \in 0 .. Lifetime - 1 THEN contact + 1 ELSE contact
  /\ UNCHANGED <<tasks, immutable, connected, backoff, polling, published, api,
                 server, wire, bounds, history>>

-----------------------------------------------------------------------------
(* The network and the server *)

client == <<tasks, immutable, link, polling, published, seq, call>>

\* One client at a time; a second one is closed at once.  A session starts
\* without a configuration.
Accept ==
  /\ backlog # <<>>
  /\ backlog' = Tail(backlog)
  /\ \/ /\ session = "none"
        /\ session' = Head(backlog)
        /\ configured' = FALSE /\ config' = {}
        /\ UNCHANGED <<eof, inbox>>
     \/ /\ session # "none"
        /\ eof' = (eof \/ Head(backlog) = "cur")
        /\ inbox' = IF Head(backlog) = "cur" THEN <<>> ELSE inbox
        /\ UNCHANGED <<session, configured, config>>
  /\ UNCHANGED <<client, writer, stale, on, outbox, bounds, history>>

\* Mutant: the configuration is not consulted.
ActsOnAll(r) == configured

\* Commands act on the mutable modules of the configured slots.
Acts(r) == configured /\ (r.type \in ModuleOps => r.modules \cap config = {})

Execute(r) ==
  /\ on' = CASE r.type # "POWER" \/ ~Acts(r) -> on
             [] OTHER -> IF r.value THEN on \cup r.modules ELSE on \ r.modules
  /\ configured' = (configured \/ r.type = "SET_CONFIG")
  /\ config' = IF r.type = "SET_CONFIG" THEN r.modules ELSE config

\* A command to a module is an ERROR without a configuration, for its slot is not
\* active; on an immutable module only a trigger command is.
Refused(r) ==
  r.type \in ModuleOps /\ ~Acts(r) /\ (r.type = "TRIGGER" \/ ~configured)

Reply(r, s) ==
  [seq |-> r.seq, ok |-> ~Refused(r),
   data |-> IF configured /\ r.type \in {"FAST_POLL", "L1SCALERS", "SLOW_POLL"}
              THEN "read" ELSE "none",
   scaling |-> s]

Serve ==
  /\ session = "cur" /\ inbox # <<>>
  /\ LET r == Head(inbox) IN
       /\ Execute(r)
       /\ \E s \in BOOLEAN :
            /\ s => r.type = "FAST_POLL" /\ configured
            /\ outbox' = Append(outbox, Reply(r, s))
       /\ applied' = IF Acts(r) /\ r.by \in Calls /\ task[r.by].pc # "idle"
                       THEN applied \cup {r.by} ELSE applied
  /\ inbox' = Tail(inbox)
  /\ UNCHANGED <<client, writer, eof, backlog, session, stale, bounds, sealed>>

\* Requests of a connection the client has given up are still executed.
ServeStale ==
  /\ session = "old" /\ stale # <<>>
  /\ Execute(Head(stale))
  /\ stale' = Tail(stale)
  /\ UNCHANGED <<client, writer, eof, backlog, session, wire, bounds, history>>

\* The server notices: end of file, a failed send, inactivity.
DropOld ==
  /\ session = "old"
  /\ session' = "none" /\ stale' = <<>>
  /\ UNCHANGED <<client, writer, eof, backlog, configured, config, on, wire, bounds, history>>

\* The server restarts, or drops its client for inactivity.
ServerCloses ==
  /\ session = "cur" /\ Fault
  /\ session' = "none" /\ eof' = TRUE /\ inbox' = <<>>
  /\ UNCHANGED <<client, writer, backlog, stale, configured, config, on, outbox, cancels, history>>

\* The transport learns of a reset, whatever its task is doing.
Reset ==
  /\ Resets /\ writer = "open" /\ Fault
  /\ writer' = "closing"
  /\ inbox' = <<>>
  /\ GiveUp
  /\ UNCHANGED <<client, eof, outbox, cancels, history>>

-----------------------------------------------------------------------------
Init ==
  /\ lockq = <<>>
  /\ task = [t \in Tasks |-> Idle]
  /\ immutable \in SUBSET Modules /\ mutable = Modules \ immutable
  /\ connected = FALSE /\ contact = -1 /\ wait = 0 /\ backoff = 1
  /\ pollEvent = FALSE /\ cycle = 0 /\ scaling = FALSE
  /\ fast = [status |-> "Waiting", data |-> "none"] /\ slow = fast
  /\ writer = "none" /\ eof = FALSE /\ seq = 0 /\ call = NoCall
  /\ backlog = <<>> /\ session \in {"none", "old"} /\ stale = <<>>
  /\ inbox = <<>> /\ outbox = <<>>
  /\ configured = FALSE /\ config = {}
  /\ on \in SUBSET Modules
  /\ faults = 0 /\ cancels = 0
  /\ applied = {} /\ sealed = {}

\* What a task does once it is under way.
Progress(t) ==
  \/ Start(t)
  \/ ConnectSucceeds(t) \/ ConnectFails(t)
  \/ Negotiated(t) \/ Configured(t)
  \/ CommandAnswered(t) \/ ImmutableAnswered(t)
  \/ WrongAnswer(t) \/ ConnectionLost(t) \/ TimesOut(t)

PollProgress == SlowPoll \/ FastAnswered \/ ScalersAnswered \/ SlowAnswered

Server == Accept \/ Serve \/ ServeStale \/ DropOld

Next ==
  \/ \E t \in Tasks : Invoke(t) \/ Progress(t) \/ Cancel(t)
  \/ WakePoll \/ PollProgress
  \/ Tick
  \/ Server \/ ServerCloses \/ Reset

Spec == Init /\ [][Next]_vars

\* The event loop runs every task that can run; timers expire.
FairBridge ==
  /\ Spec
  /\ \A t \in Tasks : WF_vars(Progress(t))
  /\ WF_vars(WakePoll) /\ WF_vars(PollProgress)
  /\ WF_vars(Tick)

\* The server is up and reads its connections.
FairSpec == FairBridge /\ WF_vars(Accept) /\ WF_vars(Serve) /\ WF_vars(ServeStale \/ DropOld)

-----------------------------------------------------------------------------
(* Safety *)

\* Whenever the API's connection is the server's session and no task is setting
\* it up, the server works under the bridge's masks (PROTOCOL.md:42); a call that
\* was cancelled while it set it up may have left it without.
SessionConfigured ==
  /\ writer = "open" /\ session = "cur" /\ cancels = 0
  /\ \/ lockq = <<>>
     \/ task[Head(lockq)].pc \in {"lock", "slow"}
     \/ /\ call.op \notin {"none", "IMMUTABLE"}
        /\ call.stage = "op" /\ call.last # "HELLO"
  => configured /\ config = immutable

\* A method that returns OK was answered for its own command, and the server
\* acted on it; a power command may have met a module made immutable meanwhile,
\* which the server passes over in silence.
OkMeansApplied ==
  [][\A t \in Calls :
       CommandAnswered(t) =>
         \/ t \in applied
         \/ task[t].op = "POWER" /\ task[t].modules \subseteq immutable]_vars

\* What the fast poll publishes as Good was read from the boards
\* (_write_fast_data, _get_status_code).
GoodMeansRead == fast.status = "Good" => fast.data = "read"

\* Once SetModuleIsImmutable(True) has returned OK, no command changes the
\* power of the module, not even one that had passed the bridge's check before.
ImmutableHonoured == [][on \cap sealed = on' \cap sealed]_vars

\* ModuleIsMutable says which modules the server controls (README.md:199).
MutabilityPublished == lockq = <<>> => mutable = Modules \ immutable

-----------------------------------------------------------------------------
(* Liveness *)

\* Every method call returns, also when the server never answers: the timeouts
\* of the API release _lock.
CallsAnswered == \A t \in Calls : task[t].pc # "idle" ~> task[t].pc = "idle"

\* If the server never serves the bridge again, the published status ends up
\* Bad, whatever _connected was when contact was lost.
LossIsPublished ==
  <>[](session # "cur") => <>[](fast.status \in {"Bad", "Waiting"})

\* When the faults stop, polling succeeds again and for ever.
Recovers == <>[](fast.status = "Good")
=============================================================================
