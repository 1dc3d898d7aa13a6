------------------------------- MODULE TcpCli -------------------------------
(***************************************************************************)
(* The TCP test client (src/l2trig_test_tcp_cli.py): a loop that sends the *)
(* request of each command, and a task that sends a keepalive every second *)
(* and that the command "keepalive" starts and cancels.  They share one    *)
(* connection of L2TriggerSystem (l2trig_api.py) under its lock.           *)
(***************************************************************************)
EXTENDS Integers

CONSTANT MaxToggles  \* bound: commands "keepalive 0"

ASSUME MaxTogglesAssumption == MaxToggles \in Nat

Tasks == {"main", "keepalive"}

VARIABLES
  link,     \* the client's end: "none", "open", "half" (the server has closed), "reset"
  unread,   \* replies in the stream that nobody waits for
  holder,   \* system._lock: the task that holds it, or "free"
  task,     \* where each task is in its request
  mainLoop, \* run_cli()
  alive     \* keepalive_state: enabled, and the task exists

\* A counter for the bound, and a history variable.
VARIABLES toggles, cut  \* a request was cancelled while its reply was under way

wire_ == <<link, unread, holder>>
tcpVars == <<wire_, task, mainLoop, alive, toggles, cut>>

TcpTypeOK ==
  /\ link \in {"none", "open", "half", "reset"}
  /\ unread \in 0 .. MaxToggles + 1
  /\ holder \in Tasks \cup {"free"}
  /\ task \in [Tasks -> {"idle", "lock", "connect", "reply"}]
  /\ mainLoop \in {"connect", "prompt", "busy", "keepalive_off", "cleanup", "disconnect", "gone"}
  /\ alive \in [enabled : BOOLEAN, task : BOOLEAN]
  /\ toggles \in 0 .. MaxToggles /\ cut \in BOOLEAN

-----------------------------------------------------------------------------
(* L2TriggerSystem *)

Step(t, pc) == task' = [task EXCEPT ![t] = pc]

\* _send_recv() has returned or raised, and the lock is released.
Over(t) ==
  /\ Step(t, "idle") /\ holder' = "free"
  /\ mainLoop' = IF t = "main" /\ mainLoop = "busy" THEN "prompt" ELSE mainLoop

\* _send_recv(): a transport that is closing is replaced first; what the server
\* has closed on its side does not show.
Lock(t) ==
  /\ task[t] = "lock" /\ holder = "free"
  /\ holder' = t
  /\ Step(t, IF link \in {"none", "reset"} THEN "connect" ELSE "reply")
  /\ UNCHANGED <<link, unread, mainLoop, alive, toggles, cut>>

\* _connect_unlocked(), _negotiate_unlocked()
TcpConnect(t) ==
  /\ task[t] = "connect"
  /\ \/ link' = "open" /\ unread' = 0 /\ Step(t, "reply") /\ UNCHANGED <<holder, mainLoop>>
     \/ link' = "none" /\ unread' = 0 /\ Over(t)
  /\ UNCHANGED <<alive, toggles, cut>>

\* The next reply in the stream: of this request, or, by its sequence number, of
\* one before it, which raises and leaves this one's, if it comes, to the next.
TcpReply(t) ==
  /\ task[t] = "reply"
  /\ \/ link \in {"open", "half"} /\ UNCHANGED unread
     \/ link = "half" /\ unread > 0 /\ unread' = unread - 1
  /\ Over(t)
  /\ UNCHANGED <<link, alive, toggles, cut>>

\* Mutant: the timeout leaves the connection open.
TimeoutKeepsConnection(t) ==
  /\ task[t] = "reply"
  /\ link' = link /\ unread' = unread + (IF link = "open" /\ unread <= MaxToggles THEN 1 ELSE 0)
  /\ Over(t)
  /\ UNCHANGED <<alive, toggles, cut>>

\* No reply in 5 s, or the end of the stream: the connection is given up.
TcpFails(t) ==
  /\ task[t] = "reply"
  /\ link' = "none" /\ unread' = 0
  /\ Over(t)
  /\ UNCHANGED <<alive, toggles, cut>>

\* The server closes the connection, or it is reset; replies already received
\* before the end of the stream remain.
ServerLeaves ==
  /\ link = "open" /\ link' \in {"half", "reset"}
  /\ UNCHANGED <<unread, holder, task, mainLoop, alive, toggles, cut>>

-----------------------------------------------------------------------------
(* The keepalive task *)

\* A second has passed.  What the request raises is printed, and the loop goes on.
KeepaliveDue ==
  /\ alive.task /\ alive.enabled /\ task["keepalive"] = "idle"
  /\ Step("keepalive", "lock")
  /\ UNCHANGED <<wire_, mainLoop, alive, toggles, cut>>

\* Mutant: the lock is not released by a task that is cancelled.
CancelledWithLock ==
  /\ Step("keepalive", "idle")
  /\ UNCHANGED <<link, holder>>
  /\ unread' = unread + (IF task["keepalive"] = "reply" /\ link = "open" THEN 1 ELSE 0)
  /\ cut' = (cut \/ task["keepalive"] \in {"connect", "reply"})

\* The task is cancelled where it waits: asleep, for the lock, or for a reply,
\* which is then left in the stream.  (While it connects, nothing is open yet,
\* or HELLO's reply is left.)
Cancelled_ ==
  /\ Step("keepalive", "idle")
  /\ holder' = IF holder = "keepalive" THEN "free" ELSE holder
  /\ \/ /\ task["keepalive"] = "connect" /\ link' = "open" /\ unread' = 1
     \/ /\ UNCHANGED link
        /\ unread' = unread + (IF task["keepalive"] = "reply" /\ link = "open" THEN 1 ELSE 0)
  /\ cut' = (cut \/ task["keepalive"] \in {"connect", "reply"})

-----------------------------------------------------------------------------
(* run_cli() *)

\* Without a first connection the program ends.  The configuration is sent at once.
RunCli ==
  /\ mainLoop = "connect"
  /\ \/ /\ link' = "open" /\ mainLoop' = "busy" /\ Step("main", "lock")
        /\ \E e \in BOOLEAN : alive' = [enabled |-> e, task |-> e]
     \/ mainLoop' = "gone" /\ UNCHANGED <<link, task, alive>>
  /\ UNCHANGED <<unread, holder, toggles, cut>>

\* A command that sends a request.
Command ==
  /\ mainLoop = "prompt" /\ mainLoop' = "busy"
  /\ Step("main", "lock")
  /\ UNCHANGED <<wire_, alive, toggles, cut>>

\* "keepalive 1"
KeepaliveOn ==
  /\ mainLoop = "prompt" /\ ~alive.enabled
  /\ alive' = [enabled |-> TRUE, task |-> TRUE]
  /\ UNCHANGED <<wire_, task, mainLoop, toggles, cut>>

\* "keepalive 0"
KeepaliveOff ==
  /\ mainLoop = "prompt" /\ alive.enabled
  /\ toggles < MaxToggles /\ toggles' = toggles + 1
  /\ alive' = [alive EXCEPT !.enabled = FALSE]
  /\ mainLoop' = "keepalive_off"
  /\ UNCHANGED <<wire_, task, cut>>

\* The cancelled task ends at its next turn; the loop waits for it.
KeepaliveEnds ==
  /\ mainLoop = "keepalive_off"
  /\ Cancelled_ /\ alive' = [alive EXCEPT !.task = FALSE]
  /\ mainLoop' = "prompt"
  /\ UNCHANGED toggles

Quit ==
  /\ mainLoop = "prompt" /\ mainLoop' = "cleanup"
  /\ alive' = [alive EXCEPT !.enabled = FALSE]
  /\ UNCHANGED <<wire_, task, toggles, cut>>

\* keepalive_state["task"] is cancelled and waited for, if there ever was one.
Cleanup ==
  /\ mainLoop = "cleanup" /\ mainLoop' = "disconnect"
  /\ Cancelled_ /\ alive' = [alive EXCEPT !.task = FALSE]
  /\ UNCHANGED toggles

\* disconnect() takes the lock.
TcpDisconnect ==
  /\ mainLoop = "disconnect" /\ holder = "free"
  /\ link' = "none" /\ unread' = 0
  /\ mainLoop' = "gone"
  /\ UNCHANGED <<holder, task, alive, toggles, cut>>

-----------------------------------------------------------------------------
TcpInit ==
  /\ link = "none" /\ unread = 0 /\ holder = "free"
  /\ task = [t \in Tasks |-> "idle"]
  /\ mainLoop = "connect" /\ alive = [enabled |-> FALSE, task |-> FALSE]
  /\ toggles = 0 /\ cut = FALSE

Exchange(t) == Lock(t) \/ TcpConnect(t) \/ TcpReply(t) \/ TcpFails(t)

RunCliSteps ==
  RunCli \/ Command \/ KeepaliveOn \/ KeepaliveOff \/ KeepaliveEnds \/ Quit \/ Cleanup
    \/ TcpDisconnect

TcpNext == (\E t \in Tasks : Exchange(t)) \/ KeepaliveDue \/ RunCliSteps \/ ServerLeaves

\* The event loop runs what is ready; a request ends at the latest by its timeout,
\* and the lock is given to its waiters in turn.
TcpFairness ==
  /\ WF_tcpVars(KeepaliveEnds \/ Cleanup \/ TcpDisconnect)
  /\ \A t \in Tasks : WF_tcpVars(TcpConnect(t) \/ TcpReply(t) \/ TcpFails(t))
  /\ SF_tcpVars(Lock("main"))

TcpSpec == TcpInit /\ [][TcpNext]_tcpVars /\ TcpFairness

-----------------------------------------------------------------------------
(* Properties *)

\* Between two requests nothing is left in the stream, whatever failed, timed out
\* or was closed before, unless a request has been cancelled: every later reply
\* would be taken for the one before it, and every command raise.
NothingUnread == holder = "free" /\ ~cut => unread = 0

\* The same without the exception.
CommandsAnswered == holder = "free" => unread = 0

\* No command hangs, and "quit" ends the program, whatever the server does and
\* wherever the keepalive task is when it is cancelled.
TcpCommandsReturn ==
  mainLoop \in {"busy", "keepalive_off", "cleanup"} ~> mainLoop \in {"prompt", "gone"}
=============================================================================
