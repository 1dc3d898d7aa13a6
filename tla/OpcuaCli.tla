------------------------------ MODULE OpcuaCli ------------------------------
(***************************************************************************)
(* The OPC UA test client (src/l2trig_test_opcua_cli.py): one command      *)
(* after the other, each preceded by a check of the session which, when it *)
(* fails, connects again and restores the subscriptions by their names.    *)
(*                                                                         *)
(* The session may be lost at any await, and any request may raise.  A     *)
(* variable is monitored through a handle of the current subscription.     *)
(***************************************************************************)
EXTENDS Integers, FiniteSets

CONSTANT CliVars  \* the variables of the Monitoring folder

ASSUME CliVarsAssumption == "all" \notin CliVars

VARIABLES
  session,    \* the bridge has it: "up", "down"
  cli,        \* where interactive_loop is, and the command
  found,      \* root_node and monitoring_node are those of a session
  sub,        \* the subscription: "none", "live", "dead" with its session
  handles,    \* sub_handles
  names,      \* subscribed_names
  restoring,  \* in reconnect(): "no", for "ensure_connected", for the "command"
  todo,       \* old_subs, not yet restored
  left        \* subscribe("all"): the variables still to come

\* History variables, which no action reads.
VARIABLES
  wanted,     \* variables whose monitoring the operator has been told of
  unrestored  \* what has failed in reconnections: "connect", "subscribe"

nodes == <<found, sub, handles, names>>
opcuaVars == <<session, cli, nodes, restoring, todo, left, wanted, unrestored>>

Names == CliVars \cup {"all"}
Commands_ ==
  [op : {"subscribe", "unsubscribe"}, name : Names]
    \cup [op : {"request", "reconnect", "exit"}, name : {"all"}]

OpcuaTypeOK ==
  /\ session \in {"up", "down"}
  /\ cli \in [at : {"start", "prompt", "ensure", "run", "connect", "restore", "walk", "bye",
                    "gone"},
              cmd : Commands_]
  /\ found \in BOOLEAN /\ sub \in {"none", "live", "dead"}
  /\ handles \subseteq CliVars /\ names \subseteq Names
  /\ restoring \in {"no", "ensure", "command"}
  /\ todo \subseteq Names /\ left \subseteq CliVars
  /\ wanted \subseteq CliVars /\ unrestored \subseteq {"connect", "subscribe"}

-----------------------------------------------------------------------------
At(pc) == cli.at = pc
Goto(pc) == cli' = [cli EXCEPT !.at = pc]

\* A request that the bridge answers.
Works == session = "up"

\* The bridge restarts, or the connection breaks.
SessionDies ==
  /\ session = "up" /\ session' = "down"
  /\ sub' = IF sub = "live" THEN "dead" ELSE sub
  /\ UNCHANGED <<cli, found, handles, names, restoring, todo, left, wanted, unrestored>>

\* main(): without a first connection there is no prompt.
FirstConnect ==
  /\ At("start")
  /\ \/ session' = "up" /\ found' = TRUE /\ Goto("prompt")
     \/ session' \in {"up", "down"} /\ Goto("bye") /\ UNCHANGED found
  /\ UNCHANGED <<sub, handles, names, restoring, todo, left, wanted, unrestored>>

Type(c) ==
  /\ At("prompt")
  /\ cli' = [at |-> "ensure", cmd |-> c]
  /\ UNCHANGED <<session, nodes, restoring, todo, left, wanted, unrestored>>

\* What disconnect() leaves: nothing, or, when delete() raises, everything.
Disconnected_ ==
  \/ /\ sub \in {"none", "live"}
     /\ sub' = "none" /\ handles' = {} /\ names' = {} /\ session' = "down"
  \/ /\ sub # "none"
     /\ UNCHANGED <<sub, handles, names, session>>

\* Mutant: the names are saved once the old connection is closed.
ReconnectsFirst(why) ==
  /\ found' = FALSE /\ sub' = "none" /\ handles' = {} /\ names' = {}
  /\ \/ sub # "dead" /\ todo' = {} /\ session' = "down"
     \/ sub # "none" /\ todo' = names /\ UNCHANGED session
  /\ restoring' = why
  /\ Goto("connect")

\* reconnect(), up to connect(): the names are saved, then all is forgotten.
Reconnects(why) ==
  /\ todo' = names
  /\ found' = FALSE /\ sub' = "none" /\ handles' = {} /\ names' = {}
  /\ session' \in IF sub = "dead" THEN {session}
                  ELSE IF sub = "none" THEN {"down"} ELSE {session, "down"}
  /\ restoring' = why
  /\ Goto("connect")

\* ensure_connected()
EnsureConnected ==
  /\ At("ensure")
  /\ \/ Works /\ Goto("run") /\ UNCHANGED <<session, nodes, restoring, todo>>
     \/ Reconnects("ensure")
  /\ UNCHANGED <<left, wanted, unrestored>>

Unrestored(why) == unrestored' = IF restoring = "no" THEN unrestored ELSE unrestored \cup {why}

\* An exception that reaches the loop: what was to be restored is lost.
Raises ==
  /\ Goto("prompt")
  /\ restoring' = "no" /\ todo' = {} /\ left' = {}
  /\ Unrestored(IF At("connect") THEN "connect" ELSE "subscribe")

\* connect(); the session may exist although its nodes were not found.
Connect_ ==
  /\ At("connect")
  /\ \/ session' = "up" /\ found' = TRUE /\ Goto("restore")
        /\ UNCHANGED <<restoring, todo, left, unrestored>>
     \/ session' \in {"up", "down"} /\ UNCHANGED found /\ Raises
  /\ UNCHANGED <<sub, handles, names, wanted>>

\* reconnect() returns, to ensure_connected() or to the loop.
Restored ==
  /\ At("restore") /\ todo = {}
  /\ Goto(IF restoring = "ensure" THEN "run" ELSE "prompt")
  /\ restoring' = "no"
  /\ UNCHANGED <<session, nodes, todo, left, wanted, unrestored>>

\* Where subscribe() returns to.
Return == Goto(IF restoring = "no" THEN "prompt" ELSE "restore")

\* A variable is told to be monitored, unless it is only restored.
Told(v) == wanted' = IF restoring = "no" THEN wanted \cup {v} ELSE wanted

\* Mutant: the name is not remembered.
MonitorsUnnamed(v) == handles' = handles \cup {v} /\ UNCHANGED names

\* _subscribe_node(), and the name if it was not monitored.
Monitors(v) ==
  IF v \in handles THEN UNCHANGED <<handles, names>>
                   ELSE handles' = handles \cup {v} /\ names' = names \cup {v}

\* subscribe(name): to one variable; what raises in its try is only printed.
SubscribeOne(v) ==
  \/ /\ Works /\ found /\ sub \in {"none", "live"}
     /\ sub' = "live" /\ Monitors(v)
     /\ Told(v) /\ UNCHANGED unrestored
  \/ /\ sub # "none" \/ Works
     /\ sub' = IF sub = "none" THEN "live" ELSE sub
     /\ Unrestored("subscribe")
     /\ UNCHANGED <<handles, names, wanted>>

\* subscribe(name), at a prompt or for each of old_subs.
Subscribe_(n) ==
  \/ /\ n # "all" /\ SubscribeOne(n)
     /\ Return /\ todo' = todo \ {n}
     /\ UNCHANGED <<session, found, restoring, left>>
  \/ /\ n = "all" /\ (sub # "none" \/ Works)
     /\ sub' = IF sub = "none" THEN "live" ELSE sub
     /\ names' = names \cup {"all"}
     /\ left' = CliVars /\ todo' = todo \ {n}
     /\ Goto("walk")
     /\ UNCHANGED <<session, found, handles, restoring, wanted, unrestored>>
  \/ /\ sub = "none"  \* create_subscription() raises
     /\ Raises
     /\ UNCHANGED <<session, nodes, wanted>>

\* subscribe("all"), a variable at a time, in browse order, which is arbitrary here.
Walk ==
  /\ At("walk")
  /\ \/ /\ left = {} /\ Return
        /\ UNCHANGED <<session, nodes, restoring, todo, left, wanted, unrestored>>
     \/ \E v \in left :
          /\ Works /\ found /\ sub = "live"
          /\ handles' = handles \cup {v} /\ left' = left \ {v}
          /\ Told(v)
          /\ UNCHANGED <<session, cli, found, sub, names, restoring, todo, unrestored>>
     \/ /\ Raises /\ UNCHANGED <<session, nodes, wanted>>

RestoreOne ==
  /\ At("restore")
  /\ \E n \in todo : Subscribe_(n)

\* unsubscribe("all"): delete() may raise, and then nothing has changed.
UnsubscribeAll ==
  /\ \/ /\ sub = "live" /\ Works
        /\ sub' = "none" /\ handles' = {} /\ names' = {} /\ wanted' = {}
     \/ UNCHANGED <<sub, handles, names, wanted>>

\* unsubscribe(name); "all" stays among the names.
UnsubscribeOne(v) ==
  \/ /\ sub = "live" /\ Works /\ found /\ v \in handles
     /\ handles' = handles \ {v} /\ names' = names \ {v} /\ wanted' = wanted \ {v}
     /\ UNCHANGED sub
  \/ UNCHANGED <<sub, handles, names, wanted>>

\* A reading or a method call keeps no state, whether it is answered or raises.
Request ==
  /\ Goto("prompt")
  /\ UNCHANGED <<session, nodes, restoring, todo, left, wanted, unrestored>>

\* The command, once ensure_connected() has returned.
RunCommand ==
  /\ At("run")
  /\ \/ cli.cmd.op = "subscribe" /\ Subscribe_(cli.cmd.name)
     \/ /\ cli.cmd.op = "unsubscribe"
        /\ IF cli.cmd.name = "all" THEN UnsubscribeAll ELSE UnsubscribeOne(cli.cmd.name)
        /\ Goto("prompt")
        /\ UNCHANGED <<session, found, restoring, todo, left, unrestored>>
     \/ /\ cli.cmd.op = "reconnect" /\ Reconnects("command")
        /\ UNCHANGED <<left, wanted, unrestored>>
     \/ cli.cmd.op = "request" /\ Request
     \/ /\ cli.cmd.op = "exit" /\ Goto("bye")
        /\ UNCHANGED <<session, nodes, restoring, todo, left, wanted, unrestored>>

\* Ctrl-D at the prompt.
EndOfInput ==
  /\ At("prompt") /\ Goto("bye")
  /\ UNCHANGED <<session, nodes, restoring, todo, left, wanted, unrestored>>

\* main(): the finally clause; the process ends with what disconnect() left open.
Leave_ ==
  /\ At("bye")
  /\ Disconnected_ /\ Goto("gone")
  /\ UNCHANGED <<found, restoring, todo, left, wanted, unrestored>>

-----------------------------------------------------------------------------
OpcuaInit ==
  /\ session = "down" /\ cli = [at |-> "start", cmd |-> [op |-> "exit", name |-> "all"]]
  /\ found = FALSE /\ sub = "none" /\ handles = {} /\ names = {}
  /\ restoring = "no" /\ todo = {} /\ left = {}
  /\ wanted = {} /\ unrestored = {}

OpcuaNext ==
  \/ SessionDies \/ FirstConnect \/ EnsureConnected \/ Connect_
  \/ Restored \/ RestoreOne \/ Walk \/ RunCommand \/ EndOfInput \/ Leave_
  \/ \E c \in Commands_ : Type(c)

OpcuaSpec == OpcuaInit /\ [][OpcuaNext]_opcuaVars

-----------------------------------------------------------------------------
(* Properties *)

Outside == restoring = "no" /\ cli.at \notin {"connect", "restore", "gone"}

\* Whatever the order of subscriptions to one or all variables, cancellations and
\* lost sessions, what is monitored can be restored: each handle stands under a
\* name that reconnect() would save, and each variable's name has its handle.
MonitoredIsRemembered ==
  Outside => /\ handles # {} => "all" \in names \/ handles \subseteq names
             /\ names \cap CliVars \subseteq handles

\* "restore subscriptions": a command finds the session's own subscription and
\* all the operator has been told is monitored, unless a reconnection or a part
\* of it has failed before.
ReconnectRestores ==
  At("run") /\ Works /\ unrestored = {} =>
    /\ found /\ sub # "dead"
    /\ wanted \subseteq handles

\* "Force a reconnection and restore subscriptions": whenever the connection has
\* come back and no subscription was refused, after however many attempts.
SubscriptionsReturn ==
  At("run") /\ Works /\ found /\ unrestored \subseteq {"connect"} => wanted \subseteq handles
=============================================================================
