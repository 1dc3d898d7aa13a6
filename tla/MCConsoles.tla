----------------------------- MODULE MCConsoles -----------------------------
(* The terminal clients for TLC.  They share nothing but the bridge or the     *)
(* server, which each models as it meets it, so one of them runs and the       *)
(* others rest as they start.                                                  *)
EXTENDS Tui, OpcuaCli, TcpCli

\* One size for each of the four layouts, with lines enough.
TerminalSizes == {[h |-> 40, w |-> w] : w \in {80, 160, 240, 320}}

\* Lines enough, and 80 columns.
TallTerminal == {[h |-> 40, w |-> 80]}

VARIABLE who  \* the program that runs

consoleVars == <<tuiVars, opcuaVars, tcpVars, who>>

ConsolesInit ==
  /\ TuiInit /\ OpcuaInit /\ TcpInit
  /\ who \in {"tui", "opcua", "tcp"}
  /\ who # "tui" => device /\ goodSlow

ConsolesNext ==
  /\ \/ who = "tui" /\ TuiNext /\ UNCHANGED <<opcuaVars, tcpVars>>
     \/ who = "opcua" /\ OpcuaNext /\ UNCHANGED <<tuiVars, tcpVars>>
     \/ who = "tcp" /\ TcpNext /\ UNCHANGED <<tuiVars, opcuaVars>>
  /\ UNCHANGED who

\* Each program's own fairness, which asks nothing of one that rests: none of the
\* steps it names is enabled before the program has started.
ConsolesSpec == ConsolesInit /\ [][ConsolesNext]_consoleVars /\ TuiFairness /\ TcpFairness

ConsolesTypeOK == TuiTypeOK /\ OpcuaTypeOK /\ TcpTypeOK
=============================================================================
