----------------------------- MODULE MCDevices -----------------------------
(***************************************************************************)
(* Console, Machine and Squish for TLC.  A behaviour is of one of them: the *)
(* others stay as they begin.                                              *)
(***************************************************************************)
EXTENDS Console, Machine, Squish

VARIABLE system

(***************************************************************************)
(* Console: a kernel line before and one after the serial queue starts, a  *)
(* program's line, and two programs reading a key.                         *)
(***************************************************************************)
CONSTANTS main, worker, user, r1, r2

MCLine == (main :> <<109>>) @@ (worker :> <<119>>) @@ (user :> <<112>>)
MCPanicLine == <<33, 33, NL>>
MCRebootLine == <<34, NL>>

\* Left Shift, left Ctrl or Caps Lock; then A, left Alt, or Shift released; then Delete or 2.
MCCodes == << { <<42, FALSE>>, <<29, FALSE>>, <<58, FALSE>> },
              { <<30, FALSE>>, <<56, FALSE>>, <<42, TRUE>> },
              { <<83, FALSE>>, <<3, FALSE>> } >>

(***************************************************************************)
(* Squish: two bytes to relay.                                             *)
(***************************************************************************)
MCInput == <<1, 2>>
-----------------------------------------------------------------------------
MCInit ==
    /\ ConsoleInit /\ MachineInit /\ SquishInit
    /\ system \in {"console", "machine", "squish"}
    /\ system # "squish" => program = "pty"
MCNext ==
    /\ \/ system = "console" /\ (ConsoleNext \/ PortNext) /\ UNCHANGED <<machineVars, squishVars>>
       \/ system = "machine" /\ MachineNext /\ UNCHANGED <<consoleVars, squishVars>>
       \/ system = "squish" /\ SquishNext /\ UNCHANGED <<consoleVars, machineVars>>
    /\ UNCHANGED system
\* What the modules' specifications call fair, of the one that runs.
Console == system = "console"
Machine == system = "machine"
Squish == system = "squish"
MCSpec ==
    /\ MCInit /\ [][MCNext]_<<consoleVars, machineVars, squishVars, system>>
    /\ \A t \in Printer : WF_consoleVars(Console /\ halted = "no" /\ Puts(t))
    /\ \A t \in Reader : WF_consoleVars(Console /\ halted = "no" /\ ReadKey(t))
    /\ WF_consoleVars(Console /\ halted = "no" /\ serial_init_queue)
    /\ WF_consoleVars(Console /\ halted = "no" /\ serial_interrupt)
    /\ WF_consoleVars(Console /\ PortNext)
    /\ WF_machineVars(Machine /\ Interrupt) /\ WF_machineVars(Machine /\ InHandler)
    /\ WF_machineVars(Machine /\ Resume) /\ WF_machineVars(Machine /\ Request(0))
    /\ WF_squishVars(Squish /\ SquishStep) /\ WF_squishVars(Squish /\ Send) /\ WF_squishVars(Squish /\ Signal)

\* Asked of one of them alone: in the others nobody prints and no time passes.
AllPrinted == Console => OutputDrains
TimeGoesOn == Machine => TicksGoOn
=============================================================================
