---------------------------- MODULE MCLowappCore ----------------------------
(***************************************************************************)
(* Instances of LowappCore for TLC, and what comments of the source say of *)
(* it that the code does not do.                                           *)
(***************************************************************************)
EXTENDS LowappCore

Command(op, dest) == [op |-> op, dest |-> dest]

(* Messages to a node and to everyone, and pings, one after the other. *)
ExchangeCommands == {Command("SEND", 2), Command("SEND", 255), Command("PING", 2)}

(* A message among the commands that change how the node works. *)
ServiceCommands ==
  {Command("SEND", 2), Command("PING", 2), Command("PUSHRX", 1),
   Command("DISCONNECT", 1), Command("CONNECT", 1)}

(* Broadcasts among resets and the commands of no interest otherwise. *)
ResetCommands ==
  {Command("SEND", 255), Command("RESET", 1), Command("POLLRX", 1),
   Command("OTHER", 1), Command("ERROR", 1)}

(* lowapp_sm.c says that the CAD flag, raised in case a CADTIMEOUT finds   *)
(* the machine outside IDLE, is read when IDLE is entered, and that CAD    *)
(* follows if it is raised.  IDLE never reads it, and stays although the   *)
(* flag is raised and the event is gone.                                   *)
CadFlagHonoured ==
  [][phase = "tx" /\ phase' = "fetch" /\ cadFlag => PendingCad > 0]_vars
=============================================================================
