----------------------------- MODULE Extension ------------------------------
(***************************************************************************)
(* The event handler of the extension backend (extension/network.rs): a    *)
(* configured command is run for every lease event, with the peer's subnet *)
(* and address. What the commands do is the operator's; here they keep     *)
(* the set of subnets they were run for.                                   *)
(***************************************************************************)
EXTENDS LeaseWatcher

VARIABLES
  extCmds,      (* which of SubnetAddCommand ("add") and                   *)
                (* SubnetRemoveCommand ("del") are configured              *)
  extState      (* address the commands know for each subnet               *)

extVars == <<extCmds, extState>>

ExtensionInit ==
  /\ extCmds \in SUBSET {"add", "del"}
  /\ extState = [d \in Subnets |-> None]

\* handle_subnet_events, run_event_command, run_cmd: nothing is run for
\* another backend's lease, without a command, or for data that is not a
\* string; a command that cannot be run or fails is logged.
Runs(e) ==
  /\ (IF e.type = "Added" THEN "add" ELSE "del") \in extCmds
  /\ e.lease.attrs.kind \notin {"foreign", "half"}

ExtRun ==
  /\ Take
  /\ Runs(ev')
  /\ \/ extState' = [extState EXCEPT ![Key(ev'.lease)] =
                       IF ev'.type = "Added" THEN ev'.lease.attrs.ip ELSE None]
        /\ UNCHANGED faults
     \/ UNCHANGED extState /\ Fault
  /\ UNCHANGED <<step, extCmds>>

ExtSkip ==
  /\ Take
  /\ ~Runs(ev')
  /\ UNCHANGED <<step, faults, extVars>>

ExtensionNext == ExtRun \/ ExtSkip
=============================================================================
