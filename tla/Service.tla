------------------------------- MODULE Service -------------------------------
(***************************************************************************)
(* What the main process promises (server/server.c) whatever signals and   *)
(* failures there are: one worker at a time, with the configuration that   *)
(* was loaded last; no worker, and nothing loaded, once the server is down.*)
(* A worker may end at any time, and one that has not begun to serve may   *)
(* still take a newer configuration itself.                                *)
(***************************************************************************)
EXTENDS Integers

VARIABLES phase,   \* "starting", "up" or "down"
          disk,    \* the newest configuration there was on disk
          loaded,  \* the configuration that was loaded last; -1 for none
          serving  \* the configuration of the running worker; -1 for none

vars == <<phase, disk, loaded, serving>>

None == -1

Init == phase = "starting" /\ disk = 0 /\ loaded = None /\ serving = None

Edit == disk' = disk + 1 /\ UNCHANGED <<phase, loaded, serving>>

Launch == /\ phase = "starting"
          /\ phase' = "up" /\ loaded' = disk
          /\ UNCHANGED <<disk, serving>>

Reload == phase = "up" /\ loaded' = disk /\ UNCHANGED <<phase, disk, serving>>

Start == /\ phase = "up" /\ serving = None
         /\ serving' = loaded /\ UNCHANGED <<phase, disk, loaded>>

Reread == serving # None /\ serving' = disk /\ UNCHANGED <<phase, disk, loaded>>

WorkerEnds == serving' = None /\ UNCHANGED <<phase, disk, loaded>>

GoDown == phase' = "down" /\ UNCHANGED <<disk, loaded, serving>>

Next == Edit \/ Launch \/ Reload \/ Start \/ Reread \/ WorkerEnds \/ GoDown

Spec == Init /\ [][Next]_vars
=============================================================================
