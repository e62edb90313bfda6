----------------------------- MODULE ServerLife -----------------------------
(***************************************************************************)
(* What both servers promise of their resources and threads: everything is *)
(* acquired, and every thread started, while the process starts; nothing   *)
(* is acquired or given back while it serves; nothing is given back that a *)
(* thread that runs still needs; a start-up is given up only when no       *)
(* thread runs; and the process returns with all threads over and nothing  *)
(* held.  It may die at any moment and be started again.                   *)
(***************************************************************************)
CONSTANTS
  Threads,
  Needs(_),   \* what a thread uses
  Kept        \* what the process may be given at its start and leave behind
VARIABLES
  phase,      \* "starting", "serving", "stopping", "over" or "dead"
  held,       \* what the process holds
  threads     \* the threads that run
vars == <<phase, held, threads>>

Up == phase \in {"starting", "serving", "stopping"}

Init == phase = "starting" /\ held \subseteq Kept /\ threads = {}

Acquire ==
  /\ phase = "starting" /\ held \subseteq held'
  /\ UNCHANGED <<phase, threads>>

GiveBack ==
  /\ phase \in {"starting", "stopping"}
  /\ held' \subseteq held /\ \A t \in threads : Needs(t) \subseteq held'
  /\ UNCHANGED <<phase, threads>>

Begin ==
  /\ phase = "starting"
  /\ \E t \in Threads \ threads : Needs(t) \subseteq held /\ threads' = threads \cup {t}
  /\ UNCHANGED <<phase, held>>

End ==
  /\ Up /\ \E t \in threads : threads' = threads \ {t}
  /\ UNCHANGED <<phase, held>>

Serve == phase = "starting" /\ phase' = "serving" /\ UNCHANGED <<held, threads>>

GiveUp ==
  /\ phase = "starting" /\ threads = {}
  /\ phase' = "stopping" /\ UNCHANGED <<held, threads>>

Stop == phase = "serving" /\ phase' = "stopping" /\ UNCHANGED <<held, threads>>

Return ==
  /\ phase = "stopping" /\ threads = {}
  /\ phase' = "over" /\ held' \subseteq held \cap Kept /\ threads' = {}

Die == Up /\ phase' = "dead" /\ held' = {} /\ threads' = {}

Again == ~Up /\ phase' = "starting" /\ held' \subseteq Kept /\ threads' = {}

Next ==
  Acquire \/ GiveBack \/ Begin \/ End \/ Serve \/ GiveUp \/ Stop \/ Return \/ Die \/ Again

Spec == Init /\ [][Next]_vars
=============================================================================
