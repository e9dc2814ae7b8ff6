------------------------------ MODULE Lifecycle -------------------------------
(***************************************************************************)
(* What a managed job promises to those who only see its processes: there  *)
(* is never more than one, a stop that has taken effect is not undone, and *)
(* mittnite does not end before the process has.  Runner implements it for *)
(* clients that do not start the job themselves.                           *)
(***************************************************************************)
CONSTANTS
  Pids,  \* process ids
  None   \* no process, which is no member of Pids

VARIABLES
  process,  \* the live process of the job
  down,     \* the job was stopped for good
  over      \* mittnite has ended, and has waited for the job

lifecycleVars == <<process, down, over>>

LifecycleTypeOK ==
  /\ process \in Pids \cup {None}
  /\ down \in BOOLEAN
  /\ over \in BOOLEAN

LifecycleInit ==
  /\ process = None
  /\ down = FALSE
  /\ over = FALSE

\* A process is started, for the first time or again.
Starts ==
  /\ process = None /\ ~down /\ ~over
  /\ process' \in Pids
  /\ UNCHANGED <<down, over>>

\* The process ends.  That may be what a stop has waited for.
Ends ==
  /\ process # None
  /\ process' = None
  /\ down' \in BOOLEAN
  /\ UNCHANGED over

\* A stop takes effect on a job that has no process.
GoesDown ==
  /\ process = None
  /\ down' = TRUE
  /\ UNCHANGED <<process, over>>

Finishes ==
  /\ process = None
  /\ over' = TRUE
  /\ UNCHANGED <<process, down>>

LifecycleNext == Starts \/ Ends \/ GoesDown \/ Finishes

LifecycleSpec == LifecycleInit /\ [][LifecycleNext]_lifecycleVars
===============================================================================
