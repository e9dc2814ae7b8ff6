------------------------------ MODULE MCJobTable ------------------------------
(* Small instances of JobTable for TLC.                                       *)
EXTENDS JobTable

Job(name, lazy, controllable, canFail, oneTime) ==
  [name |-> name, lazy |-> lazy, controllable |-> controllable,
   canFail |-> canFail, oneTime |-> oneTime]

\* A job, one that completes and cannot be controlled, a lazy one, and a second
\* one of the same name, which only handlers can find and whose failure ends the run.
MCConfig == <<Job("a", FALSE, TRUE, TRUE, FALSE),
              Job("b", FALSE, FALSE, TRUE, TRUE),
              Job("c", TRUE, FALSE, TRUE, FALSE),
              Job("c", FALSE, TRUE, FALSE, FALSE)>>

\* Two jobs that can be controlled and may fail.
MCTwoJobs == <<Job("a", FALSE, TRUE, TRUE, FALSE),
               Job("b", FALSE, TRUE, TRUE, FALSE)>>

\* The failure of the first one ends the run.
MCFatal == <<Job("a", FALSE, TRUE, FALSE, FALSE),
             Job("b", FALSE, TRUE, TRUE, FALSE)>>
===============================================================================
