-------------------------------- MODULE PidFile --------------------------------
(***************************************************************************)
(* The pid file of mittnite: instances that acquire and release it, with   *)
(* crashes, outdated files and foreign processes in between.               *)
(*                                                                         *)
(* A life of mittnite is named by its pid, and a pid may be used again.    *)
(* An inode is named by the life that created it: it never creates another *)
(* one while the first is linked.  f.fd is lost, because Acquire works on  *)
(* a copy of f; Release closes descriptor 0 instead, which has no effect   *)
(* on the file and is left out.                                            *)
(***************************************************************************)
EXTENDS Naturals

CONSTANTS
  Pids,        \* process ids
  Foreign,     \* processes with these pids may not be signalled by mittnite
  Concurrent   \* several instances may be acquiring the file at a time

ASSUME PidFileAssumption ==
  /\ Pids \cap {"none", "empty"} = {}
  /\ Foreign \subseteq Pids
  /\ Concurrent \in BOOLEAN

VARIABLES
  pc,       \* where the mittnite with this pid is, or "none"
  others,   \* pids of processes that are not mittnite
  file,     \* the inode at the path
  written,  \* the inodes that hold the pid of their creator, not nothing
  seen      \* what an instance has read from the file

vars == <<pc, others, file, written, seen>>

Acquiring == {"open", "write", "read", "probe", "remove"}

TypeOK ==
  /\ pc \in [Pids -> Acquiring \cup {"none", "held", "refused", "ended"}]
  /\ others \subseteq Pids
  /\ file \in Pids \cup {"none"}
  /\ written \subseteq Pids
  /\ seen \in [Pids -> Pids \cup {"none", "empty"}]

\* There may be an outdated file, complete or not.
Init ==
  /\ pc = [p \in Pids |-> "none"]
  /\ others = {}
  /\ file \in Pids \cup {"none"}
  /\ written \in SUBSET ({file} \cap Pids)
  /\ seen = [p \in Pids |-> "none"]

-----------------------------------------------------------------------------
Alive == others \cup {p \in Pids : pc[p] # "none"}

\* What a reader finds in the file.
Content == IF file \in written THEN file ELSE "empty"

Goto(p, from, to) ==
  /\ pc[p] = from
  /\ pc' = [pc EXCEPT ![p] = to]
  /\ UNCHANGED others

Begin(p) ==
  /\ p \notin others
  /\ Concurrent \/ \A q \in Pids : pc[q] \notin Acquiring
  /\ Goto(p, "none", "open")
  /\ seen' = [seen EXCEPT ![p] = "none"]
  /\ UNCHANGED <<file, written>>

-----------------------------------------------------------------------------
(* Acquire.                                                                 *)

\* Mutant: without O_EXCL, the file is opened whether it exists or not.
OpensAny(p) ==
  /\ Goto(p, "open", "write")
  /\ file' = p
  /\ written' = written \ {p}
  /\ UNCHANGED seen

\* open with O_CREAT and O_EXCL succeeds.
Creates(p) ==
  /\ file = "none"
  /\ Goto(p, "open", "write")
  /\ file' = p
  /\ written' = written \ {p}
  /\ UNCHANGED seen

Exists(p) ==
  /\ file # "none"
  /\ Goto(p, "open", "read")
  /\ UNCHANGED <<file, written, seen>>

Writes(p) ==
  /\ Goto(p, "write", "held")
  /\ written' = written \cup {p}
  /\ UNCHANGED <<file, seen>>

\* The disk is full: Acquire returns an error and leaves the empty file.
WriteFails(p) ==
  /\ Goto(p, "write", "refused")
  /\ UNCHANGED <<file, written, seen>>

-----------------------------------------------------------------------------
(* removePIDFileIfOutdated.                                                 *)

Reads(p) ==
  /\ file # "none"
  /\ Goto(p, "read", "probe")
  /\ seen' = [seen EXCEPT ![p] = Content]
  /\ UNCHANGED <<file, written>>

ReadFails(p) ==
  /\ file = "none"
  /\ Goto(p, "read", "refused")
  /\ UNCHANGED <<file, written, seen>>

\* What was read is not a number.
ParseFails(p) ==
  /\ seen[p] = "empty"
  /\ Goto(p, "probe", "refused")
  /\ UNCHANGED <<file, written, seen>>

\* Mutant: any pid in the file is taken for that of a running process.
FindsPid(p) ==
  /\ seen[p] # "empty"
  /\ Goto(p, "probe", "refused")
  /\ UNCHANGED <<file, written, seen>>

\* The probe with signal 0 succeeds.
FindsAlive(p) ==
  /\ seen[p] \in Alive \ (Foreign \ {p})
  /\ Goto(p, "probe", "refused")
  /\ UNCHANGED <<file, written, seen>>

\* Mutant: the result of the probe is ignored.
FindsAnything(p) ==
  /\ seen[p] # "empty"
  /\ Goto(p, "probe", "remove")
  /\ UNCHANGED <<file, written, seen>>

\* It fails, be it because there is no such process or for want of permission.
FindsDead(p) ==
  /\ seen[p] # "empty" /\ seen[p] \notin Alive \ (Foreign \ {p})
  /\ Goto(p, "probe", "remove")
  /\ UNCHANGED <<file, written, seen>>

\* The file is removed, and Acquire calls itself.
Removes(p) ==
  /\ file # "none"
  /\ Goto(p, "remove", "open")
  /\ file' = "none"
  /\ UNCHANGED <<written, seen>>

RemoveFails(p) ==
  /\ file = "none"
  /\ Goto(p, "remove", "refused")
  /\ UNCHANGED <<file, written, seen>>

Acquire(p) ==
  \/ Creates(p) \/ Exists(p) \/ Writes(p) \/ WriteFails(p)
  \/ Reads(p) \/ ReadFails(p) \/ ParseFails(p) \/ FindsAlive(p) \/ FindsDead(p)
  \/ Removes(p) \/ RemoveFails(p)

-----------------------------------------------------------------------------
(* Release and the end of a life.                                           *)

\* The file is removed, whoever's it is; if there is none, that is logged.
Release(p) ==
  /\ Goto(p, "held", "ended")
  /\ file' = "none"
  /\ UNCHANGED <<written, seen>>

Exit(p) ==
  /\ pc[p] \in {"refused", "ended"}
  /\ pc' = [pc EXCEPT ![p] = "none"]
  /\ UNCHANGED <<others, file, written, seen>>

\* SIGKILL, or the container is stopped: the deferred Release is not executed.
Crash(p) ==
  /\ pc[p] # "none"
  /\ pc' = [pc EXCEPT ![p] = "none"]
  /\ UNCHANGED <<others, file, written, seen>>

OtherStarts(p) ==
  /\ p \notin Alive
  /\ others' = others \cup {p}
  /\ UNCHANGED <<pc, file, written, seen>>

OtherEnds(p) ==
  /\ p \in others
  /\ others' = others \ {p}
  /\ UNCHANGED <<pc, file, written, seen>>

Next ==
  \E p \in Pids :
    \/ Begin(p) \/ Acquire(p) \/ Release(p) \/ Exit(p) \/ Crash(p)
    \/ OtherStarts(p) \/ OtherEnds(p)

Spec == Init /\ [][Next]_vars

\* An instance that acquires the file does not stop in the middle.
FairSpec == Spec /\ \A p \in Pids : WF_vars(Acquire(p))

-----------------------------------------------------------------------------
(* Properties.                                                              *)

Holders == {p \in Pids : pc[p] = "held"}

\* TestPidFileCannotBeAcquiredWhileAlreadyHeld: two instances never hold the
\* file at the same time.
AtMostOneHolder == \A p, q \in Holders : p = q

\* As long as an instance holds the file, it is there with its pid, so that
\* whoever comes next, and every script that reads it, finds the instance.
HolderIsNamed == \A p \in Holders : file = p /\ p \in written

\* Recovery from a crash: an instance that finds the file of a process that has
\* ended gets it, through probe, removal and second attempt, unless it is killed,
\* cannot write, or the pid of that process is in use again.
OutdatedYields ==
  \A p \in Pids :
    pc[p] = "open" /\ file \in written \ Alive
      ~> \/ pc[p] \in {"held", "none"}
         \/ pc[p] = "refused" /\ file = p
         \/ file \in others

\* TestPidFileCanBeAcquiredWhenOutdatedFileExists: a file that is left over by
\* no process that runs keeps no instance from starting.
OutdatedIsReplaced ==
  [][\A p \in Pids :
       pc[p] = "probe" /\ pc'[p] = "refused" => Alive # {p}]_vars

-----------------------------------------------------------------------------
(* The inductive invariant behind AtMostOneHolder and HolderIsNamed, for     *)
(* instances that acquire the file one after the other and may signal each   *)
(* other.                                                                    *)

\* The file is that of the instance that holds it or has just created it; one
\* that is about to remove it has seen that it belongs to neither.
FileHasOwner ==
  \A p \in Pids :
    /\ pc[p] \in {"write", "held"} => file = p
    /\ pc[p] = "held" => p \in written
    /\ pc[p] = "remove" => \A q \in Pids : pc[q] \notin {"write", "held"}
    /\ pc[p] = "probe" /\ seen[p] # "empty" =>
         \A q \in Holders : seen[p] = q

OneAcquires == \A p, q \in Pids : pc[p] \in Acquiring /\ pc[q] \in Acquiring => p = q

OneInstance == OneAcquires /\ FileHasOwner
=============================================================================
