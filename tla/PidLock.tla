------------------------------- MODULE PidLock -------------------------------
(***************************************************************************)
(* The PID lock of scripts/run_daily_trading_routine.py: the invocations   *)
(* of the routine race for one lock file that holds the owner's process    *)
(* id.  A process is identified with its pid.  It makes at most one lock   *)
(* file, so the file at the lock path is identified by who made it: a      *)
(* write to a file that has been unlinked meanwhile does not reach the     *)
(* path.  All invocations are one user's.                                  *)
(***************************************************************************)
EXTENDS Naturals

CONSTANTS
    Procs,     \* invocations of the routine, by pid
    Overlap,   \* may one invocation acquire while another is acquiring?
    PidReuse,  \* may the pid of an ended invocation go to another program?
    None

ASSUME LockAssumption ==
    /\ Overlap \in BOOLEAN
    /\ PidReuse \in BOOLEAN
    /\ None \notin Procs
    /\ None \notin [maker : Procs, pid : Procs \cup {None}]

VARIABLES
    lock,   \* the file at lock_path: who made it and the pid in it, or None
    pc,     \* pc[p]: where p is in acquire_lock, or what has become of it
    seen,   \* seen[p]: existing_pid, what p has read from the lock file
    tries   \* tries[p]: _attempt, the attempts p has made

lockVars == <<lock, pc, seen, tries>>

MaxTries == 2

LockFile == [maker : Procs, pid : Procs \cup {None}]

Acquiring == {"create", "write", "read", "probe", "unlink"}
Ended     == {"skipped", "done", "dead"}
Places    == Acquiring \cup Ended \cup {"new", "running", "leaving", "foreign"}

\* os.kill(pid, 0) finds a process; "foreign" is a program that got the pid.
Alive(p) == pc[p] \in Acquiring \cup {"running", "leaving", "foreign"}

LockInit ==
    /\ lock = None
    /\ pc = [p \in Procs |-> "new"]
    /\ seen = [p \in Procs |-> None]
    /\ tries = [p \in Procs |-> 0]

GoTo(p, place) == pc' = [pc EXCEPT ![p] = place]

-----------------------------------------------------------------------------
Start(p) ==
    /\ pc[p] = "new"
    /\ Overlap \/ \A q \in Procs : pc[q] \notin Acquiring
    /\ GoTo(p, "create")
    /\ tries' = [tries EXCEPT ![p] = 1]
    /\ UNCHANGED <<lock, seen>>

\* os.open(..., O_CREAT | O_EXCL): the file is there, and empty, or it fails.
Create(p) ==
    /\ pc[p] = "create"
    /\ IF lock = None
         THEN lock' = [maker |-> p, pid |-> None] /\ GoTo(p, "write")
         ELSE UNCHANGED lock /\ GoTo(p, "read")
    /\ UNCHANGED <<seen, tries>>

\* MUTANT of Write: the descriptor is closed without writing the pid.
WriteNothing(p) ==
    /\ pc[p] = "write"
    /\ GoTo(p, "running")
    /\ UNCHANGED <<lock, seen, tries>>

\* os.write of the pid, through the descriptor: p has the lock.
Write(p) ==
    /\ pc[p] = "write"
    /\ lock' = IF lock # None /\ lock.maker = p
                 THEN [maker |-> p, pid |-> p] ELSE lock
    /\ GoTo(p, "running")
    /\ UNCHANGED <<seen, tries>>

\* int(read_text()): an empty file, or none any more, counts as stale.
Read(p) ==
    /\ pc[p] = "read"
    /\ IF lock = None \/ lock.pid = None
         THEN GoTo(p, "unlink") /\ UNCHANGED seen
         ELSE GoTo(p, "probe") /\ seen' = [seen EXCEPT ![p] = lock.pid]
    /\ UNCHANGED <<lock, tries>>

\* A foreign program may be another user's: the PermissionError is an OSError, too,
\* and the file counts as stale.
Probe(p) ==
    /\ pc[p] = "probe"
    /\ \/ Alive(seen[p]) /\ GoTo(p, "skipped")
       \/ (~Alive(seen[p]) \/ pc[seen[p]] = "foreign") /\ GoTo(p, "unlink")
    /\ UNCHANGED <<lock, seen, tries>>

\* MUTANT of Unlink: a file that cannot be removed is tried again and again.
UnlinkForever(p) ==
    /\ pc[p] = "unlink"
    /\ GoTo(p, "create")
    /\ UNCHANGED <<lock, seen, tries>>

\* MUTANT of Unlink: the attempt that found a stale file was the last one.
UnlinkAndGiveUp(p) ==
    /\ pc[p] = "unlink"
    /\ lock' = None
    /\ GoTo(p, "skipped")
    /\ UNCHANGED <<seen, tries>>

\* Remove whatever is at the path now, then try again if an attempt is left.
Unlink(p) ==
    /\ pc[p] = "unlink"
    /\ lock' = None
    /\ IF tries[p] < MaxTries
         THEN GoTo(p, "create") /\ tries' = [tries EXCEPT ![p] = @ + 1]
         ELSE GoTo(p, "skipped") /\ UNCHANGED tries
    /\ UNCHANGED seen

\* release_lock, in the finally of run_routine: unlinks whatever is there.
Release(p) ==
    /\ pc[p] = "running"
    /\ lock' = None
    /\ GoTo(p, "leaving")
    /\ UNCHANGED <<seen, tries>>

\* The process reports its summary and exits.
Exit(p) ==
    /\ pc[p] = "leaving"
    /\ GoTo(p, "done")
    /\ UNCHANGED <<lock, seen, tries>>

\* The process is killed; the lock file stays as it is.
Crash(p) ==
    /\ pc[p] \in Acquiring \cup {"running", "leaving"}
    /\ GoTo(p, "dead")
    /\ UNCHANGED <<lock, seen, tries>>

\* The system gives the pid of an ended process to an unrelated one.
GivePid(p) ==
    /\ PidReuse
    /\ pc[p] \in Ended
    /\ GoTo(p, "foreign")
    /\ UNCHANGED <<lock, seen, tries>>

AcquireStep(p) == Create(p) \/ Write(p) \/ Read(p) \/ Probe(p) \/ Unlink(p)

LockNext ==
    \E p \in Procs :
        \/ Start(p) \/ AcquireStep(p)
        \/ Release(p) \/ Exit(p)
        \/ Crash(p) \/ GivePid(p)

LockSpec == LockInit /\ [][LockNext]_lockVars

\* acquire_lock never sleeps and waits for nobody: a process in it is only ever
\* one system call from its next step.  A run itself may take as long as it likes.
LockFairSpec == LockSpec /\ \A p \in Procs : WF_lockVars(AcquireStep(p))

-----------------------------------------------------------------------------
\* Every variable stays in its type; in particular nobody tries more than twice.
LockTypeOK ==
    /\ lock \in LockFile \cup {None}
    /\ pc \in [Procs -> Places]
    /\ seen \in [Procs -> Procs \cup {None}]
    /\ tries \in [Procs -> 0..MaxTries]

\* Two runs are never in progress at once.  The lock gives this when no two
\* acquire_lock calls overlap, whatever invocations died before and wherever,
\* and does not give it when they do.
MutualExclusion ==
    \A p, q \in Procs : pc[p] = "running" /\ pc[q] = "running" => p = q

\* A run in progress is named in the lock file at the path, so the next
\* invocation sees it: nobody unlinks or overwrites the lock of a run.
LockNamesRunner ==
    \A p \in Procs : pc[p] = "running" => lock = [maker |-> p, pid |-> p]

\* An invocation is skipped only because another one is running, or has run and
\* not yet exited: a lock file that a dead one left is replaced, at the first
\* invocation that finds it.
SkippedByRun ==
    [][\A p \in Procs : pc[p] # "skipped" /\ pc'[p] = "skipped" =>
           \E q \in Procs : pc[q] \in {"running", "leaving"}]_lockVars

\* acquire_lock returns, even to a process that contends with others and even
\* if the run that holds the lock never ends.
AcquireReturns ==
    \A p \in Procs : pc[p] \in Acquiring ~> pc[p] \notin Acquiring
=============================================================================
