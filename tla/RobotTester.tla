----------------------------- MODULE RobotTester -----------------------------
(***************************************************************************)
(* skills/mt5-robot-tester/scripts/mt5_batch_tester.py: robots wait in a   *)
(* candidates folder; a run tests each in up to three rounds on a terminal *)
(* (one per data folder), checkpoints every round, and files the robot in  *)
(* the in-testing folder, a finalist also in the finalists folder.         *)
(*                                                                         *)
(* The lock of a data folder is an OS lock: it goes with the process.      *)
(* Runs follow one another; each resumes the last one or starts afresh,    *)
(* and may be killed or interrupted at any step; an interrupt runs the     *)
(* handlers of the files it hits.  Copies are not atomic, writes of        *)
(* state.json and learnings.json are.  The rounds' many tests are one      *)
(* each, and their metrics only what the gates make of them.               *)
(***************************************************************************)
EXTENDS Naturals

CONSTANTS
    Robots,
    MaxKills,  \* bound: how many runs are killed or interrupted
    NoRobot

ASSUME TesterAssumption == NoRobot \notin Robots /\ MaxKills \in Nat

VARIABLES
    step,       \* where the run is; "off" when none runs
    robot,      \* the robot it works on
    todo,       \* the robots it still has to take
    memory,     \* memory[r]: the run's state of r
    disk,       \* disk[r]: state.json
    learnt,     \* learnt[r]: the verdict in learnings.json
    candidates, \* the folder; no copy in it is ever partial
    testing,    \* testing[r]: r in the in-testing folder: none, part or whole
    finalists,  \* finalists[r]: r in the finalists folder
    sets,       \* the robots whose .set, or its beginning, is in the finalists folder
    orphan,     \* a terminal that outlived its test: none, unconfirmed, abandoned
    blocker,    \* the .blocked file
    kills,      \* (bound)
    dropped     \* (properties) robots whose copy was removed after their candidate

folders == <<candidates, testing, finalists, sets>>
testerVars == <<step, robot, todo, memory, disk, learnt, folders, orphan, blocker, kills, dropped>>

\* What state.json says of a robot: the rounds it has passed through, what their
\* gates make of it, the verdict it was given.  current: does its fingerprint fit
\* what the robot, its .set and the configuration are now?
Absent == [status |-> "absent", rounds |-> 0, gates |-> "open", verdict |-> "none",
           optimized |-> FALSE, current |-> TRUE]
Untested == [Absent EXCEPT !.status = "pending"]

TesterInit ==
    /\ step = "off" /\ robot = NoRobot /\ todo = {}
    /\ memory = [r \in Robots |-> Absent]
    /\ disk = [r \in Robots |-> Absent]
    /\ learnt = [r \in Robots |-> "none"]
    /\ candidates = Robots
    /\ testing = [r \in Robots |-> "none"]
    /\ finalists = [r \in Robots |-> "none"]
    /\ sets = {}
    /\ orphan = "none" /\ blocker = FALSE
    /\ kills = 0 /\ dropped = {}

Now(place) == step = place
To(place) == step' = place
Remember(entry) == memory' = [memory EXCEPT ![robot] = entry]
Save(entry) == Remember(entry) /\ disk' = memory'
Me == memory[robot]
Leave == /\ To("off") /\ robot' = NoRobot /\ todo' = {}
         /\ memory' = [r \in Robots |-> Absent]

-----------------------------------------------------------------------------
\* MUTANT of LaunchRun: the lock alone is asked.
LaunchOnLock(resume) ==
    /\ Now("off") /\ candidates # {}
    /\ To("next") /\ todo' = candidates
    /\ memory' = IF resume THEN disk ELSE [r \in Robots |-> Absent]
    /\ UNCHANGED <<robot, disk, learnt, folders, orphan, blocker, kills, dropped>>

\* The lock is free, since no run is on; a blocker refuses it all the same.
LaunchRun(resume) ==
    /\ Now("off") /\ candidates # {}
    /\ ~blocker
    /\ To("next") /\ todo' = candidates
    /\ memory' = IF resume THEN disk ELSE [r \in Robots |-> Absent]
    /\ UNCHANGED <<robot, disk, learnt, folders, orphan, blocker, kills, dropped>>

\* A robot is taken up where its checkpoint left it, if that is current.
TakeRobot(r) ==
    /\ Now("next") /\ r \in todo
    /\ todo' = todo \ {r}
    /\ robot' = r
    /\ LET known == memory[r].status # "absent" /\ memory[r].current
           entry == IF known THEN memory[r] ELSE Untested
       IN  /\ memory' = [memory EXCEPT ![r] = entry]
           /\ disk' = IF known THEN disk ELSE memory'
           /\ To(IF entry.status = "done" THEN "next" ELSE "round")
    /\ UNCHANGED <<learnt, folders, orphan, blocker, kills, dropped>>

EndRun ==
    /\ Now("next") /\ todo = {}
    /\ Leave
    /\ UNCHANGED <<disk, learnt, folders, orphan, blocker, kills, dropped>>

\* A round that is not in the checkpoint is tested; without inputs to optimize
\* the third one is made up from the second.
StartTest ==
    /\ Now("round") /\ Me.rounds < 3 /\ Me.gates = "open"
    /\ To("testing")
    /\ UNCHANGED <<robot, todo, memory, disk, learnt, folders, orphan, blocker, kills, dropped>>

SkipRound3 ==
    /\ Now("round") /\ Me.rounds = 2
    /\ \E g \in {"finalist", "rejected"} :
           Save([Me EXCEPT !.rounds = 3, !.gates = g, !.optimized = FALSE])
    /\ UNCHANGED <<step, robot, todo, learnt, folders, orphan, blocker, kills, dropped>>

\* What the gates can say after a round.
Gates(round) == CASE round = 1 -> {"open", "rejected"}
                  [] round = 2 -> {"open"}
                  [] round = 3 -> {"finalist", "rejected"}

\* The terminal exits and its report is good.
TestEnds ==
    /\ Now("testing")
    /\ \E g \in Gates(Me.rounds + 1) :
           Save([Me EXCEPT !.rounds = @ + 1, !.gates = g, !.optimized = (Me.rounds = 2),
                           !.status = IF Me.rounds = 0 THEN "round1" ELSE @])
    /\ To("round")
    /\ UNCHANGED <<robot, todo, learnt, folders, orphan, blocker, kills, dropped>>

\* It fails, its report is bad, or it is stopped at the timeout.  The first
\* round returns the error, the others finish with it.
TestFails ==
    /\ Now("testing")
    /\ Save([Me EXCEPT !.status = "error",
                       !.verdict = IF Me.rounds = 0 THEN @ ELSE "error"])
    /\ learnt' = [learnt EXCEPT ![robot] = "error"]
    /\ To("next")
    /\ UNCHANGED <<robot, todo, folders, orphan, blocker, kills, dropped>>

\* It cannot be stopped: the data folder is blocked while the lock is still held.
Unconfirmed ==
    /\ Now("testing")
    /\ orphan' = "unconfirmed"
    /\ To("blocking")
    /\ UNCHANGED <<robot, todo, memory, disk, learnt, folders, blocker, kills, dropped>>

Block ==
    /\ Now("blocking")
    /\ blocker' = TRUE
    /\ disk' = [memory EXCEPT ![robot].status = "error", ![robot].verdict = "error"]
    /\ Leave
    /\ UNCHANGED <<learnt, folders, orphan, kills, dropped>>

\* The gates of the first or the last round, as the checkpoint has them.
GiveVerdict ==
    /\ Now("round") /\ Me.gates # "open"
    /\ Remember([Me EXCEPT !.verdict = Me.gates])
    /\ To("learn")
    /\ UNCHANGED <<robot, todo, disk, learnt, folders, orphan, blocker, kills, dropped>>

-----------------------------------------------------------------------------
\* _finish: what was learnt is saved before the robot is moved.
Learn ==
    /\ Now("learn")
    /\ learnt' = [learnt EXCEPT ![robot] = Me.verdict]
    /\ To("check")
    /\ UNCHANGED <<robot, todo, memory, disk, folders, orphan, blocker, kills, dropped>>

\* _move_bot refuses to overwrite; and any step of it may fail.
Taken ==
    \/ testing[robot] # "none"
    \/ Me.verdict = "finalist" /\ finalists[robot] # "none"
    \/ Me.verdict = "finalist" /\ Me.optimized /\ robot \in sets

NotMoved ==
    /\ Save([Me EXCEPT !.status = "move_error"])
    /\ learnt' = [learnt EXCEPT ![robot] = "error"]
    /\ To("next")

CheckFolders ==
    /\ Now("check")
    /\ IF Taken
         THEN NotMoved
         ELSE /\ To(IF Me.verdict = "finalist" THEN "copy_finalist" ELSE "copy_testing")
              /\ UNCHANGED <<memory, disk, learnt>>
    /\ UNCHANGED <<robot, todo, folders, orphan, blocker, kills, dropped>>

\* _copy_exclusive: the file is there before its content.
CopyFinalist ==
    /\ Now("copy_finalist")
    /\ finalists' = [finalists EXCEPT ![robot] = IF @ = "none" THEN "part" ELSE "whole"]
    /\ To(IF finalists[robot] = "none" THEN "copy_finalist"
          ELSE IF Me.optimized THEN "write_set" ELSE "copy_testing")
    /\ UNCHANGED <<robot, todo, memory, disk, learnt, candidates, testing, sets, orphan,
                   blocker, kills, dropped>>

WriteSet ==
    /\ Now("write_set")
    /\ sets' = sets \cup {robot}
    /\ To("copy_testing")
    /\ UNCHANGED <<robot, todo, memory, disk, learnt, candidates, testing, finalists, orphan,
                   blocker, kills, dropped>>

CopyTesting ==
    /\ Now("copy_testing")
    /\ testing' = [testing EXCEPT ![robot] = IF @ = "none" THEN "part" ELSE "whole"]
    /\ To(IF testing[robot] = "none" THEN "copy_testing" ELSE "unlink")
    /\ UNCHANGED <<robot, todo, memory, disk, learnt, candidates, finalists, sets, orphan,
                   blocker, kills, dropped>>

\* MUTANT of UnlinkCandidate: the source goes before its copy is complete.
UnlinkEarly ==
    /\ Now("copy_testing") \/ Now("unlink")
    /\ candidates' = candidates \ {robot}
    /\ To(IF Now("unlink") THEN "done" ELSE "copy_testing")
    /\ UNCHANGED <<robot, todo, memory, disk, learnt, testing, finalists, sets, orphan,
                   blocker, kills, dropped>>

UnlinkCandidate ==
    /\ Now("unlink")
    /\ candidates' = candidates \ {robot}
    /\ To("done")
    /\ UNCHANGED <<robot, todo, memory, disk, learnt, testing, finalists, sets, orphan,
                   blocker, kills, dropped>>

\* An OSError before the candidate is gone: what was made is removed, as far as
\* that succeeds.
MoveFails ==
    /\ step \in {"copy_finalist", "write_set", "copy_testing", "unlink"}
    /\ testing' \in {testing, [testing EXCEPT ![robot] = "none"]}
    /\ finalists' \in {finalists, [finalists EXCEPT ![robot] =
                                       IF Me.verdict = "finalist" THEN "none" ELSE @]}
    /\ sets' \in {sets, IF Me.verdict = "finalist" /\ Me.optimized
                          THEN sets \ {robot} ELSE sets}
    /\ NotMoved
    /\ UNCHANGED <<robot, todo, candidates, orphan, blocker, kills, dropped>>

SaveDone ==
    /\ Now("done")
    /\ Save([Me EXCEPT !.status = "done"])
    /\ To("next")
    /\ UNCHANGED <<robot, todo, learnt, folders, orphan, blocker, kills, dropped>>

\* _save_state raises; the loop records an error and goes on.
SaveFails ==
    /\ Now("done")
    /\ Save([Me EXCEPT !.status = "error", !.verdict = "error"])
    /\ learnt' = [learnt EXCEPT ![robot] = "error"]
    /\ To("next")
    /\ UNCHANGED <<robot, todo, folders, orphan, blocker, kills, dropped>>

-----------------------------------------------------------------------------
\* The run ends where it is; a terminal it has started and not seen exit lives on,
\* unless an interrupt could stop it.
Stop ==
    /\ step # "off" /\ kills < MaxKills
    /\ kills' = kills + 1
    /\ orphan' \in IF Now("testing") THEN {"none", "abandoned"}
                  ELSE IF Now("blocking") THEN {"abandoned"} ELSE {orphan}
    /\ Leave
    /\ UNCHANGED <<disk, learnt, blocker>>

\* It is killed, interrupted where it makes no file, or cannot write the blocker.
KillRun == Stop /\ UNCHANGED <<folders, dropped>>

\* A KeyboardInterrupt meets the except BaseException of the copy that is being made,
\* which removes it.  That of the copy in the in-testing folder covers the unlink of
\* the candidate as well: when the candidate is gone already, both are.
InterruptRun ==
    /\ Stop
    /\ \/ /\ Now("copy_finalist")
          /\ finalists' = [finalists EXCEPT ![robot] = "none"]
          /\ UNCHANGED <<candidates, testing, dropped>>
       \/ /\ Now("copy_testing") \/ Now("unlink")
          /\ testing' = [testing EXCEPT ![robot] = "none"]
          /\ \/ UNCHANGED <<candidates, dropped>>
             \/ /\ Now("unlink")
                /\ candidates' = candidates \ {robot}
                /\ dropped' = dropped \cup {robot}
          /\ UNCHANGED finalists
    /\ UNCHANGED sets

\* Somebody changes the configuration, a robot or its .set between runs.
EditInputs ==
    /\ Now("off")
    /\ disk' = [r \in Robots |-> IF disk[r].status = "absent" THEN disk[r]
                                 ELSE [disk[r] EXCEPT !.current = FALSE]]
    /\ UNCHANGED <<step, robot, todo, memory, learnt, folders, orphan, blocker, kills, dropped>>

\* The terminal ends at last; the operator makes sure of it and unblocks.
TerminalExits ==
    /\ orphan # "none"
    /\ orphan' = "none"
    /\ UNCHANGED <<step, robot, todo, memory, disk, learnt, folders, blocker, kills, dropped>>

Unblock ==
    /\ Now("off") /\ blocker /\ orphan = "none"
    /\ blocker' = FALSE
    /\ UNCHANGED <<step, robot, todo, memory, disk, learnt, folders, orphan, kills, dropped>>

TesterNext ==
    \/ \E resume \in BOOLEAN : LaunchRun(resume)
    \/ \E r \in Robots : TakeRobot(r)
    \/ EndRun
    \/ StartTest \/ SkipRound3 \/ TestEnds \/ TestFails
    \/ Unconfirmed \/ Block
    \/ GiveVerdict
    \/ Learn \/ CheckFolders
    \/ CopyFinalist \/ WriteSet \/ CopyTesting \/ UnlinkCandidate
    \/ MoveFails \/ SaveDone \/ SaveFails
    \/ KillRun \/ InterruptRun \/ EditInputs \/ TerminalExits \/ Unblock

TesterSpec == TesterInit /\ [][TesterNext]_testerVars

-----------------------------------------------------------------------------
States == [status : {"absent", "pending", "round1", "error", "move_error", "done"},
           rounds : 0..3, gates : {"open", "finalist", "rejected"},
           verdict : {"none", "error", "finalist", "rejected"},
           optimized : BOOLEAN, current : BOOLEAN]

TesterTypeOK ==
    /\ robot \in Robots \cup {NoRobot} /\ todo \subseteq Robots
    /\ memory \in [Robots -> States] /\ disk \in [Robots -> States]
    /\ learnt \in [Robots -> {"none", "error", "finalist", "rejected"}]
    /\ candidates \subseteq Robots /\ sets \subseteq Robots /\ dropped \subseteq Robots
    /\ testing \in [Robots -> {"none", "part", "whole"}]
    /\ finalists \in [Robots -> {"none", "part", "whole"}]
    /\ orphan \in {"none", "unconfirmed", "abandoned"}

\* Whatever fails and wherever a run is killed or interrupted, the verdict of a
\* robot that has left the candidates was learnt before, and the robot is whole in
\* the in-testing folder; but when an interrupt comes between the unlink of the
\* candidate and the end of its handler, only a finalist's other copy is left.  A
\* finalist that state.json calls done is in the finalists folder, whole and with
\* the .set it was optimized to.
NoRobotLost ==
    \A r \in Robots :
        /\ r \notin candidates =>
               /\ learnt[r] # "none"
               /\ testing[r] = "whole" \/ r \in dropped
               /\ learnt[r] = "finalist" => finalists[r] = "whole"
        /\ disk[r].status = "done" =>
               /\ r \notin candidates
               /\ disk[r].verdict = "finalist" =>
                      /\ finalists[r] = "whole"
                      /\ disk[r].optimized => r \in sets

\* No test is started on a data folder whose terminal could not be stopped, until
\* the operator has seen it end: not by the run that failed to stop it, not by a
\* later one, not after the lock is gone.
TerminalAlone == step = "testing" => orphan # "unconfirmed"
=============================================================================
