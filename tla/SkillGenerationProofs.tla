------------------------ MODULE SkillGenerationProofs ------------------------
(***************************************************************************)
(* What the two kinds of runs keep when no two launches look at the lock   *)
(* at the same time: the backlog is the promised one, attempts and pull    *)
(* requests are bounded, and the tree is left ready, for any ideas, any    *)
(* number of processes, and runs killed at any step.                       *)
(***************************************************************************)
EXTENDS SkillGeneration, TLAPS

Entries == [status : Statuses, retries : Nat]

\* Places of a daily run that has chosen an idea, up to where it rereads the backlog.
Working == OnBranch \cup {"gate", "find_pr", "branch", "record"}

\* The lock holds: one run at a time is past its launch, and its pid is in the file.
OneActive ==
    /\ \A p, q \in Procs : pc[p] # "idle" /\ pc[q] # "idle" => p = q
    /\ \A p \in Procs : pc[p] \notin {"idle", "locking"} => lock = p

\* A daily run works on one open idea, and has a verdict when it is to record one.
Works(d) ==
    /\ pc[d] \in {"idle", "locking", "select"} => ~created[d] /\ verdict[d] = None
    /\ pc[d] \in Working \cup {"replace"} => chosen[d] \in Ideas /\ Promised!Open(backlog[chosen[d]])
    /\ pc[d] \in Working \ {"rollback", "return", "record"} => verdict[d] = None
    /\ pc[d] = "rollback" => verdict[d] \in Retryable \cup {"review_failed"}
    /\ pc[d] = "return" => verdict[d] = "completed"
    /\ pc[d] \in {"record", "replace"} => verdict[d] \in Verdicts

\* What a run is about to write is made from the backlog as it is now, or from none.
DraftCurrent ==
    \A p \in Procs : IF pc[p] \in {"save", "replace"} THEN draft[p] \in {backlog, Unread}
                                                      ELSE draft[p] = None

\* The tree is on the branch of the run that made it, and holds its skill at most;
\* without a branch of a run it is ready, if nothing has excused it.
TreeFits(d) ==
    /\ pc[d] \in {"find_pr", "branch"} => SafeTree
    /\ pc[d] \in OnBranch =>
           /\ created[d] /\ tree.branch = chosen[d] /\ tree.skill \subseteq {chosen[d]}
    /\ pc[d] \in {"commit", "push", "open", "return"} => ~tree.stray
    /\ pc[d] \in {"push", "open", "return"} => tree.skill = {}
    /\ pc[d] \in {"record", "replace", "finish"} /\ created[d] =>
           \/ excused
           \/ pc[d] \in {"record", "replace"} /\ verdict[d] = "unexpected_changes"
           \/ tree.skill = {} /\ ~tree.stray
    /\ created[d] => pc[d] \in OnBranch \cup {"record", "replace", "finish"}

TreeRests ==
    /\ tree.branch = Main => ~tree.commit
    /\ ~excused /\ (\A d \in Daily : ~created[d]) => SafeTree /\ ~tree.commit

\* An attempt that started the designer, and one whose pull request is to be recorded.
Designed(d) ==
    \/ pc[d] \in OnBranch \ {"design"}
    \/ pc[d] \in {"record", "replace"} /\ verdict[d] # "pr_open"
Opened(d) == pc[d] \in {"return", "record", "replace"} /\ verdict[d] = "completed"

\* The retries of an idea count its attempts, but for one at work or one that closed
\* it; its recorded pull request is the one that completed it.
CountFits(i, designed, opened) ==
    /\ backlog[i].status \notin Verdicts => backlog[i].retries = 0
    /\ backlog[i].retries <= IF backlog[i].status \in Retryable THEN MaxRetries + 1 ELSE MaxRetries
    /\ designs[i] <= backlog[i].retries
                       + (IF designed \/ backlog[i].status \in Verdicts \ Retryable THEN 1 ELSE 0)
    /\ designed => designs[i] # 0
    /\ prs[i] = IF opened \/ backlog[i].status = "completed" THEN 1 ELSE 0

CountsFit ==
    \A i \in Ideas :
        CountFits(i, \E d \in Daily : chosen[d] = i /\ Designed(d),
                     \E d \in Daily : chosen[d] = i /\ Opened(d))

GenInv ==
    /\ GenTypeOK
    /\ OneActive
    /\ \A d \in Daily : Works(d) /\ TreeFits(d)
    /\ DraftCurrent
    /\ TreeRests
    /\ CountsFit

LEMMA GenInitInv == GenInit => GenInv
<1> SUFFICES ASSUME GenInit PROVE GenInv
  OBVIOUS
<1> USE GenAssumption
<1>1. GenTypeOK
  <2>1. CleanTree \in [branch : Ideas \cup {Main}, commit : BOOLEAN, skill : SUBSET Ideas,
                       stray : BOOLEAN, journal : BOOLEAN]
    BY DEF CleanTree
  <2>2. [here |-> {}, origin |-> {}] \in [here : SUBSET Ideas, origin : SUBSET Ideas]
    OBVIOUS
  <2>3. cuts \in 0..MaxCuts
    BY DEF GenInit
  <2>4. "absent" \in Statuses /\ "idle" \in Places
    BY DEF Statuses, Places
  <2>5. QED BY <2>1, <2>2, <2>3, <2>4 DEF GenInit, GenTypeOK, Nothing, Zeros
<1>2. OneActive /\ DraftCurrent
  BY DEF GenInit, OneActive, DraftCurrent, Procs
<1>3. \A d \in Daily : Works(d) /\ TreeFits(d)
  BY DEF GenInit, Works, TreeFits, Working, OnBranch, Procs
<1>4. TreeRests
  BY DEF GenInit, TreeRests, SafeTree, CleanTree
<1>5. CountsFit
  BY DEF GenInit, CountsFit, CountFits, Designed, Opened, OnBranch, Procs, Verdicts, Retryable,
         Nothing, Zeros
<1>6. QED BY <1>1, <1>2, <1>3, <1>4, <1>5 DEF GenInv

-----------------------------------------------------------------------------
(* One run at a time: what the others contribute to the invariant.         *)

LEMMA OthersIdle ==
    ASSUME GenInv, NEW p \in Procs, pc[p] # "idle", NEW q \in Procs, q # p
    PROVE  pc[q] = "idle"
BY DEF GenInv, OneActive

\* While d runs, the counts are about the attempt it is at.
LEMMA CountsOfOne ==
    ASSUME GenInv, NEW d \in Daily, pc[d] # "idle", NEW i \in Ideas
    PROVE  CountFits(i, chosen[d] = i /\ Designed(d), chosen[d] = i /\ Opened(d))
<1>1. \A e \in Daily : Designed(e) \/ Opened(e) => e = d
  BY OthersIdle DEF Designed, Opened, OnBranch, Procs
<1>2. (\E e \in Daily : chosen[e] = i /\ Designed(e)) <=> (chosen[d] = i /\ Designed(d))
  BY <1>1
<1>3. (\E e \in Daily : chosen[e] = i /\ Opened(e)) <=> (chosen[d] = i /\ Opened(d))
  BY <1>1
<1>4. QED BY <1>2, <1>3 DEF GenInv, CountsFit, CountFits

\* A step of the one daily run that is on: what it has to keep.
LEMMA DailySteps ==
    ASSUME GenInv, NEW d \in Daily, pc[d] \in Working \cup {"select", "replace"},
           NEW place \in Working \cup {"replace", "finish"}, GoTo(d, place), UNCHANGED lock,
           \A e \in Daily \ {d} : UNCHANGED <<chosen[e], verdict[e], created[e]>>,
           \A q \in Procs \ {d} : draft'[q] = draft[q],
           IF place = "replace" THEN draft'[d] \in {backlog', Unread} ELSE draft'[d] = None,
           GenTypeOK', Works(d)', TreeFits(d)', TreeRests',
           \A i \in Ideas : CountFits(i, chosen[d] = i /\ Designed(d), chosen[d] = i /\ Opened(d))'
    PROVE  GenInv'
<1>1. d \in Procs /\ pc \in [Procs -> Places] /\ pc[d] \notin {"idle", "locking"}
  BY DEF Procs, GenInv, GenTypeOK, Working, OnBranch
<1>2. pc'[d] = place /\ place \notin {"idle", "locking", "save"}
      /\ \A q \in Procs \ {d} : pc[q] = "idle" /\ pc'[q] = "idle"
  BY <1>1, OthersIdle DEF GoTo, Working, OnBranch
<1>3. OneActive'
  BY <1>1, <1>2 DEF GenInv, OneActive
<1>4. \A e \in Daily \ {d} : Works(e)' /\ TreeFits(e)'
  BY <1>2 DEF GenInv, Works, TreeFits, Working, OnBranch, Procs
<1>5. DraftCurrent'
  <2>1. \A q \in Procs \ {d} : draft'[q] = None
    BY <1>2 DEF GenInv, DraftCurrent
  <2>2. QED BY <1>2, <2>1 DEF DraftCurrent
<1>6. CountsFit'
  <2> SUFFICES ASSUME NEW i \in Ideas
               PROVE  CountFits(i, \E e \in Daily : chosen[e] = i /\ Designed(e),
                                   \E e \in Daily : chosen[e] = i /\ Opened(e))'
    BY DEF CountsFit
  <2>1. \A e \in Daily : Designed(e)' \/ Opened(e)' => e = d
    BY <1>2 DEF Designed, Opened, OnBranch, Procs
  <2>2. (\E e \in Daily : chosen[e] = i /\ Designed(e))' <=> (chosen[d] = i /\ Designed(d))'
    BY <2>1
  <2>3. (\E e \in Daily : chosen[e] = i /\ Opened(e))' <=> (chosen[d] = i /\ Opened(d))'
    BY <2>1
  <2>4. QED BY <2>2, <2>3 DEF CountFits
<1>7. QED BY <1>3, <1>4, <1>5, <1>6 DEF GenInv

\* A step of it that does not touch the backlog.
LEMMA DailyKeeps ==
    ASSUME GenInv, NEW d \in Daily, pc[d] \in Working \cup {"select"},
           NEW place \in Working \cup {"finish"}, GoTo(d, place),
           UNCHANGED <<lock, draft>>,
           \A e \in Daily \ {d} : UNCHANGED <<chosen[e], verdict[e], created[e]>>,
           GenTypeOK', Works(d)', TreeFits(d)', TreeRests',
           \A i \in Ideas : CountFits(i, chosen[d] = i /\ Designed(d), chosen[d] = i /\ Opened(d))'
    PROVE  GenInv'
<1>1. draft[d] = None /\ place # "replace"
  BY DEF GenInv, DraftCurrent, Procs, Working, OnBranch
<1>2. QED BY <1>1, DailySteps

\* Where nobody is at work, no attempt is under way.
LEMMA CountsAtRest ==
    ASSUME GenInv, \A d \in Daily : ~Designed(d) /\ ~Opened(d), NEW i \in Ideas
    PROVE  CountFits(i, FALSE, FALSE)
BY DEF GenInv, CountsFit, CountFits

-----------------------------------------------------------------------------
(* The daily run, up to its branch.                                        *)

\* A step to another place, which changes neither the idea nor its record.
LEMMA PlaceTyped ==
    ASSUME GenTypeOK, NEW d \in Daily, NEW place \in Working \cup {"finish", "select", "replace"},
           GoTo(d, place)
    PROVE  pc' \in [Procs -> Places] /\ pc'[d] = place /\ pc[d] \in Places
BY DEF GenTypeOK, GoTo, Procs, Places, Working

LEMMA SelectKeeps ==
    ASSUME GenInv, NEW d \in Daily, SelectIdea(d)
    PROVE  GenInv'
<1>1. /\ pc[d] = "select" /\ UNCHANGED <<lock, files, draft, verdict, created, ghosts>>
      /\ ~created[d] /\ verdict[d] = None
  BY DEF SelectIdea, GenInv, Works
<1>2. GenTypeOK /\ TreeRests
  BY DEF GenInv
<1>3. CASE GoTo(d, "finish") /\ UNCHANGED chosen
  <2>1. pc'[d] = "finish" /\ pc' \in [Procs -> Places]
    BY <1>2, <1>3, PlaceTyped
  <2>2. GenTypeOK' /\ TreeRests'
    BY <1>1, <1>2, <1>3, <2>1 DEF GenTypeOK, TreeRests, SafeTree, files, ghosts
  <2>3. Works(d)' /\ TreeFits(d)'
    BY <1>1, <1>3, <2>1 DEF Works, TreeFits, Working, OnBranch
  <2>4. \A i \in Ideas : CountFits(i, chosen[d] = i /\ Designed(d), chosen[d] = i /\ Opened(d))'
    BY <1>1, <1>3, <2>1, CountsOfOne DEF CountFits, Designed, Opened, OnBranch, files, ghosts
  <2>5. QED BY <1>1, <1>3, <2>2, <2>3, <2>4, DailyKeeps
<1>4. ASSUME NEW i \in Eligible, chosen' = [chosen EXCEPT ![d] = i], GoTo(d, "gate")
      PROVE  GenInv'
  <2>1. pc'[d] = "gate" /\ pc' \in [Procs -> Places]
    BY <1>2, <1>4, PlaceTyped DEF Working
  <2>2. i \in Ideas /\ Promised!Open(backlog[i])
    BY GenAssumption DEF Eligible, Promised!Open, Promised!Retryable, Retryable
  <2>3. chosen'[d] = i /\ chosen' \in [Daily -> Ideas \cup {None}]
    BY <1>2, <1>4, <2>2 DEF GenTypeOK
  <2>4. GenTypeOK' /\ TreeRests'
    BY <1>1, <1>2, <2>1, <2>3 DEF GenTypeOK, TreeRests, SafeTree, files, ghosts
  <2>5. Works(d)' /\ TreeFits(d)'
    BY <1>1, <2>1, <2>2, <2>3 DEF Works, TreeFits, Working, OnBranch, files
  <2>6. \A k \in Ideas : CountFits(k, chosen[d] = k /\ Designed(d), chosen[d] = k /\ Opened(d))'
    BY <1>1, <2>1, CountsOfOne DEF CountFits, Designed, Opened, OnBranch, files, ghosts
  <2>7. "gate" \in Working /\ \A e \in Daily \ {d} : chosen'[e] = chosen[e]
    BY <1>2, <1>4 DEF Working, GenTypeOK
  <2>8. QED BY <1>1, <1>4, <2>4, <2>5, <2>6, <2>7, DailyKeeps
<1>5. QED BY <1>3, <1>4 DEF SelectIdea

\* What a daily run knows while it is at work on its idea.
LEMMA AtWork ==
    ASSUME GenInv, NEW d \in Daily, pc[d] \in Working \cup {"replace"}
    PROVE  /\ d \in Procs /\ chosen[d] \in Ideas /\ chosen[d] # Main
           /\ Promised!Open(backlog[chosen[d]])
           /\ GenTypeOK /\ TreeRests /\ Works(d) /\ TreeFits(d)
           /\ pc[d] \notin {"idle", "locking"}
BY GenAssumption DEF GenInv, Works, Procs, Working, OnBranch

LEMMA GateKeeps ==
    ASSUME GenInv, NEW d \in Daily, GitSafeCheck(d)
    PROVE  GenInv'
<1>1. /\ pc[d] = "gate" /\ pc[d] \in Working
      /\ UNCHANGED <<lock, backlog, tree, remote, pr, local, ghosts>>
  BY DEF GitSafeCheck, Working
<1>2. PICK place \in {"finish", "find_pr"} :
        /\ GoTo(d, place) /\ (place = "find_pr" => SafeTree)
        /\ skills' = skills \/ skills' = [skills EXCEPT !.here = skills.origin]
  BY DEF GitSafeCheck
<1>3. place \in Working \cup {"finish"} /\ pc'[d] = place /\ pc' \in [Procs -> Places]
  BY <1>1, <1>2, AtWork, PlaceTyped DEF Working
<1>4. skills' \in [here : SUBSET Ideas, origin : SUBSET Ideas]
  BY <1>1, <1>2, AtWork DEF GenTypeOK
<1>5. GenTypeOK'
  BY <1>1, <1>3, <1>4, AtWork DEF GenTypeOK, local, ghosts
<1>6. Works(d)' /\ TreeFits(d)'
  BY <1>1, <1>2, <1>3, AtWork
  DEF Works, TreeFits, SafeTree, Working, OnBranch, local, ghosts
<1>7. TreeRests'
  BY <1>1, AtWork DEF TreeRests, SafeTree, local, ghosts
<1>8. \A i \in Ideas : CountFits(i, chosen[d] = i /\ Designed(d), chosen[d] = i /\ Opened(d))'
  BY <1>1, <1>2, <1>3, AtWork, CountsOfOne DEF CountFits, Designed, Opened, OnBranch, local, ghosts
<1>9. QED BY <1>1, <1>2, <1>3, <1>5, <1>6, <1>7, <1>8, AtWork, DailyKeeps DEF local

LEMMA FindKeeps ==
    ASSUME GenInv, NEW d \in Daily, CheckExistingPr(d)
    PROVE  GenInv'
<1>1. /\ pc[d] = "find_pr" /\ pc[d] \in Working
      /\ UNCHANGED <<lock, files, draft, chosen, created, ghosts>>
  BY DEF CheckExistingPr, Working
<1>2. PICK place \in {"record", "branch"} :
        /\ GoTo(d, place)
        /\ IF place = "record" THEN Judge(d, "pr_open") ELSE UNCHANGED verdict
  BY DEF CheckExistingPr
<1>3. place \in Working \cup {"finish"} /\ pc'[d] = place /\ pc' \in [Procs -> Places]
  BY <1>1, <1>2, AtWork, PlaceTyped DEF Working
<1>4. /\ verdict[d] = None /\ ~created[d] /\ verdict \in [Daily -> Verdicts \cup {None}]
  BY <1>1, AtWork DEF Works, TreeFits, Working, OnBranch, GenTypeOK
<1>5. /\ verdict' \in [Daily -> Verdicts \cup {None}]
      /\ verdict'[d] = IF place = "record" THEN "pr_open" ELSE None
      /\ \A e \in Daily \ {d} : verdict'[e] = verdict[e]
  BY <1>2, <1>4 DEF Judge, Verdicts
<1>6. GenTypeOK'
  BY <1>1, <1>3, <1>5, AtWork DEF GenTypeOK, files, ghosts
<1>7. Works(d)' /\ TreeFits(d)'
  BY <1>1, <1>2, <1>3, <1>4, <1>5, AtWork
  DEF Works, TreeFits, SafeTree, Working, OnBranch, files, ghosts, Verdicts
<1>8. TreeRests'
  BY <1>1, AtWork DEF TreeRests, SafeTree, files, ghosts
<1>9. \A i \in Ideas : CountFits(i, chosen[d] = i /\ Designed(d), chosen[d] = i /\ Opened(d))'
  BY <1>1, <1>2, <1>3, <1>4, <1>5, AtWork, CountsOfOne
  DEF CountFits, Designed, Opened, OnBranch, files, ghosts
<1>10. QED BY <1>1, <1>2, <1>3, <1>5, <1>6, <1>7, <1>8, <1>9, AtWork, DailyKeeps

Trees == [branch : Ideas \cup {Main}, commit : BOOLEAN, skill : SUBSET Ideas,
          stray : BOOLEAN, journal : BOOLEAN]

LEMMA BranchKeeps ==
    ASSUME GenInv, NEW d \in Daily, CreateBranch(d)
    PROVE  GenInv'
<1>1. /\ pc[d] = "branch" /\ pc[d] \in Working
      /\ UNCHANGED <<lock, backlog, skills, remote, pr, draft, chosen, verdict, ghosts>>
  BY DEF CreateBranch, Working
<1>2. PICK place \in {"design", "finish"} :
        /\ GoTo(d, place)
        /\ IF place = "design"
             THEN /\ tree' = [tree EXCEPT !.branch = chosen[d], !.commit = FALSE]
                  /\ created' = [created EXCEPT ![d] = TRUE]
             ELSE UNCHANGED <<tree, created>>
  BY DEF CreateBranch
<1>3. place \in Working \cup {"finish"} /\ pc'[d] = place /\ pc' \in [Procs -> Places]
  BY <1>1, <1>2, AtWork, PlaceTyped DEF Working, OnBranch
<1>4. /\ SafeTree /\ ~created[d] /\ tree \in Trees /\ created \in [Daily -> BOOLEAN]
      /\ chosen[d] \in Ideas /\ verdict[d] = None
  BY <1>1, AtWork DEF TreeFits, Works, GenTypeOK, Trees, Working, OnBranch
<1>5. /\ tree' \in Trees /\ tree'.skill = {} /\ ~tree'.stray
      /\ place = "design" => tree'.branch = chosen[d] /\ ~tree'.commit
  BY <1>2, <1>4 DEF Trees, SafeTree
<1>6. /\ created' \in [Daily -> BOOLEAN] /\ created'[d] = (place = "design")
      /\ \A e \in Daily \ {d} : created'[e] = created[e]
  BY <1>2, <1>4
<1>7. GenTypeOK'
  BY <1>1, <1>3, <1>5, <1>6, AtWork DEF GenTypeOK, Trees, ghosts
<1>8. Works(d)' /\ TreeFits(d)'
  BY <1>1, <1>2, <1>3, <1>4, <1>5, <1>6, AtWork DEF Works, TreeFits, Working, OnBranch, ghosts
<1>9. TreeRests'
  BY <1>1, <1>2, <1>4, <1>5, <1>6, AtWork DEF TreeRests, SafeTree, ghosts
<1>10. \A i \in Ideas : CountFits(i, chosen[d] = i /\ Designed(d), chosen[d] = i /\ Opened(d))'
  BY <1>1, <1>2, <1>3, <1>4, AtWork, CountsOfOne
  DEF CountFits, Designed, Opened, OnBranch, ghosts
<1>11. QED BY <1>1, <1>2, <1>3, <1>6, <1>7, <1>8, <1>9, <1>10, AtWork, DailyKeeps

-----------------------------------------------------------------------------
(* The daily run, on its branch.                                           *)

LEMMA DesignKeeps ==
    ASSUME GenInv, NEW d \in Daily, DesignSkill(d)
    PROVE  GenInv'
<1> DEFINE i == chosen[d]
<1>1. /\ pc[d] = "design" /\ pc[d] \in Working /\ pc[d] \in OnBranch
      /\ designs' = Plus(designs, i)
      /\ UNCHANGED <<lock, backlog, skills, remote, pr, draft, chosen, created, prs, cuts, excused>>
  BY DEF DesignSkill, Working, OnBranch
<1>2. PICK written \in BOOLEAN, elsewhere \in BOOLEAN, ok \in BOOLEAN :
        /\ tree' = [tree EXCEPT !.skill = IF written THEN @ \cup {i} ELSE @,
                                !.stray = @ \/ elsewhere]
        /\ \/ ok  /\ GoTo(d, "check") /\ UNCHANGED verdict
           \/ ~ok /\ GoTo(d, "rollback") /\ Judge(d, "design_failed")
  BY DEF DesignSkill
<1>3. PICK place \in {"check", "rollback"} :
        /\ GoTo(d, place)
        /\ IF place = "rollback" THEN Judge(d, "design_failed") ELSE UNCHANGED verdict
  BY <1>2
<1>4. /\ place \in Working \cup {"finish"} /\ pc'[d] = place /\ pc' \in [Procs -> Places]
      /\ place \in OnBranch \ {"design"}
  BY <1>1, <1>3, AtWork, PlaceTyped DEF Working, OnBranch
<1>5. /\ i \in Ideas /\ tree \in Trees /\ tree.branch = i /\ tree.skill \subseteq {i} /\ created[d]
      /\ verdict[d] = None /\ verdict \in [Daily -> Verdicts \cup {None}]
      /\ designs \in [Ideas -> Nat] /\ prs \in [Ideas -> Nat]
      /\ backlog \in [Ideas -> Entries]
  BY <1>1, AtWork DEF TreeFits, Works, GenTypeOK, Trees, Entries, Working
<1>6. /\ tree' \in Trees /\ tree'.skill \subseteq {i} /\ tree'.branch = i
      /\ tree'.commit = tree.commit
  BY <1>2, <1>5 DEF Trees
<1>7. /\ verdict' \in [Daily -> Verdicts \cup {None}]
      /\ verdict'[d] = IF place = "rollback" THEN "design_failed" ELSE None
      /\ \A e \in Daily \ {d} : verdict'[e] = verdict[e]
  BY <1>3, <1>5 DEF Judge, Verdicts, Retryable
<1>8. /\ designs' \in [Ideas -> Nat] /\ designs'[i] = designs[i] + 1
      /\ \A k \in Ideas \ {i} : designs'[k] = designs[k]
  BY <1>1, <1>5 DEF Plus
<1>9. GenTypeOK'
  BY <1>1, <1>4, <1>6, <1>7, <1>8, AtWork DEF GenTypeOK, Trees
<1>10. Works(d)' /\ TreeFits(d)'
  BY <1>1, <1>3, <1>4, <1>5, <1>6, <1>7, AtWork DEF Works, TreeFits, Working, OnBranch, Retryable
<1>11. TreeRests'
  BY <1>1, <1>5, <1>6, AtWork DEF TreeRests
<1>12. \A k \in Ideas : CountFits(k, chosen[d] = k /\ Designed(d), chosen[d] = k /\ Opened(d))'
  <2>1. ~Designed(d) /\ ~Opened(d) /\ Designed(d)' /\ ~Opened(d)'
    BY <1>1, <1>3, <1>4, <1>5, <1>7 DEF Designed, Opened, OnBranch
  <2>2. ASSUME NEW k \in Ideas, k # i
        PROVE  CountFits(k, chosen[d] = k /\ Designed(d), chosen[d] = k /\ Opened(d))'
    BY <1>1, <1>8, <2>2, CountsOfOne, AtWork DEF CountFits
  <2>3. CountFits(i, TRUE, FALSE)'
    <3>1. CountFits(i, FALSE, FALSE)
      BY <1>1, <1>5, <2>1, CountsOfOne, AtWork DEF CountFits
    <3>2. backlog[i].status \notin Verdicts \ Retryable
      BY <1>1, AtWork DEF Promised!Open, Promised!Retryable, Retryable, Verdicts
    <3>3. designs[i] \in Nat /\ backlog[i].retries \in Nat
      BY <1>5 DEF Entries
    <3>4. QED BY <1>1, <1>8, <3>1, <3>2, <3>3 DEF CountFits
  <2>4. QED BY <1>1, <1>5, <2>1, <2>2, <2>3 DEF CountFits
<1>13. QED BY <1>1, <1>3, <1>4, <1>7, <1>9, <1>10, <1>11, <1>12, AtWork, DailyKeeps

\* A step that leaves the records alone, and whether the attempt counts.
LEMMA CountsKept ==
    ASSUME GenInv, NEW d \in Daily, pc[d] \in Working,
           UNCHANGED <<backlog, chosen, designs, prs>>,
           Designed(d)' <=> Designed(d), Opened(d)' <=> Opened(d)
    PROVE  \A i \in Ideas :
               CountFits(i, chosen[d] = i /\ Designed(d), chosen[d] = i /\ Opened(d))'
BY CountsOfOne, AtWork DEF CountFits

\* A step that gives a verdict, or leaves the one there is.
LEMMA VerdictTyped ==
    ASSUME GenTypeOK, NEW d \in Daily, NEW given \in BOOLEAN, NEW v \in Verdicts,
           IF given THEN Judge(d, v) ELSE UNCHANGED verdict
    PROVE  /\ verdict' \in [Daily -> Verdicts \cup {None}]
           /\ verdict'[d] = IF given THEN v ELSE verdict[d]
           /\ \A e \in Daily \ {d} : verdict'[e] = verdict[e]
BY DEF GenTypeOK, Judge

\* What a run on its branch finds there.
LEMMA OnItsBranch ==
    ASSUME GenInv, NEW d \in Daily, pc[d] \in OnBranch
    PROVE  /\ pc[d] \in Working /\ created[d] /\ tree \in Trees
           /\ tree.branch = chosen[d] /\ tree.branch # Main
           /\ tree.skill \subseteq {chosen[d]}
<1>1. pc[d] \in Working
  BY DEF Working
<1>2. QED BY <1>1, AtWork DEF TreeFits, GenTypeOK, Trees

LEMMA CheckKeeps ==
    ASSUME GenInv, NEW d \in Daily, CheckChanges(d)
    PROVE  GenInv'
<1>1. /\ pc[d] \in {"check", "check_again"} /\ pc[d] \in Working /\ pc[d] \in OnBranch
      /\ UNCHANGED <<lock, files, draft, chosen, created, ghosts>>
  BY DEF CheckChanges, Working, OnBranch
<1>2. PICK place \in {"record", "review", "commit"} :
        /\ GoTo(d, place) /\ (place # "record" => ~tree.stray)
        /\ IF place = "record" THEN Judge(d, "unexpected_changes") ELSE UNCHANGED verdict
  BY <1>1 DEF CheckChanges, Unexpected
<1>3. place \in Working \cup {"finish"} /\ pc'[d] = place /\ pc' \in [Procs -> Places]
  BY <1>1, <1>2, AtWork, PlaceTyped DEF Working, OnBranch
<1>4. verdict[d] = None
  BY <1>1, AtWork DEF Works, Working
<1>5. /\ verdict' \in [Daily -> Verdicts \cup {None}]
      /\ verdict'[d] = IF place = "record" THEN "unexpected_changes" ELSE None
      /\ \A e \in Daily \ {d} : verdict'[e] = verdict[e]
  BY <1>1, <1>2, <1>4, AtWork, VerdictTyped DEF Verdicts
<1>6. GenTypeOK'
  BY <1>1, <1>3, <1>5, AtWork DEF GenTypeOK, files, ghosts
<1>7. Works(d)'
  BY <1>1, <1>2, <1>3, <1>4, <1>5, AtWork DEF Works, Working, OnBranch, files, Verdicts
<1>8. TreeFits(d)'
  BY <1>1, <1>2, <1>3, <1>5, OnItsBranch DEF TreeFits, OnBranch, files, ghosts
<1>9. TreeRests'
  BY <1>1, AtWork DEF TreeRests, SafeTree, files, ghosts
<1>10. \A i \in Ideas : CountFits(i, chosen[d] = i /\ Designed(d), chosen[d] = i /\ Opened(d))'
  <2>1. Designed(d)' /\ Designed(d) /\ ~Opened(d)' /\ ~Opened(d)
    BY <1>1, <1>2, <1>3, <1>4, <1>5 DEF Designed, Opened, OnBranch
  <2>2. QED BY <1>1, <2>1, CountsKept DEF files, ghosts
<1>11. QED BY <1>1, <1>2, <1>3, <1>5, <1>6, <1>7, <1>8, <1>9, <1>10, AtWork, DailyKeeps

\* An attempt that ends without a verdict takes its design back from the count.
LEMMA CutOffCounts ==
    ASSUME GenInv, NEW d \in Daily, pc[d] \in OnBranch \cup {"record", "replace"}, CutOff(d)
    PROVE  /\ chosen[d] \in Ideas /\ designs' \in [Ideas -> Nat] /\ cuts' \in 0..MaxCuts
           /\ \A i \in Ideas : designs'[i] = IF chosen[d] = i /\ Designed(d)
                                               THEN designs[i] - 1 ELSE designs[i]
           /\ chosen[d] \in Ideas /\ Designed(d) => designs[chosen[d]] # 0
<1>1. pc[d] \in Working \cup {"replace"}
  BY DEF Working
<1>2. /\ chosen[d] \in Ideas /\ designs \in [Ideas -> Nat] /\ cuts \in 0..MaxCuts
      /\ CountFits(chosen[d], Designed(d), Opened(d))
  BY <1>1, AtWork, CountsOfOne DEF GenTypeOK, CountFits
<1>3. Designed(d) <=> ~(pc[d] = "design" \/ verdict[d] = "pr_open")
  BY <1>1, AtWork, GenAssumption DEF Designed, Works, Working, OnBranch, Verdicts, Retryable
<1>4. Designed(d) => designs[chosen[d]] # 0
  BY <1>2 DEF CountFits
<1>5. cuts' \in 0..MaxCuts
  BY <1>2, GenAssumption DEF CutOff
<1>6. designs' = IF Designed(d) THEN [designs EXCEPT ![chosen[d]] = @ - 1] ELSE designs
  BY <1>3 DEF CutOff
<1>7. \A i \in Ideas : designs'[i] = IF chosen[d] = i /\ Designed(d)
                                       THEN designs[i] - 1 ELSE designs[i]
  BY <1>2, <1>6
<1>8. designs' \in [Ideas -> Nat]
  BY <1>2, <1>4, <1>6
<1>9. QED BY <1>2, <1>4, <1>5, <1>7, <1>8

\* After a cut nothing of the attempt is left in the counts.
LEMMA CutCounts ==
    ASSUME GenInv, NEW d \in Daily, pc[d] \in OnBranch \cup {"record", "replace"}, CutOff(d),
           UNCHANGED backlog, Unrecorded(d)
    PROVE  prs' \in [Ideas -> Nat] /\ \A i \in Ideas : CountFits(i, FALSE, FALSE)'
<1> DEFINE c == chosen[d]
<1>1. pc[d] \in Working \cup {"replace"}
  BY DEF Working
<1>2. /\ c \in Ideas /\ prs \in [Ideas -> Nat] /\ backlog[c].retries \in Nat
      /\ backlog[c].status \notin Verdicts \ Retryable /\ designs \in [Ideas -> Nat]
  <2>1. backlog \in [Ideas -> [status : Statuses, retries : Nat]]
    BY <1>1, AtWork DEF GenTypeOK
  <2>2. QED BY <1>1, <2>1, AtWork
             DEF GenTypeOK, Promised!Open, Promised!Retryable, Retryable, Verdicts
<1>3. verdict[d] = "completed" <=> Opened(d)
  BY <1>1, AtWork, GenAssumption DEF Opened, Works, Working, OnBranch, Verdicts, Retryable
<1>4. CountFits(c, Designed(d), Opened(d))
  BY <1>1, <1>2, AtWork, CountsOfOne DEF CountFits
<1>5. prs' \in [Ideas -> Nat] /\ \A i \in Ideas : prs'[i] = IF c = i /\ Opened(d) THEN 0 ELSE prs[i]
  BY <1>2, <1>3, <1>4 DEF CountFits, Unrecorded
<1>6. ASSUME NEW i \in Ideas, i # c
      PROVE  CountFits(i, FALSE, FALSE)'
  BY <1>1, <1>5, <1>6, AtWork, CountsOfOne, CutOffCounts DEF CountFits
<1>7. ASSUME NEW i \in Ideas, i = c
      PROVE  CountFits(i, FALSE, FALSE)'
  <2>1. designs'[c] = IF Designed(d) THEN designs[c] - 1 ELSE designs[c]
    BY <1>2, CutOffCounts
  <2>2. designs'[c] <= backlog[c].retries
    BY <1>2, <1>4, <2>1 DEF CountFits
  <2>3. prs'[c] = 0 /\ backlog[c].status # "completed"
    BY <1>2, <1>4, <1>5 DEF CountFits, Verdicts, Retryable
  <2>4. QED BY <1>2, <1>4, <1>7, <2>2, <2>3 DEF CountFits
<1>8. QED BY <1>5, <1>6, <1>7

LEMMA ReviewKeeps ==
    ASSUME GenInv, NEW d \in Daily, ReviewAndImprove(d)
    PROVE  GenInv'
<1>1. /\ pc[d] = "review" /\ pc[d] \in Working /\ pc[d] \in OnBranch
      /\ UNCHANGED <<lock, backlog, skills, remote, pr, draft, chosen, created, prs>>
  BY DEF ReviewAndImprove, Working, OnBranch
<1>2. PICK elsewhere \in BOOLEAN, place \in {"check_again", "rollback", "finish"} :
        /\ GoTo(d, place)
        /\ tree' = [tree EXCEPT !.stray = @ \/ elsewhere]
        /\ IF place = "rollback" THEN Judge(d, "review_failed") ELSE UNCHANGED verdict
        /\ IF place = "finish" THEN CutOff(d) ELSE UNCHANGED <<designs, cuts, excused>>
  BY DEF ReviewAndImprove
<1>3. /\ place \in Working \cup {"finish"} /\ pc'[d] = place /\ pc' \in [Procs -> Places]
      /\ place # "finish" => place \in OnBranch \ {"design"}
  BY <1>1, <1>2, AtWork, PlaceTyped DEF Working, OnBranch
<1>4. verdict[d] = None
  BY <1>1, AtWork DEF Works, Working
<1>5. /\ verdict' \in [Daily -> Verdicts \cup {None}]
      /\ verdict'[d] = IF place = "rollback" THEN "review_failed" ELSE None
      /\ \A e \in Daily \ {d} : verdict'[e] = verdict[e]
  BY <1>1, <1>2, <1>4, AtWork, VerdictTyped DEF Verdicts
<1>6. /\ tree' \in Trees /\ tree'.branch = tree.branch /\ tree'.skill = tree.skill
      /\ tree'.commit = tree.commit
  BY <1>1, <1>2, OnItsBranch DEF Trees
<1>7. designs' \in [Ideas -> Nat] /\ cuts' \in 0..MaxCuts /\ excused' \in BOOLEAN
  <2>1. CASE place = "finish"
    BY <1>1, <1>2, <2>1, CutOffCounts DEF CutOff
  <2>2. CASE place # "finish"
    BY <1>1, <1>2, <2>2, AtWork DEF GenTypeOK
  <2>3. QED BY <2>1, <2>2
<1>8. GenTypeOK'
  BY <1>1, <1>3, <1>5, <1>6, <1>7, AtWork DEF GenTypeOK, Trees
<1>9. Works(d)'
  BY <1>1, <1>2, <1>3, <1>4, <1>5, AtWork DEF Works, Working, OnBranch, Retryable
<1>10. TreeFits(d)'
  BY <1>1, <1>2, <1>3, <1>6, OnItsBranch DEF TreeFits, OnBranch, CutOff
<1>11. TreeRests'
  BY <1>1, <1>6, OnItsBranch DEF TreeRests
<1>12. \A i \in Ideas : CountFits(i, chosen[d] = i /\ Designed(d), chosen[d] = i /\ Opened(d))'
  <2>1. CASE place = "finish"
    <3>1. ~Designed(d)' /\ ~Opened(d)' /\ verdict[d] # "completed"
      BY <1>3, <1>4, <2>1, GenAssumption DEF Designed, Opened, OnBranch, Verdicts
    <3>2. \A i \in Ideas : CountFits(i, FALSE, FALSE)'
      BY <1>1, <1>2, <2>1, <3>1, CutCounts DEF Unrecorded
    <3>3. QED BY <3>1, <3>2 DEF CountFits
  <2>2. CASE place # "finish"
    <3>1. Designed(d)' /\ Designed(d) /\ ~Opened(d)' /\ ~Opened(d)
      BY <1>1, <1>2, <1>3, <2>2 DEF Designed, Opened, OnBranch
    <3>2. QED BY <1>1, <1>2, <2>2, <3>1, CountsKept
  <2>3. QED BY <2>1, <2>2
<1>13. QED BY <1>1, <1>2, <1>3, <1>5, <1>8, <1>9, <1>10, <1>11, <1>12, AtWork, DailyKeeps

LEMMA CommitKeeps ==
    ASSUME GenInv, NEW d \in Daily, CommitSkill(d)
    PROVE  GenInv'
<1>1. /\ pc[d] = "commit" /\ pc[d] \in Working /\ pc[d] \in OnBranch
      /\ UNCHANGED <<lock, backlog, skills, remote, pr, draft, chosen, created, prs>>
  BY DEF CommitSkill, Working, OnBranch
<1>2. PICK place \in {"push", "rollback", "finish"} :
        /\ GoTo(d, place)
        /\ IF place = "push"
             THEN tree' = [tree EXCEPT !.commit = TRUE, !.skill = @ \ {chosen[d]}]
             ELSE UNCHANGED tree
        /\ IF place = "rollback" THEN Judge(d, "pr_failed") ELSE UNCHANGED verdict
        /\ IF place = "finish" THEN CutOff(d) ELSE UNCHANGED <<designs, cuts, excused>>
  BY DEF CommitSkill
<1>3. /\ place \in Working \cup {"finish"} /\ pc'[d] = place /\ pc' \in [Procs -> Places]
      /\ place # "finish" => place \in OnBranch \ {"design"}
  BY <1>1, <1>2, AtWork, PlaceTyped DEF Working, OnBranch
<1>4. verdict[d] = None /\ ~tree.stray
  BY <1>1, AtWork DEF Works, TreeFits, Working
<1>5. /\ verdict' \in [Daily -> Verdicts \cup {None}]
      /\ verdict'[d] = IF place = "rollback" THEN "pr_failed" ELSE None
      /\ \A e \in Daily \ {d} : verdict'[e] = verdict[e]
  BY <1>1, <1>2, <1>4, AtWork, VerdictTyped DEF Verdicts, Retryable
<1>6. /\ tree' \in Trees /\ tree'.branch = tree.branch /\ tree'.skill \subseteq {chosen[d]}
      /\ tree'.stray = tree.stray /\ (place = "push" => tree'.skill = {})
  BY <1>1, <1>2, OnItsBranch DEF Trees
<1>7. designs' \in [Ideas -> Nat] /\ cuts' \in 0..MaxCuts /\ excused' \in BOOLEAN
  <2>1. CASE place = "finish"
    BY <1>1, <1>2, <2>1, CutOffCounts DEF CutOff
  <2>2. CASE place # "finish"
    BY <1>1, <1>2, <2>2, AtWork DEF GenTypeOK
  <2>3. QED BY <2>1, <2>2
<1>8. GenTypeOK'
  BY <1>1, <1>3, <1>5, <1>6, <1>7, AtWork DEF GenTypeOK, Trees
<1>9. Works(d)'
  BY <1>1, <1>2, <1>3, <1>4, <1>5, AtWork DEF Works, Working, OnBranch, Retryable
<1>10. TreeFits(d)'
  BY <1>1, <1>2, <1>3, <1>4, <1>6, OnItsBranch DEF TreeFits, OnBranch, CutOff
<1>11. TreeRests'
  BY <1>1, <1>6, OnItsBranch DEF TreeRests
<1>12. \A i \in Ideas : CountFits(i, chosen[d] = i /\ Designed(d), chosen[d] = i /\ Opened(d))'
  <2>1. CASE place = "finish"
    <3>1. ~Designed(d)' /\ ~Opened(d)' /\ verdict[d] # "completed"
      BY <1>3, <1>4, <2>1, GenAssumption DEF Designed, Opened, OnBranch, Verdicts
    <3>2. \A i \in Ideas : CountFits(i, FALSE, FALSE)'
      BY <1>1, <1>2, <2>1, <3>1, CutCounts DEF Unrecorded
    <3>3. QED BY <3>1, <3>2 DEF CountFits
  <2>2. CASE place # "finish"
    <3>1. Designed(d)' /\ Designed(d) /\ ~Opened(d)' /\ ~Opened(d)
      BY <1>1, <1>2, <1>3, <2>2 DEF Designed, Opened, OnBranch
    <3>2. QED BY <1>1, <1>2, <2>2, <3>1, CountsKept
  <2>3. QED BY <2>1, <2>2
<1>13. QED BY <1>1, <1>2, <1>3, <1>5, <1>8, <1>9, <1>10, <1>11, <1>12, AtWork, DailyKeeps

LEMMA PushKeeps ==
    ASSUME GenInv, NEW d \in Daily, PushBranch(d)
    PROVE  GenInv'
<1>1. /\ pc[d] = "push" /\ pc[d] \in Working /\ pc[d] \in OnBranch
      /\ UNCHANGED <<lock, backlog, tree, skills, pr, draft, chosen, created, ghosts>>
  BY DEF PushBranch, Working, OnBranch
<1>2. PICK place \in {"open", "rollback"} :
        /\ GoTo(d, place)
        /\ remote' \in {remote, remote \cup {chosen[d]}}
        /\ IF place = "rollback" THEN Judge(d, "pr_failed") ELSE UNCHANGED verdict
  BY DEF PushBranch
<1>3. /\ place \in Working \cup {"finish"} /\ pc'[d] = place /\ pc' \in [Procs -> Places]
      /\ place \in OnBranch \ {"design"}
  BY <1>1, <1>2, AtWork, PlaceTyped DEF Working, OnBranch
<1>4. verdict[d] = None /\ ~tree.stray /\ tree.skill = {}
  BY <1>1, AtWork DEF Works, TreeFits, Working
<1>5. /\ verdict' \in [Daily -> Verdicts \cup {None}]
      /\ verdict'[d] = IF place = "rollback" THEN "pr_failed" ELSE None
      /\ \A e \in Daily \ {d} : verdict'[e] = verdict[e]
  BY <1>1, <1>2, <1>4, AtWork, VerdictTyped DEF Verdicts, Retryable
<1>6. GenTypeOK'
  BY <1>1, <1>2, <1>3, <1>5, AtWork DEF GenTypeOK, ghosts
<1>7. Works(d)'
  BY <1>1, <1>2, <1>3, <1>4, <1>5, AtWork DEF Works, Working, OnBranch, Retryable
<1>8. TreeFits(d)'
  BY <1>1, <1>2, <1>3, <1>4, OnItsBranch DEF TreeFits, OnBranch
<1>9. TreeRests'
  BY <1>1, OnItsBranch DEF TreeRests
<1>10. \A i \in Ideas : CountFits(i, chosen[d] = i /\ Designed(d), chosen[d] = i /\ Opened(d))'
  <2>1. Designed(d)' /\ Designed(d) /\ ~Opened(d)' /\ ~Opened(d)
    BY <1>1, <1>2, <1>3 DEF Designed, Opened, OnBranch
  <2>2. QED BY <1>1, <2>1, CountsKept DEF ghosts
<1>11. QED BY <1>1, <1>2, <1>3, <1>5, <1>6, <1>7, <1>8, <1>9, <1>10, AtWork, DailyKeeps

LEMMA OpenKeeps ==
    ASSUME GenInv, NEW d \in Daily, OpenPr(d)
    PROVE  GenInv'
<1> DEFINE c == chosen[d]
<1>1. /\ pc[d] = "open" /\ pc[d] \in Working /\ pc[d] \in OnBranch
      /\ UNCHANGED <<lock, backlog, tree, skills, remote, draft, chosen, created,
                     designs, cuts, excused>>
  BY DEF OpenPr, Working, OnBranch
<1>2. PICK place \in {"return", "rollback"} :
        /\ GoTo(d, place)
        /\ pr' \in {pr, [pr EXCEPT ![c] = "open"]}
        /\ Judge(d, IF place = "return" THEN "completed" ELSE "pr_failed")
        /\ prs' = IF place = "return" THEN Plus(prs, c) ELSE prs
  BY DEF OpenPr
<1>3. /\ place \in Working \cup {"finish"} /\ pc'[d] = place /\ pc' \in [Procs -> Places]
      /\ place \in OnBranch \ {"design"}
  BY <1>1, <1>2, AtWork, PlaceTyped DEF Working, OnBranch
<1>4. /\ c \in Ideas /\ verdict[d] = None /\ ~tree.stray /\ tree.skill = {}
      /\ prs \in [Ideas -> Nat] /\ pr \in [Ideas -> {"none", "open", "merged", "closed"}]
  BY <1>1, AtWork DEF Works, TreeFits, Working, GenTypeOK
<1>5. /\ verdict' \in [Daily -> Verdicts \cup {None}]
      /\ verdict'[d] = IF place = "return" THEN "completed" ELSE "pr_failed"
      /\ \A e \in Daily \ {d} : verdict'[e] = verdict[e]
  <2> DEFINE v == IF place = "return" THEN "completed" ELSE "pr_failed"
  <2>1. v \in Verdicts /\ GenTypeOK
    BY <1>1, AtWork DEF Verdicts, Retryable
  <2>2. IF TRUE THEN Judge(d, v) ELSE UNCHANGED verdict
    BY <1>2
  <2> HIDE DEF v
  <2>3. verdict' \in [Daily -> Verdicts \cup {None}] /\ verdict'[d] = v
        /\ \A e \in Daily \ {d} : verdict'[e] = verdict[e]
    BY <2>1, <2>2, VerdictTyped
  <2>4. QED BY <2>3 DEF v
<1>6. /\ prs' \in [Ideas -> Nat] /\ \A k \in Ideas \ {c} : prs'[k] = prs[k]
      /\ prs'[c] = IF place = "return" THEN prs[c] + 1 ELSE prs[c]
  BY <1>2, <1>4 DEF Plus
<1>7. GenTypeOK'
  BY <1>1, <1>2, <1>3, <1>4, <1>5, <1>6, AtWork DEF GenTypeOK
<1>8. Works(d)'
  BY <1>1, <1>2, <1>3, <1>4, <1>5, AtWork DEF Works, Working, OnBranch, Retryable
<1>9. TreeFits(d)'
  BY <1>1, <1>2, <1>3, <1>4, OnItsBranch DEF TreeFits, OnBranch
<1>10. TreeRests'
  BY <1>1, OnItsBranch DEF TreeRests
<1>11. \A k \in Ideas : CountFits(k, chosen[d] = k /\ Designed(d), chosen[d] = k /\ Opened(d))'
  <2>1. Designed(d)' /\ Designed(d) /\ ~Opened(d) /\ (Opened(d)' <=> place = "return")
    BY <1>1, <1>2, <1>3, <1>5 DEF Designed, Opened, OnBranch
  <2>2. ASSUME NEW k \in Ideas, k # c
        PROVE  CountFits(k, chosen[d] = k /\ Designed(d), chosen[d] = k /\ Opened(d))'
    BY <1>1, <1>6, <2>2, CountsOfOne, AtWork DEF CountFits
  <2>3. CountFits(c, TRUE, place = "return")'
    <3>1. CountFits(c, TRUE, FALSE)
      BY <1>1, <1>4, <2>1, CountsOfOne, AtWork DEF CountFits
    <3>2. backlog[c].status # "completed"
      BY <1>1, AtWork DEF Promised!Open, Promised!Retryable
    <3>3. QED BY <1>1, <1>4, <1>6, <3>1, <3>2 DEF CountFits
  <2>4. QED BY <1>1, <1>4, <2>1, <2>2, <2>3 DEF CountFits
<1>12. QED BY <1>1, <1>2, <1>3, <1>5, <1>7, <1>8, <1>9, <1>10, <1>11, AtWork, DailyKeeps

LEMMA ReturnKeeps ==
    ASSUME GenInv, NEW d \in Daily, ReturnToMain(d)
    PROVE  GenInv'
<1>1. /\ pc[d] = "return" /\ pc[d] \in Working /\ pc[d] \in OnBranch /\ GoTo(d, "record")
      /\ UNCHANGED <<lock, backlog, skills, remote, pr, draft, chosen, verdict, ghosts>>
  BY DEF ReturnToMain, Working, OnBranch
<1>2. PICK back \in BOOLEAN :
        IF back THEN tree' = BackToMain /\ created' = [created EXCEPT ![d] = FALSE]
                ELSE UNCHANGED <<tree, created>>
  BY DEF ReturnToMain
<1>3. pc'[d] = "record" /\ pc' \in [Procs -> Places] /\ "record" \in Working
  BY <1>1, AtWork, PlaceTyped DEF Working
<1>4. /\ verdict[d] = "completed" /\ ~tree.stray /\ tree.skill = {}
      /\ created \in [Daily -> BOOLEAN] /\ created[d]
  BY <1>1, AtWork, OnItsBranch DEF Works, TreeFits, GenTypeOK
<1>5. /\ tree' \in Trees /\ tree'.skill = {} /\ ~tree'.stray
      /\ IF back THEN tree'.branch = Main /\ ~tree'.commit ELSE tree'.branch = tree.branch
  BY <1>1, <1>2, <1>4, OnItsBranch DEF Trees, BackToMain
<1>6. /\ created' \in [Daily -> BOOLEAN] /\ created'[d] = ~back
      /\ \A e \in Daily \ {d} : created'[e] = created[e]
  BY <1>2, <1>4
<1>7. GenTypeOK'
  BY <1>1, <1>3, <1>5, <1>6, AtWork DEF GenTypeOK, Trees, ghosts
<1>8. Works(d)'
  BY <1>1, <1>3, <1>4, AtWork DEF Works, OnBranch, Verdicts
<1>9. TreeFits(d)'
  BY <1>3, <1>5 DEF TreeFits, OnBranch
<1>10. TreeRests'
  BY <1>1, <1>5, <1>6, OnItsBranch DEF TreeRests, SafeTree
<1>11. \A i \in Ideas : CountFits(i, chosen[d] = i /\ Designed(d), chosen[d] = i /\ Opened(d))'
  <2>1. Designed(d)' /\ Designed(d) /\ Opened(d)' /\ Opened(d)
    BY <1>1, <1>3, <1>4 DEF Designed, Opened, OnBranch
  <2>2. QED BY <1>1, <2>1, CountsKept DEF ghosts
<1>12. QED BY <1>1, <1>3, <1>6, <1>7, <1>8, <1>9, <1>10, <1>11, AtWork, DailyKeeps

LEMMA RollbackKeeps ==
    ASSUME GenInv, NEW d \in Daily, RollbackSkill(d)
    PROVE  GenInv'
<1>1. /\ pc[d] = "rollback" /\ pc[d] \in Working /\ pc[d] \in OnBranch /\ GoTo(d, "record")
      /\ tree' = [BackToMain EXCEPT !.skill = @ \ {chosen[d]}]
      /\ created' = [created EXCEPT ![d] = FALSE]
      /\ excused' = (excused \/ tree.stray)
      /\ UNCHANGED <<lock, backlog, skills, remote, pr, draft, chosen, verdict, designs, prs, cuts>>
  BY DEF RollbackSkill, Working, OnBranch
<1>2. pc'[d] = "record" /\ pc' \in [Procs -> Places] /\ "record" \in Working
  BY <1>1, AtWork, PlaceTyped DEF Working
<1>3. verdict[d] \in Retryable \cup {"review_failed"} /\ created \in [Daily -> BOOLEAN]
  BY <1>1, AtWork DEF Works, GenTypeOK
<1>4. /\ tree' \in Trees /\ tree'.skill = {} /\ tree'.stray = tree.stray
      /\ tree'.branch = Main /\ ~tree'.commit
  BY <1>1, OnItsBranch DEF Trees, BackToMain
<1>5. /\ created' \in [Daily -> BOOLEAN] /\ ~created'[d]
      /\ \A e \in Daily \ {d} : created'[e] = created[e]
  BY <1>1, <1>3
<1>6. excused' \in BOOLEAN /\ (tree.stray => excused')
  BY <1>1
<1>7. GenTypeOK'
  BY <1>1, <1>2, <1>4, <1>5, <1>6, AtWork DEF GenTypeOK, Trees
<1>8. Works(d)'
  BY <1>1, <1>2, <1>3, AtWork DEF Works, OnBranch, Verdicts
<1>9. TreeFits(d)'
  BY <1>2, <1>5 DEF TreeFits, OnBranch
<1>10. TreeRests'
  BY <1>4, <1>6 DEF TreeRests, SafeTree
<1>11. \A i \in Ideas : CountFits(i, chosen[d] = i /\ Designed(d), chosen[d] = i /\ Opened(d))'
  <2>1. Designed(d)' /\ Designed(d) /\ ~Opened(d)' /\ ~Opened(d)
    BY <1>1, <1>2, <1>3 DEF Designed, Opened, OnBranch, Retryable
  <2>2. QED BY <1>1, <2>1, CountsKept
<1>12. QED BY <1>1, <1>2, <1>5, <1>7, <1>8, <1>9, <1>10, <1>11, AtWork, DailyKeeps

-----------------------------------------------------------------------------
(* The end of a daily run.                                                 *)

LEMMA RereadKeeps ==
    ASSUME GenInv, NEW d \in Daily, RereadBacklog(d)
    PROVE  GenInv'
<1>1. /\ pc[d] = "record" /\ pc[d] \in Working /\ ReadBacklog(d) /\ GoTo(d, "replace")
      /\ UNCHANGED <<lock, files, chosen, verdict, created, ghosts>>
  BY DEF RereadBacklog, Working
<1>2. pc'[d] = "replace" /\ pc' \in [Procs -> Places]
  BY <1>1, AtWork, PlaceTyped
<1>3. /\ d \in Procs /\ draft \in [Procs -> [Ideas -> Entries] \cup {None, Unread}]
      /\ backlog \in [Ideas -> Entries]
  BY <1>1, AtWork DEF GenTypeOK, Entries
<1>4. /\ draft' \in [Procs -> [Ideas -> Entries] \cup {None, Unread}]
      /\ draft'[d] \in {backlog, Unread} /\ \A q \in Procs \ {d} : draft'[q] = draft[q]
  BY <1>1, <1>3 DEF ReadBacklog
<1>5. GenTypeOK'
  BY <1>1, <1>2, <1>4, AtWork DEF GenTypeOK, files, ghosts, Entries
<1>6. Works(d)'
  BY <1>1, <1>2, AtWork DEF Works, Working, OnBranch, files
<1>7. TreeFits(d)'
  BY <1>1, <1>2, AtWork DEF TreeFits, OnBranch, files, ghosts
<1>8. TreeRests'
  BY <1>1, AtWork DEF TreeRests, SafeTree, files, ghosts
<1>9. \A i \in Ideas : CountFits(i, chosen[d] = i /\ Designed(d), chosen[d] = i /\ Opened(d))'
  <2>1. (Designed(d)' <=> Designed(d)) /\ (Opened(d)' <=> Opened(d))
    BY <1>1, <1>2 DEF Designed, Opened, OnBranch
  <2>2. QED BY <1>1, <2>1, CountsKept DEF files, ghosts
<1>10. backlog' = backlog
  BY <1>1 DEF files
<1>11. QED BY <1>1, <1>4, <1>5, <1>6, <1>7, <1>8, <1>9, <1>10, DailySteps

\* The file is replaced: from what was read of it, with the verdict; or from nothing.
LEMMA JudgedWritten ==
    ASSUME GenInv, NEW d \in Daily, pc[d] = "replace",
           ReplaceBacklog(d, Judged(d, Retryable))
    PROVE  /\ backlog' \in [Ideas -> Entries]
           /\ designs' \in [Ideas -> Nat] /\ prs' \in [Ideas -> Nat]
           /\ \A k \in Ideas : CountFits(k, FALSE, FALSE)'
<1> DEFINE c == chosen[d]
           v == verdict[d]
<1>1. d \in Procs /\ draft[d] \in {backlog, Unread}
  BY DEF GenInv, DraftCurrent, Procs
<1>2. /\ c \in Ideas /\ v \in Verdicts /\ backlog \in [Ideas -> Entries]
      /\ designs \in [Ideas -> Nat] /\ prs \in [Ideas -> Nat] /\ Promised!Open(backlog[c])
  BY AtWork DEF Works, GenTypeOK, Entries
<1>3. CASE draft[d] = Unread
  <2>1. backlog' = Nothing /\ designs' = Zeros /\ prs' = Zeros
    BY <1>2, <1>3 DEF ReplaceBacklog, Judged, AsRead, Nothing
  <2>2. QED BY <2>1, GenAssumption
            DEF Nothing, Zeros, Entries, Statuses, CountFits, Verdicts, Retryable
<1>4. CASE draft[d] # Unread
  <2>1. UNCHANGED <<designs, prs>> /\ AsRead(d) = backlog
    BY <1>1, <1>4 DEF ReplaceBacklog, AsRead
  <2>2. backlog[c].retries \in Nat /\ v \in Statuses /\ backlog[c].status # "absent"
    BY <1>2 DEF Entries, Statuses, Promised!Open, Promised!Retryable
  <2>3. /\ backlog' \in [Ideas -> Entries] /\ \A k \in Ideas \ {c} : backlog'[k] = backlog[k]
        /\ backlog'[c].status = v
        /\ backlog'[c].retries = IF v \in Retryable THEN backlog[c].retries + 1 ELSE backlog[c].retries
    <3> DEFINE e == [status |-> v, retries |-> backlog[c].retries + (IF v \in Retryable THEN 1 ELSE 0)]
    <3>1. e \in Entries
      BY <2>2 DEF Entries
    <3>2. backlog' = [backlog EXCEPT ![c] = e]
      BY <2>1, <2>2 DEF ReplaceBacklog, Judged
    <3>3. e.status = v /\ e.retries = IF v \in Retryable THEN backlog[c].retries + 1
                                                         ELSE backlog[c].retries
      BY <2>2
    <3> HIDE DEF e
    <3>4. QED BY <1>2, <3>1, <3>2, <3>3
  <2>4. ASSUME NEW k \in Ideas, k # c
        PROVE  CountFits(k, FALSE, FALSE)'
    BY <2>1, <2>3, <2>4, CountsOfOne, AtWork DEF CountFits
  <2>5. ASSUME NEW k \in Ideas, k = c
        PROVE  CountFits(k, FALSE, FALSE)'
    <3>1. CountFits(c, v # "pr_open", v = "completed")
      BY <1>2, CountsOfOne, AtWork DEF CountFits, Designed, Opened, OnBranch
    <3>2. /\ backlog[c].status \notin Verdicts \ Retryable
          /\ backlog[c].status \in Retryable => backlog[c].retries <= MaxRetries
      BY <1>2 DEF Promised!Open, Promised!Retryable, Retryable, Verdicts
    <3>3. backlog[c].retries <= MaxRetries
      BY <3>1, <3>2 DEF CountFits
    <3>4. designs[c] \in Nat /\ designs[c] <= backlog[c].retries + (IF v # "pr_open" THEN 1 ELSE 0)
      BY <1>2, <3>1, <3>2 DEF CountFits
    <3>5. backlog'[c].retries <= IF v \in Retryable THEN MaxRetries + 1 ELSE MaxRetries
      BY <2>2, <2>3, <3>3, GenAssumption
    <3>6. designs'[c] <= backlog'[c].retries + (IF v \in Verdicts \ Retryable THEN 1 ELSE 0)
      BY <1>2, <2>1, <2>2, <2>3, <3>4
    <3>7. prs'[c] = IF backlog'[c].status = "completed" THEN 1 ELSE 0
      BY <2>1, <2>3, <3>1, <3>2 DEF CountFits, Verdicts, Retryable
    <3>8. QED BY <1>2, <2>3, <2>5, <3>5, <3>6, <3>7 DEF CountFits
  <2>6. QED BY <1>2, <2>1, <2>3, <2>4, <2>5
<1>5. QED BY <1>3, <1>4

LEMMA UpdateKeeps ==
    ASSUME GenInv, NEW d \in Daily, UpdateBacklogStatus(d)
    PROVE  GenInv'
<1>1. /\ pc[d] = "replace" /\ GoTo(d, "finish") /\ DropDraft(d)
      /\ UNCHANGED <<lock, tree, skills, remote, pr, chosen, verdict, created>>
  BY DEF UpdateBacklogStatus
<1>2. pc'[d] = "finish" /\ pc' \in [Procs -> Places]
  BY <1>1, AtWork, PlaceTyped
<1>3. /\ d \in Procs /\ draft \in [Procs -> [Ideas -> Entries] \cup {None, Unread}]
      /\ excused \in BOOLEAN /\ cuts \in 0..MaxCuts
  BY <1>1, AtWork DEF GenTypeOK, Entries
<1>4. /\ draft' \in [Procs -> [Ideas -> Entries] \cup {None, Unread}]
      /\ draft'[d] = None /\ \A q \in Procs \ {d} : draft'[q] = draft[q]
  BY <1>1, <1>3 DEF DropDraft
<1>5. /\ backlog' \in [Ideas -> Entries] /\ designs' \in [Ideas -> Nat] /\ prs' \in [Ideas -> Nat]
      /\ cuts' \in 0..MaxCuts /\ excused' \in BOOLEAN /\ (excused => excused')
      /\ (verdict[d] = "unexpected_changes" => excused')
      /\ \A k \in Ideas : CountFits(k, FALSE, FALSE)'
  <2>1. CASE /\ ReplaceBacklog(d, Judged(d, Retryable)) /\ UNCHANGED cuts
             /\ excused' = (excused \/ verdict[d] = "unexpected_changes")
    BY <1>1, <1>3, <2>1, JudgedWritten
  <2>2. CASE CutOff(d) /\ Unrecorded(d) /\ UNCHANGED backlog
    <3>1. backlog \in [Ideas -> Entries]
      BY <1>1, AtWork DEF GenTypeOK, Entries
    <3>2. excused' = TRUE
      BY <2>2 DEF CutOff
    <3>3. QED BY <1>1, <2>2, <3>1, <3>2, CutCounts, CutOffCounts
  <2>3. QED BY <2>1, <2>2 DEF UpdateBacklogStatus
<1>6. GenTypeOK'
  BY <1>1, <1>2, <1>4, <1>5, AtWork DEF GenTypeOK, Entries
<1>7. Works(d)'
  BY <1>2 DEF Works, Working, OnBranch
<1>8. TreeFits(d)'
  BY <1>1, <1>2, <1>5, AtWork DEF TreeFits, OnBranch
<1>9. TreeRests'
  BY <1>1, <1>5, AtWork DEF TreeRests, SafeTree
<1>10. \A k \in Ideas : CountFits(k, chosen[d] = k /\ Designed(d), chosen[d] = k /\ Opened(d))'
  <2>1. ~Designed(d)' /\ ~Opened(d)'
    BY <1>2 DEF Designed, Opened, OnBranch
  <2>2. QED BY <1>5, <2>1 DEF CountFits
<1>11. QED BY <1>1, <1>4, <1>6, <1>7, <1>8, <1>9, <1>10, DailySteps

\* Of the run that ends, by itself or killed, nothing is kept in memory.
Forgotten(p) ==
    /\ IF p \in Daily
         THEN /\ chosen' = [chosen EXCEPT ![p] = None]
              /\ verdict' = [verdict EXCEPT ![p] = None]
              /\ created' = [created EXCEPT ![p] = FALSE]
         ELSE UNCHANGED <<chosen, verdict, created>>
    /\ DropDraft(p) \/ (pc[p] = "finish" /\ UNCHANGED draft)

LEMMA OthersRest ==
    ASSUME GenInv, NEW p \in Procs, pc[p] # "idle", NEW d \in Daily, d # p
    PROVE  pc[d] = "idle" /\ ~created[d] /\ verdict[d] = None /\ ~Designed(d) /\ ~Opened(d)
<1>1. pc[d] = "idle"
  BY OthersIdle DEF Procs
<1>2. QED BY <1>1 DEF GenInv, Works, Designed, Opened, OnBranch

LEMMA ForgottenKeeps ==
    ASSUME GenInv, NEW p \in Procs, pc[p] # "idle", Forgotten(p), GoTo(p, "idle")
    PROVE  /\ pc' \in [Procs -> Places] /\ \A q \in Procs : pc'[q] = "idle"
           /\ draft' \in [Procs -> [Ideas -> Entries] \cup {None, Unread}]
           /\ \A q \in Procs : draft'[q] = None
           /\ chosen' \in [Daily -> Ideas \cup {None}]
           /\ verdict' \in [Daily -> Verdicts \cup {None}]
           /\ created' \in [Daily -> BOOLEAN]
           /\ \A d \in Daily : ~created'[d] /\ verdict'[d] = None
<1>1. /\ pc \in [Procs -> Places] /\ draft \in [Procs -> [Ideas -> Entries] \cup {None, Unread}]
      /\ chosen \in [Daily -> Ideas \cup {None}] /\ verdict \in [Daily -> Verdicts \cup {None}]
      /\ created \in [Daily -> BOOLEAN]
  BY DEF GenInv, GenTypeOK, Entries
<1>2. pc' \in [Procs -> Places] /\ \A q \in Procs : pc'[q] = "idle"
  BY <1>1, OthersIdle DEF GoTo, Places
<1>3. \A q \in Procs : draft'[q] = None
  <2>1. \A q \in Procs \ {p} : draft[q] = None
    BY OthersIdle DEF GenInv, DraftCurrent
  <2>2. pc[p] = "finish" => draft[p] = None
    BY DEF GenInv, DraftCurrent
  <2>3. QED BY <1>1, <2>1, <2>2 DEF Forgotten, DropDraft
<1>4. draft' \in [Procs -> [Ideas -> Entries] \cup {None, Unread}]
  BY <1>1 DEF Forgotten, DropDraft
<1>5. CASE p \in Daily
  BY <1>1, <1>2, <1>3, <1>4, <1>5, OthersRest DEF Forgotten
<1>6. CASE p \notin Daily
  BY <1>1, <1>2, <1>3, <1>4, <1>6, OthersRest DEF Forgotten
<1>7. QED BY <1>5, <1>6

\* Nobody runs: what is left of the invariant.
LEMMA RestKeeps ==
    ASSUME GenTypeOK', TreeRests',
           \A q \in Procs : pc'[q] = "idle" /\ draft'[q] = None,
           \A d \in Daily : ~created'[d] /\ verdict'[d] = None,
           \A i \in Ideas : CountFits(i, FALSE, FALSE)'
    PROVE  GenInv'
<1>1. OneActive' /\ DraftCurrent'
  BY DEF OneActive, DraftCurrent
<1>2. \A d \in Daily : Works(d)' /\ TreeFits(d)' /\ ~Designed(d)' /\ ~Opened(d)'
  BY DEF Works, TreeFits, Working, OnBranch, Procs, Designed, Opened
<1>3. CountsFit'
  BY <1>2 DEF CountsFit, CountFits
<1>4. QED BY <1>1, <1>2, <1>3 DEF GenInv

LEMMA FinishKeeps ==
    ASSUME GenInv, NEW p \in Procs, Finish(p)
    PROVE  GenInv'
<1>1. /\ pc[p] = "finish" /\ lock' = Free /\ Forgotten(p) /\ GoTo(p, "idle")
      /\ UNCHANGED <<backlog, skills, remote, pr, designs, prs, cuts>>
  BY DEF Finish, Forgotten
<1>2. PICK way \in {"back", "stuck", "none"} :
        /\ way = "none" <=> (p \in Daily => ~created[p])
        /\ tree' = IF way = "back" THEN BackToMain ELSE tree
        /\ excused' = IF way = "stuck" THEN TRUE ELSE excused
  BY DEF Finish
<1>3. GenTypeOK /\ TreeRests
  BY DEF GenInv
<1>4. /\ pc' \in [Procs -> Places] /\ \A q \in Procs : pc'[q] = "idle"
      /\ draft' \in [Procs -> [Ideas -> Entries] \cup {None, Unread}]
      /\ \A q \in Procs : draft'[q] = None
      /\ chosen' \in [Daily -> Ideas \cup {None}] /\ verdict' \in [Daily -> Verdicts \cup {None}]
      /\ created' \in [Daily -> BOOLEAN]
      /\ \A d \in Daily : ~created'[d] /\ verdict'[d] = None
  BY <1>1, ForgottenKeeps
<1>5. /\ tree' \in Trees /\ tree'.skill = tree.skill /\ tree'.stray = tree.stray
      /\ way = "back" => tree'.branch = Main /\ ~tree'.commit
  BY <1>2, <1>3 DEF GenTypeOK, Trees, BackToMain
<1>6. excused' \in BOOLEAN /\ (excused => excused') /\ (way = "stuck" => excused')
  BY <1>2, <1>3 DEF GenTypeOK
<1>7. GenTypeOK'
  BY <1>1, <1>3, <1>4, <1>5, <1>6 DEF GenTypeOK, Trees, Entries
<1>8. TreeRests'
  <2>1. CASE way = "none"
    <3>1. \A d \in Daily : ~created[d]
      BY <1>1, <1>2, <2>1, OthersRest
    <3>2. UNCHANGED <<tree, excused>>
      BY <1>2, <2>1
    <3>3. QED BY <1>3, <3>1, <3>2 DEF TreeRests, SafeTree
  <2>2. CASE way = "back"
    <3>1. excused \/ (tree.skill = {} /\ ~tree.stray)
      BY <1>1, <1>2, <2>2 DEF GenInv, TreeFits
    <3>2. QED BY <1>5, <1>6, <2>2, <3>1 DEF TreeRests, SafeTree
  <2>3. CASE way = "stuck"
    BY <1>2, <1>3, <1>6, <2>3 DEF TreeRests
  <2>4. QED BY <2>1, <2>2, <2>3
<1>9. \A i \in Ideas : CountFits(i, FALSE, FALSE)'
  <2>1. \A d \in Daily : ~Designed(d) /\ ~Opened(d)
    BY <1>1, OthersRest DEF Designed, Opened, OnBranch
  <2>2. QED BY <1>1, <2>1, CountsAtRest DEF CountFits
<1>10. QED BY <1>4, <1>7, <1>8, <1>9, RestKeeps

LEMMA KillKeeps ==
    ASSUME GenInv, NEW p \in Procs, Kill(p)
    PROVE  GenInv'
<1>1. /\ pc[p] # "idle" /\ lock' \in {Stale, lock} /\ Forgotten(p) /\ GoTo(p, "idle")
      /\ UNCHANGED files
  BY DEF Kill, Forgotten
<1>2. GenTypeOK /\ TreeRests /\ files' = files
  BY <1>1 DEF GenInv
<1>3. /\ pc' \in [Procs -> Places] /\ \A q \in Procs : pc'[q] = "idle"
      /\ draft' \in [Procs -> [Ideas -> Entries] \cup {None, Unread}]
      /\ \A q \in Procs : draft'[q] = None
      /\ chosen' \in [Daily -> Ideas \cup {None}] /\ verdict' \in [Daily -> Verdicts \cup {None}]
      /\ created' \in [Daily -> BOOLEAN]
      /\ \A d \in Daily : ~created'[d] /\ verdict'[d] = None
  BY <1>1, ForgottenKeeps
<1>4. CASE p \in Daily /\ pc[p] \in OnBranch \cup {"record", "replace"}
  <2>1. CutOff(p) /\ Unrecorded(p) /\ excused'
    BY <1>4 DEF Kill, CutOff
  <2>2. prs' \in [Ideas -> Nat] /\ \A i \in Ideas : CountFits(i, FALSE, FALSE)'
    BY <1>1, <1>4, <2>1, CutCounts DEF files
  <2>3. designs' \in [Ideas -> Nat] /\ cuts' \in 0..MaxCuts /\ excused' = TRUE
    BY <1>4, <2>1, CutOffCounts DEF CutOff
  <2>4. GenTypeOK'
    BY <1>1, <1>2, <1>3, <2>2, <2>3 DEF GenTypeOK, files, Entries
  <2>5. TreeRests'
    BY <1>2, <2>3 DEF TreeRests, files
  <2>6. QED BY <1>3, <2>2, <2>4, <2>5, RestKeeps
<1>5. CASE ~(p \in Daily /\ pc[p] \in OnBranch \cup {"record", "replace"})
  <2>1. excused' = (excused \/ (p \in Daily /\ created[p])) /\ UNCHANGED <<designs, prs, cuts>>
    BY <1>5 DEF Kill
  <2>2. GenTypeOK'
    BY <1>1, <1>2, <1>3, <2>1 DEF GenTypeOK, files, Entries
  <2>3. TreeRests'
    <3>1. \A d \in Daily \ {p} : ~created[d]
      BY <1>1, OthersRest
    <3>2. ~excused' => ~excused /\ \A d \in Daily : ~created[d]
      BY <2>1, <3>1
    <3>3. QED BY <1>2, <3>2 DEF TreeRests, SafeTree, files
  <2>4. \A d \in Daily : ~Designed(d) /\ ~Opened(d)
    BY <1>1, <1>5, OthersRest DEF Designed, Opened, OnBranch
  <2>5. \A i \in Ideas : CountFits(i, FALSE, FALSE)'
    BY <1>2, <2>1, <2>4, CountsAtRest DEF CountFits, files
  <2>6. QED BY <1>3, <2>2, <2>3, <2>5, RestKeeps
<1>6. QED BY <1>4, <1>5

-----------------------------------------------------------------------------
(* The lock, the weekly run, and the world.                                *)

\* A step that neither works on an idea nor records anything.
LEMMA CountsUntouched ==
    ASSUME GenInv, UNCHANGED <<backlog, chosen, designs, prs>>,
           \A d \in Daily : (Designed(d)' <=> Designed(d)) /\ (Opened(d)' <=> Opened(d))
    PROVE  CountsFit'
<1> SUFFICES ASSUME NEW i \in Ideas
             PROVE  CountFits(i, \E d \in Daily : chosen[d] = i /\ Designed(d),
                                 \E d \in Daily : chosen[d] = i /\ Opened(d))'
  BY DEF CountsFit
<1>1. (\E d \in Daily : chosen[d] = i /\ Designed(d))' <=> (\E d \in Daily : chosen[d] = i /\ Designed(d))
  OBVIOUS
<1>2. (\E d \in Daily : chosen[d] = i /\ Opened(d))' <=> (\E d \in Daily : chosen[d] = i /\ Opened(d))
  OBVIOUS
<1>3. CountFits(i, \E d \in Daily : chosen[d] = i /\ Designed(d),
                   \E d \in Daily : chosen[d] = i /\ Opened(d))
  BY DEF GenInv, CountsFit
<1>4. QED BY <1>1, <1>2, <1>3 DEF CountFits

LEMMA LockKeeps ==
    ASSUME GenInv, Staggered, NEW p \in Procs, CheckLock(p) \/ WriteLock(p)
    PROVE  GenInv'
<1>1. PICK place \in {"locking", "select", "mine"} :
        /\ GoTo(p, place) /\ UNCHANGED <<files, local, ghosts>>
        /\ IF place = "locking" THEN lock' = Free ELSE lock' = p
        /\ pc[p] \in {"idle", "locking"}
        /\ \A q \in Procs \ {p} : pc[q] = "idle"
  <2>1. CASE CheckLock(p)
    <3>1. \A q \in Procs : pc[q] = "idle"
      BY <2>1 DEF CheckLock, GenInv, OneActive
    <3>2. QED BY <2>1, <3>1 DEF CheckLock
  <2>2. CASE WriteLock(p)
    <3>1. \A q \in Procs \ {p} : pc[q] = "idle"
      BY <2>2, OthersIdle DEF WriteLock
    <3>2. QED BY <2>2, <3>1 DEF WriteLock
  <2>3. QED BY <2>1, <2>2
<1>2. GenTypeOK /\ TreeRests /\ pc \in [Procs -> Places]
  BY DEF GenInv, GenTypeOK
<1>3. /\ pc' \in [Procs -> Places] /\ pc'[p] = place
      /\ \A q \in Procs \ {p} : pc'[q] = "idle"
  BY <1>1, <1>2 DEF GoTo, Places
<1>4. GenTypeOK'
  BY <1>1, <1>2, <1>3 DEF GenTypeOK, files, local, ghosts
<1>5. OneActive'
  BY <1>1, <1>3 DEF OneActive
<1>6. \A d \in Daily : ~created[d] /\ verdict[d] = None
  <2> SUFFICES ASSUME NEW d \in Daily PROVE ~created[d] /\ verdict[d] = None
    OBVIOUS
  <2>1. Works(d) /\ pc[d] \in {"idle", "locking"}
    BY <1>1 DEF GenInv, Procs
  <2>2. QED BY <2>1 DEF Works
<1>7. \A d \in Daily : pc'[d] \in {"idle", "locking", "select", "mine"}
  BY <1>1, <1>3 DEF Procs
<1>8. \A d \in Daily : Works(d)' /\ TreeFits(d)'
  BY <1>1, <1>6, <1>7 DEF Works, TreeFits, Working, OnBranch, local
<1>9. DraftCurrent'
  <2>1. \A q \in Procs : draft'[q] = None
    BY <1>1 DEF GenInv, DraftCurrent, local
  <2>2. QED BY <1>1, <1>3, <2>1 DEF DraftCurrent
<1>10. TreeRests'
  BY <1>1, <1>2 DEF TreeRests, SafeTree, files, local, ghosts
<1>11. CountsFit'
  <2>1. \A d \in Daily : ~Designed(d)' /\ ~Opened(d)'
    BY <1>7 DEF Designed, Opened, OnBranch
  <2>2. \A d \in Daily : ~Designed(d) /\ ~Opened(d)
    BY <1>1 DEF Designed, Opened, OnBranch, Procs
  <2>3. QED BY <1>1, <2>1, <2>2, CountsUntouched DEF files, local, ghosts
<1>12. QED BY <1>4, <1>5, <1>8, <1>9, <1>10, <1>11 DEF GenInv

Fresh == {"absent", "pending", "duplicate"}

\* Ideas are added to the backlog there is, or one of new ideas takes its place.
Entered ==
    \E new \in [{i \in Ideas : backlog[i].status = "absent"} -> Fresh] :
        backlog' = [i \in Ideas |-> IF i \in DOMAIN new THEN [backlog[i] EXCEPT !.status = new[i]]
                                                        ELSE backlog[i]]
Begun ==
    \E new \in [Ideas -> Fresh] : backlog' = [i \in Ideas |-> [status |-> new[i], retries |-> 0]]

\* Merging what was mined changes no idea of the backlog, if it was read.
LEMMA WeeklyBacklog ==
    ASSUME GenInv, NEW w \in Weekly, SaveBacklog(w)
    PROVE  \/ UNCHANGED <<backlog, designs, prs>>
           \/ draft[w] # Unread /\ Entered /\ UNCHANGED <<designs, prs>>
           \/ draft[w] = Unread /\ Begun /\ designs' = Zeros /\ prs' = Zeros
<1> SUFFICES ASSUME ~UNCHANGED <<backlog, designs, prs>>
             PROVE  \/ draft[w] # Unread /\ Entered /\ UNCHANGED <<designs, prs>>
                    \/ draft[w] = Unread /\ Begun /\ designs' = Zeros /\ prs' = Zeros
  OBVIOUS
<1> DEFINE read == AsRead(w)
           merged(new) == [i \in Ideas |-> IF i \in DOMAIN new
                                             THEN [read[i] EXCEPT !.status = new[i]] ELSE read[i]]
<1>1. PICK new \in [{i \in Ideas : read[i].status = "absent"} -> Fresh] :
        ReplaceBacklog(w, merged(new))
  BY DEF SaveBacklog, Fresh
<1>2. draft[w] \in {backlog, Unread}
  BY DEF SaveBacklog, GenInv, DraftCurrent, Procs
<1>3. CASE draft[w] = Unread
  <2>1. /\ backlog' = merged(new) /\ designs' = Zeros /\ prs' = Zeros
        /\ read = Nothing
    BY <1>1, <1>3 DEF ReplaceBacklog, AsRead
  <2>2. {i \in Ideas : read[i].status = "absent"} = Ideas
    BY <2>1 DEF Nothing
  <2>3. new \in [Ideas -> Fresh]
    BY <1>1, <2>2
  <2>4. backlog' = [i \in Ideas |-> [status |-> new[i], retries |-> 0]]
    <3>1. \A i \in Ideas : [Nothing[i] EXCEPT !.status = new[i]] = [status |-> new[i], retries |-> 0]
      BY DEF Nothing
    <3>2. backlog' = [i \in Ideas |-> [Nothing[i] EXCEPT !.status = new[i]]]
      BY <2>1, <2>3
    <3>3. QED BY <3>1, <3>2
  <2>5. Begun
    BY <2>3, <2>4 DEF Begun
  <2>6. QED BY <1>3, <2>1, <2>5
<1>4. CASE draft[w] # Unread
  <2>1. backlog' = merged(new) /\ UNCHANGED <<designs, prs>> /\ read = backlog
    BY <1>1, <1>2, <1>4 DEF ReplaceBacklog, AsRead
  <2>2. Entered
    BY <1>1, <2>1 DEF Entered
  <2>3. QED BY <1>4, <2>1, <2>2
<1>5. QED BY <1>3, <1>4

LEMMA EnteredKeeps ==
    ASSUME GenInv, Entered
    PROVE  /\ backlog' \in [Ideas -> Entries]
           /\ \A i \in Ideas :
                /\ backlog'[i].retries = backlog[i].retries
                /\ \/ backlog'[i].status = backlog[i].status
                   \/ {backlog[i].status, backlog'[i].status} \subseteq Fresh
<1> DEFINE seen == {i \in Ideas : backlog[i].status = "absent"}
<1>1. PICK new \in [seen -> Fresh] :
        backlog' = [i \in Ideas |-> IF i \in DOMAIN new
                                      THEN [backlog[i] EXCEPT !.status = new[i]] ELSE backlog[i]]
  BY DEF Entered
<1>2. backlog \in [Ideas -> Entries]
  BY DEF GenInv, GenTypeOK, Entries
<1>3. ASSUME NEW i \in Ideas
      PROVE  /\ backlog'[i] \in Entries
             /\ backlog'[i].retries = backlog[i].retries
             /\ \/ backlog'[i].status = backlog[i].status
                \/ {backlog[i].status, backlog'[i].status} \subseteq Fresh
  <2>1. backlog[i] \in Entries /\ Fresh \subseteq Statuses
    BY <1>2 DEF Statuses, Fresh
  <2>2. CASE i \in seen
    <3>1. backlog'[i] = [backlog[i] EXCEPT !.status = new[i]] /\ new[i] \in Fresh
      BY <1>1, <2>2
    <3>2. backlog[i].status = "absent"
      BY <2>2
    <3>3. /\ backlog'[i] \in Entries /\ backlog'[i].status = new[i]
          /\ backlog'[i].retries = backlog[i].retries
      BY <2>1, <3>1 DEF Entries
    <3>4. QED BY <3>1, <3>2, <3>3 DEF Fresh
  <2>3. CASE i \notin seen
    BY <1>1, <2>1, <2>3
  <2>4. QED BY <2>2, <2>3
<1>4. QED BY <1>1, <1>3

\* What a weekly run writes keeps the counts right, nobody being at work on an idea.
LEMMA SavedCounts ==
    ASSUME GenInv, NEW w \in Weekly, SaveBacklog(w), \A d \in Daily : ~Designed(d) /\ ~Opened(d)
    PROVE  /\ backlog' \in [Ideas -> Entries]
           /\ designs' \in [Ideas -> Nat] /\ prs' \in [Ideas -> Nat]
           /\ \A i \in Ideas : CountFits(i, FALSE, FALSE)'
<1>1. /\ backlog \in [Ideas -> Entries] /\ designs \in [Ideas -> Nat] /\ prs \in [Ideas -> Nat]
      /\ \A i \in Ideas : CountFits(i, FALSE, FALSE)
  BY CountsAtRest DEF GenInv, GenTypeOK, Entries
<1>2. CASE UNCHANGED <<backlog, designs, prs>>
  BY <1>1, <1>2 DEF CountFits
<1>3. CASE Entered /\ UNCHANGED <<designs, prs>>
  <2>1. /\ backlog' \in [Ideas -> Entries]
        /\ \A i \in Ideas :
             /\ backlog'[i].retries = backlog[i].retries
             /\ \/ backlog'[i].status = backlog[i].status
                \/ {backlog[i].status, backlog'[i].status} \subseteq Fresh
    BY <1>3, EnteredKeeps
  <2>2. ASSUME NEW i \in Ideas
        PROVE  CountFits(i, FALSE, FALSE)'
    <3>1. CASE backlog'[i].status = backlog[i].status
      BY <1>1, <1>3, <2>1, <3>1 DEF CountFits
    <3>2. CASE backlog'[i].status # backlog[i].status
      <4>1. /\ {backlog[i].status, backlog'[i].status} \cap Verdicts = {}
            /\ backlog'[i].retries = backlog[i].retries
            /\ backlog[i].status # "completed" /\ backlog'[i].status # "completed"
        BY <2>1, <3>2 DEF Verdicts, Retryable, Fresh
      <4>2. {backlog[i].status, backlog'[i].status} \cap Retryable = {}
        BY <4>1 DEF Verdicts
      <4>3. QED BY <1>1, <1>3, <4>1, <4>2 DEF CountFits
    <3>3. QED BY <3>1, <3>2
  <2>3. QED BY <1>1, <1>3, <2>1, <2>2
<1>4. CASE Begun /\ designs' = Zeros /\ prs' = Zeros
  <2>1. PICK new \in [Ideas -> Fresh] :
          backlog' = [i \in Ideas |-> [status |-> new[i], retries |-> 0]]
    BY <1>4 DEF Begun
  <2>2. Fresh \subseteq Statuses /\ Fresh \cap Verdicts = {} /\ Fresh \cap Retryable = {}
        /\ "completed" \notin Fresh
    BY DEF Fresh, Statuses, Verdicts, Retryable
  <2>3. backlog' \in [Ideas -> Entries]
    BY <2>1, <2>2 DEF Entries
  <2>4. ASSUME NEW i \in Ideas
        PROVE  CountFits(i, FALSE, FALSE)'
    <3>1. /\ backlog'[i].status \in Fresh /\ backlog'[i].retries = 0
          /\ designs'[i] = 0 /\ prs'[i] = 0
      BY <1>4, <2>1 DEF Zeros
    <3>2. QED BY <2>2, <3>1, GenAssumption DEF CountFits
  <2>5. QED BY <1>4, <2>3, <2>4 DEF Zeros
<1>5. QED BY <1>2, <1>3, <1>4, WeeklyBacklog

LEMMA WeeklyKeeps ==
    ASSUME GenInv, NEW w \in Weekly, WeeklyStep(w)
    PROVE  GenInv'
<1>1. PICK place \in {"load", "save", "finish"} :
        /\ GoTo(w, place) /\ pc[w] \in {"mine", "load", "save"}
        /\ UNCHANGED <<lock, tree, skills, remote, pr, chosen, verdict, created, cuts, excused>>
        /\ IF place = "save" THEN ReadBacklog(w)
                             ELSE \/ DropDraft(w)
                                  \/ pc[w] = "mine" /\ UNCHANGED draft
        /\ UNCHANGED <<backlog, designs, prs>> \/ SaveBacklog(w)
        /\ place = "save" => UNCHANGED backlog
  <2>1. CASE Mine(w)
    BY <2>1 DEF Mine, files, local, ghosts
  <2>2. CASE LoadBacklog(w)
    BY <2>2 DEF LoadBacklog, files, ghosts
  <2>3. CASE SaveBacklog(w)
    BY <2>3 DEF SaveBacklog
  <2>4. QED BY <2>1, <2>2, <2>3 DEF WeeklyStep
<1>2. /\ GenTypeOK /\ TreeRests /\ w \in Procs /\ pc \in [Procs -> Places]
      /\ draft \in [Procs -> [Ideas -> Entries] \cup {None, Unread}]
      /\ backlog \in [Ideas -> Entries]
      /\ designs \in [Ideas -> Nat] /\ prs \in [Ideas -> Nat]
  BY DEF GenInv, GenTypeOK, Procs, Entries
<1>3. \A q \in Procs \ {w} : pc[q] = "idle" /\ pc'[q] = "idle" /\ draft[q] = None
  <2>1. \A q \in Procs \ {w} : pc[q] = "idle" /\ pc'[q] = "idle"
    BY <1>1, <1>2, OthersIdle DEF GoTo
  <2>2. QED BY <2>1 DEF GenInv, DraftCurrent
<1>4. pc' \in [Procs -> Places] /\ pc'[w] = place
  BY <1>1, <1>2 DEF GoTo, Places
<1>5. \A d \in Daily : d \in Procs \ {w}
  BY GenAssumption DEF Procs
<1>6. \A d \in Daily : ~Designed(d) /\ ~Opened(d) /\ ~Designed(d)' /\ ~Opened(d)'
  BY <1>3, <1>5 DEF Designed, Opened, OnBranch
<1>7. /\ backlog' \in [Ideas -> Entries] /\ designs' \in [Ideas -> Nat] /\ prs' \in [Ideas -> Nat]
      /\ \A i \in Ideas : CountFits(i, FALSE, FALSE)'
  <2>1. CASE UNCHANGED <<backlog, designs, prs>>
    <3>1. \A i \in Ideas : CountFits(i, FALSE, FALSE)
      BY <1>6, CountsAtRest
    <3>2. QED BY <1>2, <2>1, <3>1 DEF CountFits
  <2>2. CASE SaveBacklog(w)
    BY <1>6, <2>2, SavedCounts
  <2>3. QED BY <1>1, <2>1, <2>2
<1>8. /\ draft' \in [Procs -> [Ideas -> Entries] \cup {None, Unread}]
      /\ \A q \in Procs \ {w} : draft'[q] = None
      /\ IF place = "save" THEN draft'[w] \in {backlog', Unread} ELSE draft'[w] = None
  <2>1. pc[w] = "mine" => draft[w] = None
    BY <1>2 DEF GenInv, DraftCurrent
  <2>2. QED BY <1>1, <1>2, <1>3, <2>1 DEF ReadBacklog, DropDraft
<1>9. GenTypeOK'
  BY <1>1, <1>2, <1>4, <1>7, <1>8 DEF GenTypeOK, Entries
<1>10. OneActive'
  BY <1>1, <1>2, <1>3, <1>4 DEF OneActive, GenInv
<1>11. \A d \in Daily : Works(d)' /\ TreeFits(d)'
  <2> SUFFICES ASSUME NEW d \in Daily PROVE Works(d)' /\ TreeFits(d)'
    OBVIOUS
  <2>1. pc[d] = "idle" /\ pc'[d] = "idle" /\ Works(d)
    BY <1>3, <1>5 DEF GenInv
  <2>2. ~created'[d] /\ verdict'[d] = None
    BY <1>1, <2>1 DEF Works
  <2>3. QED BY <2>1, <2>2 DEF Works, TreeFits, Working, OnBranch
<1>12. DraftCurrent'
  BY <1>3, <1>4, <1>8 DEF DraftCurrent
<1>13. TreeRests'
  BY <1>1, <1>2 DEF TreeRests, SafeTree
<1>14. CountsFit'
  BY <1>6, <1>7 DEF CountsFit, CountFits
<1>15. QED BY <1>9, <1>10, <1>11, <1>12, <1>13, <1>14 DEF GenInv

\* The operator, reviewers and other skills: what no run of the pipeline looks at.
LEMMA WorldKeeps ==
    ASSUME GenInv, UNCHANGED <<lock, pc, backlog, local, designs, prs, cuts, excused>>,
           /\ tree' \in Trees /\ tree'.branch = tree.branch /\ tree'.commit = tree.commit
           /\ tree'.skill = tree.skill /\ tree'.stray = tree.stray,
           /\ skills' \in [here : SUBSET Ideas, origin : SUBSET Ideas]
           /\ remote' \in SUBSET Ideas /\ pr' \in [Ideas -> {"none", "open", "merged", "closed"}]
    PROVE  GenInv'
<1>1. GenTypeOK'
  BY DEF GenInv, GenTypeOK, Trees, local
<1>2. OneActive' /\ DraftCurrent' /\ TreeRests'
  BY DEF GenInv, OneActive, DraftCurrent, TreeRests, SafeTree, local
<1>3. \A d \in Daily : Works(d)' /\ TreeFits(d)'
  <2> SUFFICES ASSUME NEW d \in Daily PROVE Works(d)' /\ TreeFits(d)'
    OBVIOUS
  <2>1. Works(d) /\ TreeFits(d) /\ UNCHANGED <<pc, backlog, chosen, verdict, created, excused>>
    BY DEF GenInv, local
  <2>2. Works(d)'
    BY <2>1 DEF Works
  <2>3. TreeFits(d)'
    BY <2>1 DEF TreeFits, SafeTree
  <2>4. QED BY <2>2, <2>3
<1>4. CountsFit'
  BY CountsUntouched DEF Designed, Opened, local
<1>5. QED BY <1>1, <1>2, <1>3, <1>4 DEF GenInv

LEMMA SettleKeeps ==
    ASSUME GenInv, NEW i \in Ideas, Settle(i)
    PROVE  GenInv'
<1>1. GenTypeOK /\ tree \in Trees
  BY DEF GenInv, GenTypeOK, Trees
<1>2. skills' \in [here : SUBSET Ideas, origin : SUBSET Ideas]
  BY <1>1 DEF Settle, GenTypeOK
<1>3. remote' \in SUBSET Ideas /\ pr' \in [Ideas -> {"none", "open", "merged", "closed"}]
  BY <1>1 DEF Settle, GenTypeOK
<1>4. UNCHANGED <<lock, pc, backlog, local, designs, prs, cuts, excused>> /\ tree' = tree
  BY DEF Settle, ghosts
<1>5. QED BY <1>1, <1>2, <1>3, <1>4, WorldKeeps

LEMMA JournalKeeps ==
    ASSUME GenInv, Journal
    PROVE  GenInv'
<1>1. GenTypeOK /\ tree \in Trees
  BY DEF GenInv, GenTypeOK, Trees
<1>2. /\ tree' \in Trees /\ tree'.branch = tree.branch /\ tree'.commit = tree.commit
      /\ tree'.skill = tree.skill /\ tree'.stray = tree.stray
  BY <1>1 DEF Journal, Trees
<1>3. UNCHANGED <<lock, pc, backlog, skills, remote, pr, local, designs, prs, cuts, excused>>
  BY DEF Journal, ghosts
<1>4. QED BY <1>1, <1>2, <1>3, WorldKeeps DEF GenTypeOK

LEMMA RepairKeeps ==
    ASSUME GenInv, Repair
    PROVE  GenInv'
<1>1. /\ \A p \in Procs : pc[p] = "idle" /\ pc'[p] = "idle"
      /\ tree' = [CleanTree EXCEPT !.journal = tree.journal] /\ excused' = FALSE
      /\ UNCHANGED <<lock, pc, backlog, skills, remote, pr, local, designs, prs, cuts>>
  BY DEF Repair
<1>2. GenTypeOK /\ tree \in Trees
  BY DEF GenInv, GenTypeOK, Trees
<1>3. /\ tree' \in Trees /\ tree'.branch = Main /\ ~tree'.commit
      /\ tree'.skill = {} /\ ~tree'.stray
  BY <1>1, <1>2 DEF CleanTree, Trees
<1>4. GenTypeOK'
  BY <1>1, <1>2, <1>3 DEF GenTypeOK, Trees, local
<1>5. TreeRests'
  BY <1>3 DEF TreeRests, SafeTree
<1>6. \A d \in Daily : pc[d] = "idle" /\ ~created'[d] /\ verdict'[d] = None
  BY <1>1 DEF GenInv, Works, Procs, local
<1>7. \A i \in Ideas : CountFits(i, FALSE, FALSE)'
  <2>1. \A d \in Daily : ~Designed(d) /\ ~Opened(d)
    BY <1>6 DEF Designed, Opened, OnBranch
  <2>2. QED BY <1>1, <2>1, CountsAtRest DEF CountFits
<1>8. \A q \in Procs : draft'[q] = None
  BY <1>1 DEF GenInv, DraftCurrent, local
<1>9. QED BY <1>1, <1>4, <1>5, <1>6, <1>7, <1>8, RestKeeps

LEMMA GenStepInv ==
    Staggered /\ GenInv /\ [GenNext]_genVars => GenInv'
<1> SUFFICES ASSUME Staggered, GenInv, [GenNext]_genVars PROVE GenInv'
  OBVIOUS
<1>1. ASSUME NEW p \in Procs, CheckLock(p) \/ WriteLock(p) \/ Finish(p) \/ Kill(p)
      PROVE  GenInv'
  BY <1>1, LockKeeps, FinishKeeps, KillKeeps
<1>2. ASSUME NEW d \in Daily, DailyStep(d)
      PROVE  GenInv'
  BY <1>2, SelectKeeps, GateKeeps, FindKeeps, BranchKeeps, DesignKeeps, CheckKeeps, ReviewKeeps,
     CommitKeeps, PushKeeps, OpenKeeps, ReturnKeeps, RollbackKeeps, RereadKeeps, UpdateKeeps
  DEF DailyStep
<1>3. ASSUME NEW w \in Weekly, WeeklyStep(w)
      PROVE  GenInv'
  BY <1>3, WeeklyKeeps
<1>4. ASSUME NEW i \in Ideas, Settle(i)
      PROVE  GenInv'
  BY <1>4, SettleKeeps
<1>5. CASE Repair
  BY <1>5, RepairKeeps
<1>6. CASE Journal
  BY <1>6, JournalKeeps
<1>7. CASE UNCHANGED genVars
  <2>1. /\ UNCHANGED <<lock, pc, backlog, local, designs, prs, cuts, excused>>
        /\ UNCHANGED <<tree, skills, remote, pr>>
    BY <1>7 DEF genVars, files, local, ghosts
  <2>2. /\ tree \in Trees /\ skills \in [here : SUBSET Ideas, origin : SUBSET Ideas]
        /\ remote \in SUBSET Ideas /\ pr \in [Ideas -> {"none", "open", "merged", "closed"}]
    BY DEF GenInv, GenTypeOK, Trees
  <2>3. QED BY <2>1, <2>2, WorldKeeps
<1>8. QED BY <1>1, <1>2, <1>3, <1>4, <1>5, <1>6, <1>7 DEF GenNext

-----------------------------------------------------------------------------
(* The theorems.                                                           *)

\* All of the invariant holds at every state of staggered launches: one run at a
\* time, whose place, idea, branch, tree and counts fit each other.
THEOREM GenInductive == Staggered /\ GenSpec => []GenInv
<1>1. CASE Staggered
  <2>1. GenInv /\ [GenNext]_genVars => GenInv'
    BY <1>1, GenStepInv
  <2>2. QED BY <2>1, GenInitInv, PTL DEF GenSpec
<1>2. CASE ~Staggered
  BY <1>2
<1>3. QED BY <1>1, <1>2

\* Type correctness of the pipeline, which bounds the cuts and keeps every count
\* a natural number.
THEOREM GenTypeCorrect == Staggered /\ GenSpec => []GenTypeOK
<1>1. GenInv => GenTypeOK
  BY DEF GenInv
<1>2. QED BY <1>1, GenInductive, PTL

\* A run that ends by itself leaves a tree git_safe_check lets the next run work
\* on, whatever it found, unless something excuses it.
THEOREM LeavesTreeReady == Staggered /\ GenSpec => []TreeReady
<1>1. GenInv => TreeReady
  <2> SUFFICES ASSUME GenInv, ~excused, \A p \in Procs : pc[p] = "idle"
               PROVE  SafeTree /\ ~tree.commit
    BY DEF TreeReady
  <2>1. \A d \in Daily : ~created[d]
    BY DEF GenInv, Works, Procs
  <2>2. QED BY <2>1 DEF GenInv, TreeRests
<1>2. QED BY <1>1, GenInductive, PTL

\* However often an idea fails, the designer is started on it at most MAX_RETRIES
\* times after the first, because every ended attempt is counted in the backlog, and
\* only a run that could not read the backlog begins it, and the counts, anew.
THEOREM DesignerBounded == Staggered /\ GenSpec => []DesignsBounded
<1>1. GenInv => DesignsBounded
  <2> SUFFICES ASSUME GenInv, NEW i \in Ideas
               PROVE  designs[i] <= 1 + MaxRetries
    BY DEF DesignsBounded
  <2> DEFINE at == \E d \in Daily : chosen[d] = i /\ Designed(d)
             opened == \E d \in Daily : chosen[d] = i /\ Opened(d)
  <2>1. CountFits(i, at, opened)
    BY DEF GenInv, CountsFit
  <2>2. /\ designs[i] \in Nat /\ backlog[i].retries \in Nat /\ MaxRetries \in Nat
    <3>1. backlog \in [Ideas -> [status : Statuses, retries : Nat]] /\ designs \in [Ideas -> Nat]
      BY DEF GenInv, GenTypeOK
    <3>2. QED BY <3>1, GenAssumption
  <2>3. at => Promised!Open(backlog[i])
    BY DEF GenInv, Works, Designed, Working, OnBranch
  <2>4. at => backlog[i].retries <= MaxRetries
    BY <2>1, <2>2, <2>3 DEF CountFits, Promised!Open, Promised!Retryable, Retryable, Verdicts
  <2> HIDE DEF at, opened
  <2>5. CASE at
    BY <2>1, <2>2, <2>4, <2>5 DEF CountFits
  <2>6. CASE ~at
    BY <2>1, <2>2, <2>6 DEF CountFits
  <2>7. QED BY <2>5, <2>6
<1>2. QED BY <1>1, GenInductive, PTL

\* No idea gets a second pull request after one that a run recorded, unless a run
\* that could not read the record has begun it anew.
THEOREM OnePullRequestEach == Staggered /\ GenSpec => []OnePullRequest
<1>1. GenInv => OnePullRequest
  <2> SUFFICES ASSUME GenInv, NEW i \in Ideas
               PROVE  prs[i] <= 1
    BY DEF OnePullRequest
  <2>1. PICK opened \in BOOLEAN :
          prs[i] = IF opened \/ backlog[i].status = "completed" THEN 1 ELSE 0
    BY DEF GenInv, CountsFit, CountFits
  <2>2. QED BY <2>1
<1>2. QED BY <1>1, GenInductive, PTL

\* Whether a run at work has failed to read the backlog, and what its end changes.
Blind == \E p \in Procs : draft[p] = Unread

LEMMA BlindOne ==
    ASSUME GenInv, NEW p \in Procs, pc[p] # "idle"
    PROVE  Blind <=> draft[p] = Unread
<1>1. \A q \in Procs \ {p} : draft[q] = None
  BY OthersIdle DEF GenInv, DraftCurrent
<1>2. QED BY <1>1, GenAssumption DEF Blind

LEMMA BlindNone ==
    ASSUME GenInv, NEW p \in Procs, pc[p] # "idle", DropDraft(p)
    PROVE  ~Blind'
<1>1. \A q \in Procs \ {p} : draft[q] = None
  BY OthersIdle DEF GenInv, DraftCurrent
<1>2. draft \in [Procs -> [Ideas -> Entries] \cup {None, Unread}]
  BY DEF GenInv, GenTypeOK, Entries
<1>3. QED BY <1>1, <1>2, GenAssumption DEF Blind, DropDraft

\* The backlog file, rewritten whole by two kinds of runs that are killed at any
\* step, is the promised backlog: the weekly run only enters ideas, the daily run
\* only judges open ones, neither undoes what the other wrote, and all of it is
\* begun anew only by the save of a run whose own read of the file has failed.
THEOREM BacklogKept == Staggered /\ GenSpec => KeepsBacklog
<1>1. GenInit => Promised!BacklogInit
  <2> SUFFICES ASSUME GenInit PROVE Promised!BacklogInit
    OBVIOUS
  <2>1. ~Blind
    BY GenAssumption DEF GenInit, Blind
  <2>2. QED BY <2>1 DEF GenInit, Nothing, Promised!BacklogInit, Blind
<1>2. GenInv /\ [GenNext]_genVars => [Promised!BacklogNext]_<<backlog, Blind>>
  <2> SUFFICES ASSUME GenInv, [GenNext]_genVars, ~UNCHANGED <<backlog, Blind>>
               PROVE  Promised!BacklogNext
    OBVIOUS
  <2>1. ASSUME UNCHANGED backlog
        PROVE  Promised!BacklogNext
    <3>1. Blind' <=> ~Blind
      BY <2>1 DEF Blind
    <3>2. Promised!Look
      BY <2>1, <3>1 DEF Promised!Look, Blind
    <3>3. QED BY <3>2 DEF Promised!BacklogNext
  <2>2. ASSUME NEW d \in Daily, UpdateBacklogStatus(d), backlog' # backlog
        PROVE  Promised!BacklogNext
    <3>1. /\ d \in Procs /\ pc[d] = "replace" /\ pc[d] # "idle" /\ DropDraft(d)
          /\ ReplaceBacklog(d, Judged(d, Retryable))
      BY <2>2 DEF UpdateBacklogStatus, Procs
    <3>2. /\ draft[d] \in {backlog, Unread} /\ ~Blind' /\ (Blind <=> draft[d] = Unread)
      BY <3>1, BlindOne, BlindNone DEF GenInv, DraftCurrent
    <3>3. /\ chosen[d] \in Ideas /\ verdict[d] \in Promised!Verdicts
          /\ Promised!Open(backlog[chosen[d]]) /\ backlog \in [Ideas -> Entries]
      BY <3>1, AtWork DEF Works, Verdicts, Retryable, GenTypeOK, Entries,
                          Promised!Verdicts, Promised!Retryable
    <3>4. CASE draft[d] = Unread
      <4>1. backlog' = Nothing
        BY <3>1, <3>3, <3>4 DEF ReplaceBacklog, Judged, AsRead, Nothing
      <4> DEFINE new == [i \in Ideas |-> "absent"]
      <4>2. new \in [Ideas -> {"absent", "pending", "duplicate"}]
            /\ backlog' = [i \in Ideas |-> [status |-> new[i], retries |-> 0]]
        BY <4>1 DEF Nothing
      <4>3. Promised!BeginAnew
        BY <3>2, <3>4, <4>2 DEF Promised!BeginAnew, Blind
      <4>4. QED BY <4>3 DEF Promised!BacklogNext
    <3>5. CASE draft[d] # Unread
      <4>1. backlog[chosen[d]].status # "absent" /\ AsRead(d) = backlog
        BY <3>2, <3>3, <3>5 DEF AsRead, Promised!Open, Promised!Retryable
      <4>2. backlog' = [backlog EXCEPT ![chosen[d]] =
                          [status  |-> verdict[d],
                           retries |-> @.retries
                                       + (IF verdict[d] \in Promised!Retryable THEN 1 ELSE 0)]]
        BY <3>1, <4>1 DEF ReplaceBacklog, Judged, Retryable, Promised!Retryable
      <4>3. Promised!Judge
        BY <3>2, <3>3, <3>5, <4>2 DEF Promised!Judge, Blind
      <4>4. QED BY <4>3 DEF Promised!BacklogNext
    <3>6. QED BY <3>4, <3>5
  <2>3. ASSUME NEW w \in Weekly, SaveBacklog(w), backlog' # backlog
        PROVE  Promised!BacklogNext
    <3>1. w \in Procs /\ pc[w] # "idle" /\ DropDraft(w)
      BY <2>3 DEF SaveBacklog, Procs
    <3>2. ~Blind' /\ (Blind <=> draft[w] = Unread)
      BY <3>1, BlindOne, BlindNone
    <3>3. CASE draft[w] # Unread /\ Entered
      BY <3>2, <3>3 DEF Entered, Fresh, Promised!BacklogNext, Promised!Enter, Blind
    <3>4. CASE draft[w] = Unread /\ Begun
      BY <3>2, <3>4 DEF Begun, Fresh, Promised!BacklogNext, Promised!BeginAnew, Blind
    <3>5. QED BY <2>3, <3>3, <3>4, WeeklyBacklog
  <2>4. ASSUME NEW p \in Procs, CheckLock(p) \/ WriteLock(p) \/ Finish(p) \/ Kill(p)
        PROVE  UNCHANGED backlog
    BY <2>4 DEF CheckLock, WriteLock, Finish, Kill, files
  <2>5. ASSUME NEW d \in Daily, DailyStep(d), ~UpdateBacklogStatus(d)
        PROVE  UNCHANGED backlog
    BY <2>5 DEF DailyStep, SelectIdea, GitSafeCheck, CheckExistingPr, CreateBranch, DesignSkill,
                CheckChanges, ReviewAndImprove, CommitSkill, PushBranch, OpenPr, ReturnToMain,
                RollbackSkill, RereadBacklog, files
  <2>6. ASSUME NEW w \in Weekly, WeeklyStep(w), ~SaveBacklog(w)
        PROVE  UNCHANGED backlog
    BY <2>6 DEF WeeklyStep, Mine, LoadBacklog, files
  <2>7. Repair \/ Journal \/ (\E i \in Ideas : Settle(i)) => UNCHANGED backlog
    BY DEF Repair, Journal, Settle
  <2>8. UNCHANGED genVars => UNCHANGED backlog
    BY DEF genVars, files
  <2>9. QED BY <2>1, <2>2, <2>3, <2>4, <2>5, <2>6, <2>7, <2>8 DEF GenNext
<1>3. QED BY <1>1, <1>2, GenInductive, PTL DEF GenSpec, KeepsBacklog, Promised!BacklogSpec, Blind
=============================================================================
