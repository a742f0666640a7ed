----------------------------- MODULE PublicationProofs ----------------------
(***************************************************************************)
(* The two programs that publish.  The publication of any number of trees  *)
(* is atomic, wherever an operation fails or the process ends, and what is *)
(* published is what the variants' steps left, undamaged, for any          *)
(* workflow.  What the improvement loop reports is what it published, when *)
(* one launch does not begin before the last has ended, for any number of  *)
(* skills, scores and launches, killed at any step.                        *)
(***************************************************************************)
EXTENDS WorkflowReplay, SkillImprovement, TLAPS

(***************************************************************************)
(* The workflow replay.                                                    *)
(***************************************************************************)

\* What has been done to a tree: nothing but its two directories; its old content
\* moved to the backup; the new content put in its place; that taken away again.
KeptBackup(t) ==
    /\ moved[t] = (before[t] = "old")
    /\ backup[t] = IF before[t] = "old" THEN "old" ELSE "empty"
Untouched(t) ==
    /\ dest[t] = before[t] /\ ~moved[t] /\ ~committed[t] /\ backup[t] # "old"
MovedAway(t) == dest[t] = "absent" /\ ~committed[t] /\ KeptBackup(t)
PutInPlace(t) == dest[t] = "new" /\ committed[t] /\ KeptBackup(t)
Removed(t) == dest[t] = "absent" /\ KeptBackup(t)

\* After its rollback a tree is what it was; if a step of a rollback failed, its old
\* content still is somewhere.
Recovered(t) == before[t] = "old" => dest[t] = "old" \/ backup[t] = "old"
RolledBack(t) == Recovered(t) /\ (dest[t] = before[t] \/ failures)

\* A tree of the rollback that is still to come.
Pristine(t) == Untouched(t) \/ MovedAway(t) \/ PutInPlace(t)

\* Where the transaction is says what has been done to each tree.
TreesFollow ==
    /\ at.place = "prepare" => \A t \in Trees : Untouched(t)
    /\ at.place = "save" =>
           \A t \in Trees : IF t < at.tree THEN PutInPlace(t) ELSE Untouched(t)
    /\ at.place = "commit" =>
           \A t \in Trees : IF t < at.tree THEN PutInPlace(t)
                            ELSE IF t = at.tree THEN MovedAway(t) ELSE Untouched(t)
    /\ at.place = "discard" => \A t \in Trees : dest[t] = "new"
    /\ at.place = "remove" =>
           \A t \in Trees : IF t <= at.tree THEN Pristine(t) ELSE RolledBack(t)
    /\ at.place = "restore" =>
           \A t \in Trees : IF t < at.tree THEN Pristine(t)
                            ELSE IF t = at.tree THEN Untouched(t) \/ Removed(t)
                            ELSE RolledBack(t)
    /\ at.place = "clean" => \A t \in Trees : RolledBack(t)

\* The trees are prepared and saved in order; an entry has its backup root.
EntriesFollow ==
    /\ at.place = "prepare" => prepared = at.tree - 1
    /\ at.place \in {"save", "commit"} => prepared = N
    /\ at.place \in {"prepare", "save", "commit", "remove", "restore"} => at.tree \in Trees
    /\ \A t \in Trees :
          at.place \in {"save", "commit"} \/ (at.place = "prepare" /\ t < at.tree) =>
              backup[t] # "none"

PublishInv ==
    /\ PublishTypeOK
    /\ reply = "pending" => TreesFollow /\ EntriesFollow

LEMMA TurnTyped ==
    /\ [place |-> "prepare", tree |-> 1] \in Turns
    /\ \A where \in {"prepare", "save", "commit", "remove", "restore", "clean", "discard"} :
          \A t \in 1..(N + 1) : Turn(where, t) => at' \in Turns
<1>1. 1 \in 1..(N + 1)
  BY PublishAssumption
<1>2. QED BY <1>1 DEF Turn, Turns

LEMMA PublishInitInv == PublishInit => PublishInv
<1> SUFFICES ASSUME PublishInit PROVE PublishInv
  OBVIOUS
<1>1. at.place = "prepare" /\ at.tree = 1 /\ prepared = 0 /\ 1 \in 1..N /\ 1 \in 1..(N + 1)
  BY PublishAssumption DEF PublishInit
<1>2. \A t \in Trees : Untouched(t)
  BY DEF PublishInit, Untouched, All
<1>3. PublishTypeOK
  <2>1. at \in Turns
    BY TurnTyped DEF PublishInit
  <2>2. prepared \in 0..N
    BY <1>1, PublishAssumption
  <2>3. dest \in [Trees -> {"absent", "old", "new", "torn"}]
    BY DEF PublishInit
  <2>4. QED BY <2>1, <2>2, <2>3 DEF PublishInit, PublishTypeOK, All
<1>4. TreesFollow
  BY <1>1, <1>2 DEF TreesFollow
<1>5. EntriesFollow
  BY <1>1 DEF EntriesFollow, Trees
<1>6. QED BY <1>3, <1>4, <1>5 DEF PublishInv

\* The types, and what they say of the operation that is next.
LEMMA Typed ==
    ASSUME PublishInv
    PROVE  /\ N \in Nat \ {0} /\ at.tree \in 1..(N + 1) /\ prepared \in 0..N
           /\ \A t \in Trees : before[t] \in {"absent", "old"}
           /\ dest \in [Trees -> {"absent", "old", "new", "torn"}]
           /\ backup \in [Trees -> {"none", "empty", "old"}]
           /\ moved \in [Trees -> BOOLEAN] /\ committed \in [Trees -> BOOLEAN]
BY PublishAssumption DEF PublishInv, PublishTypeOK, Turns

-----------------------------------------------------------------------------
(* One lemma per phase.                                                    *)

\* Every tree may be rolled back from where it is, and one that is untouched is.
LEMMA CanRollBack ==
    ASSUME PublishInv, NEW t \in Trees
    PROVE  /\ Untouched(t) \/ PutInPlace(t) \/ MovedAway(t) => Pristine(t)
           /\ Untouched(t) => RolledBack(t)
           /\ Untouched(t) \/ PutInPlace(t) \/ MovedAway(t) \/ Removed(t) => Recovered(t)
BY Typed DEF Pristine, Untouched, PutInPlace, MovedAway, Removed, KeptBackup, RolledBack, Recovered

LEMMA PrepareStep ==
    ASSUME PublishInv, PrepareTree \/ PrepareFails
    PROVE  PublishInv'
<1> USE DEF At, Turn, entries
<1>1. /\ reply = "pending" /\ reply' = reply /\ at.place = "prepare" /\ at.tree \in Trees
      /\ prepared = at.tree - 1 /\ \A t \in Trees : Untouched(t)
      /\ UNCHANGED <<dest, moved, committed, before, failures>>
  BY DEF PrepareTree, PrepareFails, PublishInv, TreesFollow, EntriesFollow
<1>2. \A t \in Trees : Untouched(t)'
  BY <1>1, Typed DEF PrepareTree, PrepareFails, Untouched
<1>3. PublishTypeOK'
  <2>1. at' \in Turns
    BY <1>1, TurnTyped, Typed DEF PrepareTree, PrepareFails, Trees
  <2>2. prepared' \in 0..N
    BY <1>1, Typed DEF PrepareTree, PrepareFails, Trees
  <2>3. QED BY <1>1, <2>1, <2>2 DEF PrepareTree, PrepareFails, PublishInv, PublishTypeOK
<1>4. \/ at'.place = "prepare" /\ at'.tree = at.tree + 1 /\ at.tree < N /\ prepared' = at.tree
      \/ at'.place = "save" /\ at'.tree = 1 /\ prepared' = at.tree /\ at.tree = N
      \/ at'.place = "remove" /\ at'.tree \in Trees
      \/ at'.place = "clean"
  BY <1>1, Typed DEF PrepareTree, PrepareFails, Trees
<1>5. \A t \in Trees : RolledBack(t)' /\ Pristine(t)'
  BY <1>2, <1>3 DEF Pristine, RolledBack, Recovered, Untouched, PublishTypeOK
<1>6. TreesFollow'
  BY <1>2, <1>4, <1>5, Typed DEF TreesFollow, Trees
<1>7. EntriesFollow'
  <2>1. \A t \in Trees : t <= at.tree /\ prepared' = at.tree => backup'[t] # "none"
    BY <1>1, Typed DEF PrepareTree, PrepareFails, PublishInv, EntriesFollow, Trees
  <2>2. QED BY <1>1, <1>4, <2>1, Typed DEF EntriesFollow, Trees
<1>8. QED BY <1>3, <1>6, <1>7 DEF PublishInv

LEMMA ReplaceStep ==
    ASSUME PublishInv, SaveOld \/ Commit \/ RenameFails
    PROVE  PublishInv'
<1> USE DEF At, Turn, entries
<1>1. /\ reply = "pending" /\ reply' = reply /\ at.tree \in Trees /\ prepared = N
      /\ at.place \in {"save", "commit"} /\ TreesFollow
      /\ UNCHANGED <<prepared, before, failures>>
  BY DEF SaveOld, Commit, RenameFails, PublishInv, EntriesFollow
<1>2. CASE SaveOld
  <2>1. /\ at.place = "save" /\ at'.place = "commit" /\ at'.tree = at.tree
        /\ Untouched(at.tree) /\ UNCHANGED <<candidate, committed>>
    BY <1>1, <1>2, Typed DEF SaveOld, TreesFollow, Trees
  <2>2. dest[at.tree] = before[at.tree] /\ backup[at.tree] = "empty" /\ ~moved[at.tree]
    BY <1>1, <2>1, Typed DEF Untouched, PublishInv, EntriesFollow
  <2>3. MovedAway(at.tree)'
    BY <1>1, <1>2, <2>1, <2>2, Typed DEF SaveOld, MovedAway, Untouched, KeptBackup
  <2>4. \A t \in Trees \ {at.tree} :
          UNCHANGED <<dest[t], backup[t], moved[t], committed[t], before[t]>>
    BY <1>1, <1>2, <2>1, Typed DEF SaveOld
  <2>5. TreesFollow'
    BY <1>1, <2>1, <2>3, <2>4 DEF TreesFollow, PutInPlace, Untouched, KeptBackup
  <2>6. PublishTypeOK'
    <3>1. at' \in Turns
      BY <1>2, <2>1, Typed, TurnTyped DEF SaveOld
    <3>2. QED BY <1>1, <1>2, <2>1, <2>2, <3>1, Typed DEF SaveOld, PublishInv, PublishTypeOK
  <2>7. EntriesFollow'
    BY <1>1, <2>1, <2>3, <2>4 DEF EntriesFollow, PublishInv, MovedAway, KeptBackup
  <2>8. QED BY <2>5, <2>6, <2>7 DEF PublishInv
<1>3. CASE Commit
  <2>1. PublishTypeOK' /\ EntriesFollow'
    <3>1. at' \in Turns
      BY <1>1, <1>3, Typed, TurnTyped DEF Commit, Trees
    <3>2. PublishTypeOK'
      BY <1>3, <3>1 DEF Commit, PublishInv, PublishTypeOK
    <3>3. at'.place \in {"save", "discard"} /\ (at'.place = "save" => at'.tree \in Trees)
      BY <1>1, <1>3, Typed DEF Commit, Trees
    <3>4. \A t \in Trees : backup'[t] # "none"
      BY <1>1, <1>3 DEF Commit, PublishInv, EntriesFollow
    <3>5. QED BY <1>1, <3>2, <3>3, <3>4 DEF EntriesFollow
  <2>2. TreesFollow'
    BY <1>3, PublishAssumption
    DEF Commit, PublishInv, PublishTypeOK, TreesFollow, EntriesFollow, Untouched, PutInPlace,
        MovedAway, KeptBackup, Trees
  <2>3. QED BY <2>1, <2>2 DEF PublishInv
<1>4. CASE RenameFails
  <2>1. /\ at'.place = "remove" /\ at'.tree = N
        /\ UNCHANGED <<dest, candidate, backup, moved, committed>>
    BY <1>1, <1>4 DEF RenameFails
  <2>2. \A t \in Trees : Pristine(t)
    BY <1>1, CanRollBack DEF TreesFollow
  <2>3. \A t \in Trees : Pristine(t)'
    BY <1>1, <2>1, <2>2 DEF Pristine, Untouched, PutInPlace, MovedAway, KeptBackup
  <2>4. PublishTypeOK'
    <3>1. at' \in Turns
      BY <1>1, <1>4, Typed, TurnTyped DEF RenameFails
    <3>2. QED BY <1>1, <2>1, <3>1 DEF PublishInv, PublishTypeOK
  <2>5. TreesFollow' /\ EntriesFollow'
    BY <2>1, <2>3, Typed DEF TreesFollow, EntriesFollow, Trees
  <2>6. QED BY <2>4, <2>5 DEF PublishInv
<1>5. QED BY <1>2, <1>3, <1>4

\* The rollback of a tree is over: the tree is what it was, or a step has failed and
\* its old content is somewhere.
LEMMA PreviousStep ==
    ASSUME PublishInv, reply = "pending", UNCHANGED <<reply, before, candidate, prepared>>,
           at.tree \in Trees, Previous, TreesFollow,
           at.place \in {"remove", "restore"},
           dest' \in [Trees -> {"absent", "old", "new", "torn"}],
           backup' \in [Trees -> {"none", "empty", "old"}],
           UNCHANGED <<moved, committed>>, failures' \in BOOLEAN, failures => failures',
           \A t \in Trees \ {at.tree} : UNCHANGED <<dest[t], backup[t]>>,
           \A t \in Trees : t = at.tree => RolledBack(t)'
    PROVE  PublishInv'
<1>1. \/ at'.place = "remove" /\ at'.tree = at.tree - 1 /\ at'.tree \in Trees
      \/ at'.place = "clean" /\ at.tree = 1
  BY Typed DEF Previous, Turn, Trees
<1>2. \A t \in Trees : t > at.tree => RolledBack(t)'
  BY DEF TreesFollow, RolledBack, Recovered, Trees
<1>3. \A t \in Trees : t < at.tree => Pristine(t)'
  BY DEF TreesFollow, Pristine, Untouched, PutInPlace, MovedAway, KeptBackup, Trees
<1>4. TreesFollow'
  <2>1. \A t \in Trees : t < at.tree \/ t = at.tree \/ t > at.tree
    BY Typed DEF Trees
  <2>2. \A t \in Trees : t <= at.tree - 1 => t < at.tree
    BY Typed DEF Trees
  <2>3. QED BY <1>1, <1>2, <1>3, <2>1, <2>2 DEF TreesFollow, Trees
<1>5. EntriesFollow'
  BY <1>1 DEF EntriesFollow
<1>6. PublishTypeOK'
  <2>1. at' \in Turns
    BY <1>1, Typed, TurnTyped DEF Previous, Trees
  <2>2. QED BY <2>1 DEF PublishInv, PublishTypeOK
<1>7. QED BY <1>4, <1>5, <1>6 DEF PublishInv

LEMMA RollbackStep ==
    ASSUME PublishInv, RemoveNew \/ RestoreOld \/ RollbackFails
    PROVE  PublishInv'
<1> USE DEF At, entries
<1>1. /\ reply = "pending" /\ reply' = reply /\ at.tree \in Trees
      /\ at.place \in {"remove", "restore"} /\ TreesFollow
      /\ UNCHANGED <<before, candidate, prepared, moved, committed>>
  BY DEF RemoveNew, RestoreOld, RollbackFails, PublishInv, EntriesFollow
<1>2. CASE RemoveNew
  <2>1. /\ at.place = "remove" /\ at'.place = "restore" /\ at'.tree = at.tree
        /\ at' \in Turns /\ UNCHANGED <<backup, failures>>
    BY <1>2, Typed, TurnTyped DEF RemoveNew, Turn
  <2>2. /\ dest' \in [Trees -> {"absent", "old", "new", "torn"}]
        /\ \A t \in Trees \ {at.tree} : UNCHANGED <<dest[t]>>
        /\ dest'[at.tree] = IF committed[at.tree] THEN "absent" ELSE dest[at.tree]
    BY <1>1, <1>2, Typed DEF RemoveNew
  <2>3. Pristine(at.tree)
    BY <1>1, <2>1, Typed DEF TreesFollow, Trees
  <2>4. \A t \in Trees : t = at.tree => (Untouched(t)' \/ Removed(t)')
    BY <1>1, <2>1, <2>2, <2>3
    DEF Pristine, Untouched, PutInPlace, MovedAway, Removed, KeptBackup
  <2>5. \A t \in Trees \ {at.tree} :
          IF t < at.tree THEN Pristine(t)' ELSE RolledBack(t)'
    <3>1. \A t \in Trees \ {at.tree} : t <= at.tree <=> t < at.tree
      BY Typed DEF Trees
    <3>2. ASSUME NEW t \in Trees \ {at.tree}
          PROVE  IF t < at.tree THEN Pristine(t) ELSE RolledBack(t)
      BY <1>1, <2>1, <3>1 DEF TreesFollow
    <3>3. ASSUME NEW t \in Trees \ {at.tree}
          PROVE  (Pristine(t) => Pristine(t)') /\ (RolledBack(t) => RolledBack(t)')
      BY <1>1, <2>1, <2>2
      DEF Pristine, Untouched, PutInPlace, MovedAway, KeptBackup, RolledBack, Recovered
    <3>4. QED BY <3>2, <3>3
  <2>6. TreesFollow' /\ EntriesFollow'
    <3>1. TreesFollow'
      <4>1. \A t \in Trees : t = at.tree => ~(t < at.tree)
        BY Typed DEF Trees
      <4>2. QED BY <2>1, <2>4, <2>5, <4>1 DEF TreesFollow
    <3>2. EntriesFollow'
      BY <1>1, <2>1 DEF EntriesFollow
    <3>3. QED BY <3>1, <3>2
  <2>7. QED BY <1>1, <2>1, <2>2, <2>6 DEF PublishInv, PublishTypeOK
<1>3. CASE RestoreOld
  <2>1. at.place = "restore" /\ Previous /\ failures' = failures
    BY <1>3 DEF RestoreOld
  <2>2. Untouched(at.tree) \/ Removed(at.tree)
    BY <1>1, <2>1, Typed DEF TreesFollow, Trees
  <2>3. \A t \in Trees : t = at.tree => RolledBack(t)'
    BY <1>1, <1>3, <2>2, Typed
    DEF RestoreOld, Untouched, Removed, KeptBackup, RolledBack, Recovered
  <2>4. /\ dest' \in [Trees -> {"absent", "old", "new", "torn"}]
        /\ backup' \in [Trees -> {"none", "empty", "old"}]
        /\ \A t \in Trees \ {at.tree} : UNCHANGED <<dest[t], backup[t]>>
    BY <1>1, <1>3, <2>2, Typed DEF RestoreOld, Untouched, Removed, KeptBackup
  <2>5. QED BY <1>1, <2>1, <2>3, <2>4, PreviousStep DEF PublishInv, PublishTypeOK
<1>4. CASE RollbackFails
  <2>1. Previous /\ failures' = TRUE /\ UNCHANGED backup
    BY <1>4 DEF RollbackFails
  <2>2. Pristine(at.tree) \/ Removed(at.tree)
    BY <1>1, Typed DEF TreesFollow, Trees, Pristine
  <2>3. moved[at.tree] \/ committed[at.tree]
    BY <1>4 DEF RollbackFails
  <2>4. KeptBackup(at.tree)
    BY <2>2, <2>3 DEF Pristine, Untouched, PutInPlace, MovedAway, Removed
  <2>5. \A t \in Trees : t = at.tree => RolledBack(t)'
    BY <1>1, <2>1, <2>4 DEF KeptBackup, RolledBack, Recovered
  <2>6. /\ dest' \in [Trees -> {"absent", "old", "new", "torn"}]
        /\ \A t \in Trees \ {at.tree} : UNCHANGED <<dest[t], backup[t]>>
    BY <1>1, <1>4, <2>1, Typed DEF RollbackFails
  <2>7. QED BY <1>1, <2>1, <2>5, <2>6, Typed, PreviousStep
<1>5. QED BY <1>2, <1>3, <1>4

\* The finally removes empty backup roots only, as far as it comes.
LEMMA InterruptKeepsBackups ==
    ASSUME PublishInv, Interrupt
    PROVE  /\ backup' \in [Trees -> {"none", "empty", "old"}]
           /\ \A t \in Trees : backup[t] = "old" <=> backup'[t] = "old"
<1> DEFINE cleaned == [t \in Trees |-> IF backup[t] = "empty" THEN "none" ELSE backup[t]]
<1>1. \A t \in Trees : backup[t] \in {"none", "empty", "old"}
  BY Typed
<1>2. /\ cleaned \in [Trees -> {"none", "empty", "old"}]
      /\ \A t \in Trees : backup[t] = "old" <=> cleaned[t] = "old"
  BY <1>1
<1>3. backup' = backup \/ backup' = cleaned
  BY DEF Interrupt
<1>4. QED BY <1>2, <1>3, Typed

LEMMA EndStep ==
    ASSUME PublishInv, Clean \/ CleanEnds \/ Discard \/ Succeed \/ Interrupt
    PROVE  PublishInv'
<1> USE DEF At, Turn, entries
<1>1. CASE Clean
  <2>1. /\ at.place = "clean" /\ at'.place = "clean" /\ at' \in Turns
        /\ UNCHANGED <<dest, moved, committed, prepared, failures, reply, before>>
    BY <1>1, Typed, TurnTyped DEF Clean
  <2>2. \A t \in Trees : RolledBack(t)'
    BY <1>1, <2>1, Typed DEF Clean, PublishInv, TreesFollow, RolledBack, Recovered
  <2>3. PublishTypeOK'
    BY <1>1, <2>1 DEF Clean, PublishInv, PublishTypeOK
  <2>4. QED BY <2>1, <2>2, <2>3 DEF PublishInv, TreesFollow, EntriesFollow
<1>2. CASE Discard
  <2>1. /\ at.place = "discard" /\ at'.place = "discard" /\ at' \in Turns
        /\ UNCHANGED <<dest, candidate, moved, committed, prepared, failures, reply, before>>
    BY <1>2, Typed, TurnTyped DEF Discard
  <2>2. PublishTypeOK'
    BY <1>2, <2>1 DEF Discard, PublishInv, PublishTypeOK
  <2>3. QED BY <1>2, <2>1, <2>2 DEF Discard, PublishInv, TreesFollow, EntriesFollow
<1>3. CASE CleanEnds \/ Succeed
  BY <1>3 DEF CleanEnds, Succeed, Reply, PublishInv, PublishTypeOK
<1>4. CASE Interrupt
  <2>1. /\ reply' = "broken"
        /\ UNCHANGED <<moved, committed, prepared, at, failures, before>>
    BY <1>4 DEF Interrupt, Reply
  <2>2. dest' \in [Trees -> {"absent", "old", "new", "torn"}]
    BY <1>4, Typed DEF Interrupt
  <2>3. candidate' \in [Trees -> BOOLEAN] /\ backup' \in [Trees -> {"none", "empty", "old"}]
    <3>1. candidate' \in [Trees -> BOOLEAN]
      <4>1. All(FALSE) \in [Trees -> BOOLEAN] /\ candidate \in [Trees -> BOOLEAN]
        BY DEF All, PublishInv, PublishTypeOK
      <4>2. candidate' \in {candidate, All(FALSE)}
        BY <1>4 DEF Interrupt
      <4>3. QED BY <4>1, <4>2
    <3>2. QED BY <1>4, <3>1, InterruptKeepsBackups
  <2>4. QED BY <2>1, <2>2, <2>3 DEF PublishInv, PublishTypeOK
<1>5. QED BY <1>1, <1>2, <1>3, <1>4

LEMMA PublishStepInv == PublishInv /\ [PublishNext]_publishVars => PublishInv'
<1> SUFFICES ASSUME PublishInv, [PublishNext]_publishVars PROVE PublishInv'
  OBVIOUS
<1>1. CASE UNCHANGED publishVars
  BY <1>1
  DEF publishVars, entries, PublishInv, PublishTypeOK, TreesFollow, EntriesFollow, Untouched, MovedAway,
      PutInPlace, Removed, KeptBackup, Pristine, RolledBack, Recovered
<1>2. CASE PublishNext
  BY <1>2, PrepareStep, ReplaceStep, RollbackStep, EndStep DEF PublishNext
<1>3. QED BY <1>1, <1>2

-----------------------------------------------------------------------------
(* The publication implements the atomic one.                              *)

\* When the caller cannot be told, all trees are new or each old one can be found.
LEMMA AllRecoverable ==
    ASSUME PublishInv, reply = "pending"
    PROVE  \/ at.place = "discard" /\ \A t \in Trees : dest[t] = "new"
           \/ \A t \in Trees : Recovered(t)
<1>1. /\ at.place \in {"prepare", "save", "commit", "remove", "restore", "clean", "discard"}
      /\ TreesFollow
  BY DEF PublishInv, PublishTypeOK, Turns
<1>2. ASSUME NEW t \in Trees
      PROVE  (Pristine(t) => Recovered(t)) /\ (RolledBack(t) => Recovered(t))
  BY CanRollBack DEF Pristine, RolledBack
<1>3. QED BY <1>1, <1>2, CanRollBack DEF TreesFollow

LEMMA BreakStep ==
    ASSUME PublishInv, (CleanEnds /\ failures) \/ Interrupt
    PROVE  Atomic!Break
<1>1. reply = "pending" /\ reply' = "broken" /\ UNCHANGED <<before, committed, at>>
  BY DEF CleanEnds, Interrupt, At, Reply, entries
<1>2. PublishInv'
  BY EndStep
<1>3. \A t \in Trees : backup[t] = "old" <=> backup'[t] = "old"
  BY InterruptKeepsBackups DEF CleanEnds, entries
<1>4. \A t \in Trees : dest'[t] = dest[t]
                       \/ (at.place = "remove" /\ t = at.tree /\ committed[t])
  BY Typed DEF CleanEnds, Interrupt
<1>5. CASE at.place = "discard" /\ \A t \in Trees : dest[t] = "new"
  <2>1. \A t \in Trees : dest'[t] = "new"
    BY <1>4, <1>5
  <2>2. QED BY <1>1, <1>2, <2>1 DEF Atomic!Break, Atomic!Holds, PublishInv, PublishTypeOK
<1>6. CASE \A t \in Trees : Recovered(t)
  <2>1. ASSUME NEW t \in Trees, before[t] = "old"
        PROVE  dest'[t] = "old" \/ backup'[t] = "old"
    <3>1. CASE dest'[t] = dest[t]
      BY <1>3, <1>6, <2>1, <3>1 DEF Recovered
    <3>2. CASE at.place = "remove" /\ t = at.tree /\ committed[t]
      <4>1. Pristine(t)
        BY <1>1, <3>2, Typed DEF PublishInv, TreesFollow, Trees
      <4>2. backup[t] = "old"
        BY <2>1, <3>2, <4>1 DEF Pristine, Untouched, MovedAway, PutInPlace, KeptBackup
      <4>3. QED BY <1>3, <4>2
    <3>3. QED BY <1>4, <3>1, <3>2
  <2>2. \A t \in Trees : Atomic!Recoverable(t)
    BY <1>1, <2>1 DEF Atomic!Recoverable
  <2>3. QED BY <1>1, <1>2, <2>2 DEF Atomic!Break, Atomic!Holds, PublishInv, PublishTypeOK
<1>7. QED BY <1>1, <1>5, <1>6, AllRecoverable

LEMMA AtomicStep ==
    ASSUME PublishInv, PublishNext
    PROVE  Atomic!AtomicNext \/ UNCHANGED Atomic!atomicVars
<1> USE DEF At, entries, Reply
<1>1. reply = "pending" /\ UNCHANGED before
  BY DEF PublishNext, PrepareTree, PrepareFails, SaveOld, Commit, RenameFails, RemoveNew, RestoreOld,
      RollbackFails, Clean, CleanEnds, Discard, Succeed, Interrupt
<1>2. CASE CleanEnds /\ ~failures
  <2>1. \A t \in Trees : dest[t] = before[t]
    BY <1>1, <1>2 DEF CleanEnds, PublishInv, TreesFollow, RolledBack
  <2>2. dest = before
    BY <2>1 DEF PublishInv, PublishTypeOK
  <2>3. Atomic!Refuse
    BY <1>1, <1>2, <2>2 DEF CleanEnds, Atomic!Refuse
  <2>4. QED BY <2>3 DEF Atomic!AtomicNext
<1>3. CASE Succeed
  <2>1. dest = [t \in Trees |-> "new"]
    BY <1>1, <1>3 DEF Succeed, PublishInv, PublishTypeOK, TreesFollow
  <2>2. Atomic!Publish
    BY <1>1, <1>3, <2>1 DEF Succeed, Atomic!Publish
  <2>3. QED BY <2>2 DEF Atomic!AtomicNext
<1>4. CASE (CleanEnds /\ failures) \/ Interrupt
  BY <1>4, BreakStep DEF Atomic!AtomicNext
<1>5. CASE UNCHANGED reply
  BY <1>1, <1>5 DEF Atomic!atomicVars
<1>6. \/ UNCHANGED reply
      \/ CleanEnds \/ Succeed \/ Interrupt
  BY DEF PublishNext, PrepareTree, PrepareFails, SaveOld, Commit, RenameFails, RemoveNew, RestoreOld,
      RollbackFails, Clean, Discard
<1>7. QED BY <1>2, <1>3, <1>4, <1>5, <1>6

-----------------------------------------------------------------------------
(* The replays: what is staged is what the variant's steps have left.      *)

\* The steps that have run are the first ones the variant enables, and none comes
\* after one that halts.
RunInOrder ==
    /\ Produced \subseteq Runs(replaying)
    /\ \A n \in Produced, k \in Enabled[replaying] : k <= n => k \in Produced

\* A damaged artifact, and one computed from it, never come without one that differs
\* from what was sealed: the last comparison finds it.
DamageShows ==
    (\E n \in Produced : "tainted" \in {stage[n], sealed[n]}) =>
        \E k \in Produced : sealed[k] = "pure" /\ stage[k] = "tainted"

OnlyProduced == \A n \in Steps : stage[n] = "none" <=> sealed[n] = "none"

StagedPure(t) ==
    /\ staged[t] \in [Steps -> Contents]
    /\ \A n \in Steps : staged[t][n] = (IF n \in Runs(t) THEN "pure" ELSE "none")

ReplayInv ==
    /\ PublishInv
    /\ ReplayTypeOK
    /\ replaying <= N => dest = before /\ RunInOrder /\ DamageShows /\ OnlyProduced
    /\ \A t \in Trees : t < replaying => StagedPure(t)

LEMMA ReplayInitInv == ReplayInit => ReplayInv
<1> SUFFICES ASSUME ReplayInit PROVE ReplayInv
  OBVIOUS
<1>1. PublishInv
  BY PublishInitInv DEF ReplayInit
<1>2. replaying = 1 /\ Produced = {} /\ dest = before
  BY DEF ReplayInit, PublishInit, Produced, Empty
<1>3. ReplayTypeOK
  BY <1>1, <1>2, PublishAssumption DEF ReplayInit, ReplayTypeOK, PublishInv, Empty, Contents
<1>4. \A t \in Trees : ~(t < replaying)
  BY <1>2, PublishAssumption DEF Trees
<1>5. QED
  BY <1>1, <1>2, <1>3, <1>4
  DEF ReplayInv, ReplayInit, RunInOrder, DamageShows, OnlyProduced, Empty

LEMMA Timed ==
    /\ N \in Nat \ {0} /\ Steps \subseteq Nat
    /\ ReplayInv => /\ replaying \in 1..(N + 1)
                    /\ stage \in [Steps -> Contents] /\ sealed \in [Steps -> Contents]
                    /\ Produced \subseteq Steps
                    /\ Replaying => replaying \in Trees /\ Enabled[replaying] \subseteq Steps
BY PublishAssumption, ReplayAssumption
DEF ReplayInv, ReplayTypeOK, Produced, Replaying, Trees

\* A step of a replay: it is the next one, so the steps that have run stay the first
\* ones; what it computes from damage is damaged, but the damage shows.
LEMMA RunStepReplayInv ==
    ASSUME ReplayInv, NEW n \in Steps, RunStep(n)
    PROVE  ReplayInv'
<1> DEFINE made == IF \E k \in Consumes[n] \cap Produced : stage[k] = "tainted"
                     THEN "tainted" ELSE "pure"
<1>1. /\ replaying \in Trees /\ replaying <= N /\ ~Halted /\ IsNext(n)
      /\ UNCHANGED <<publishVars, replaying, staged>>
  BY Timed DEF RunStep, Replaying
<1>2. PICK damaged \in SUBSET Produced :
          stage' = [k \in Steps |-> IF k = n THEN made
                                    ELSE IF k \in damaged THEN "tainted" ELSE stage[k]]
  BY DEF RunStep
<1>3. sealed' = [sealed EXCEPT ![n] = made]
  BY DEF RunStep
<1>4. made \in {"pure", "tainted"}
  OBVIOUS
<1>5. n \notin Produced /\ n \in Enabled[replaying] /\ \A k \in Produced : k < n
  BY <1>1, Timed DEF IsNext, Pending
<1>6. Produced' = Produced \cup {n}
  BY <1>3, <1>4, Timed DEF Produced
<1>7. stage' \in [Steps -> Contents] /\ sealed' \in [Steps -> Contents]
  BY <1>2, <1>3, <1>4, Timed DEF Contents
<1>8. PublishInv' /\ ReplayTypeOK'
  BY <1>1, <1>7, PublishStepInv DEF ReplayInv, ReplayTypeOK, PublishInv
<1>9. RunInOrder'
  <2> DEFINE enabled == Enabled[replaying]
  <2>1. /\ enabled \subseteq Nat /\ Produced \subseteq Nat
        /\ \A j \in Produced, k \in enabled : k <= j => k \in Produced
        /\ \A k \in Pending : n <= k
    BY <1>1, Timed DEF ReplayInv, RunInOrder, IsNext, RunStep
  <2>2. \A k \in enabled : k \in Produced \/ n <= k
    <3>1. ASSUME NEW k \in enabled, k \notin Pending
          PROVE  k \in Produced
      <4>1. PICK j \in Produced : ~(j < k)
        BY <3>1 DEF Pending
      <4>2. QED BY <2>1, <4>1
    <3>2. QED BY <2>1, <3>1
  <2>3. n \in Runs(replaying)
    BY <1>1, <1>5, <2>2 DEF Runs, Halted
  <2>4. \A k \in enabled : k <= n => k \in Produced \cup {n}
    BY <1>5, <2>1, <2>2
  <2>5. QED BY <1>1, <1>6, <2>3, <2>4 DEF ReplayInv, RunInOrder, Runs
<1>10. DamageShows'
  <2>1. ASSUME NEW k \in Produced, sealed[k] = "pure", stage[k] = "tainted"
        PROVE  sealed'[k] = "pure" /\ stage'[k] = "tainted"
    BY <1>2, <1>3, <1>5, <2>1, Timed
  <2>2. CASE \E k \in Produced : "tainted" \in {stage[k], sealed[k]}
    BY <1>1, <1>6, <2>1, <2>2 DEF ReplayInv, DamageShows
  <2>3. CASE ~\E k \in Produced : "tainted" \in {stage[k], sealed[k]}
    <3>1. made = "pure"
      BY <2>3
    <3>2. \A k \in Produced : sealed[k] = "pure" /\ sealed'[k] = "pure"
      BY <1>3, <1>5, <2>3, Timed DEF Produced, Contents
    <3>3. QED BY <1>2, <1>3, <1>6, <3>1, <3>2, Timed DEF DamageShows
  <2>4. QED BY <2>2, <2>3
<1>11. OnlyProduced'
  BY <1>1, <1>2, <1>3, <1>4, Timed DEF ReplayInv, OnlyProduced, Produced
<1>12. QED
  BY <1>1, <1>8, <1>9, <1>10, <1>11
  DEF ReplayInv, StagedPure, publishVars

\* When a replay ends, the steps that have run are those the variant runs.
LEMMA AllRun ==
    ASSUME ReplayInv, Replaying, Halted \/ Pending = {}
    PROVE  Produced = Runs(replaying)
<1>1. /\ Produced \subseteq Runs(replaying) /\ Runs(replaying) \subseteq Enabled[replaying]
      /\ Enabled[replaying] \subseteq Nat
      /\ \A n \in Produced, k \in Enabled[replaying] : k <= n => k \in Produced
  BY Timed DEF ReplayInv, RunInOrder, Replaying, Runs
<1>2. CASE Halted
  BY <1>1, <1>2 DEF Halted, Runs
<1>3. CASE Pending = {}
  BY <1>1, <1>3 DEF Pending
<1>4. QED BY <1>2, <1>3

LEMMA StageStep ==
    ASSUME ReplayInv, StageTree
    PROVE  ReplayInv'
<1>1. /\ Replaying /\ replaying \in Trees /\ replaying <= N
      /\ Halted \/ Pending = {}
      /\ \A n \in Produced : stage[n] = sealed[n]
      /\ staged' = [staged EXCEPT ![replaying] = stage] /\ replaying' = replaying + 1
      /\ stage' = Empty /\ sealed' = Empty /\ UNCHANGED publishVars
  BY Timed DEF StageTree, Replaying
<1>2. Produced = Runs(replaying)
  BY <1>1, AllRun
<1>3. \A n \in Steps : stage[n] = (IF n \in Runs(replaying) THEN "pure" ELSE "none")
  BY <1>1, <1>2, Timed DEF ReplayInv, DamageShows, OnlyProduced, Produced, Contents
<1>4. PublishInv'
  BY <1>1, PublishStepInv DEF ReplayInv
<1>5. /\ replaying' \in 1..(N + 1)
      /\ stage' \in [Steps -> Contents] /\ sealed' \in [Steps -> Contents]
      /\ staged' \in [Trees -> [Steps -> Contents] \cup {NotStaged}]
  BY <1>1, Timed DEF ReplayInv, ReplayTypeOK, Empty, Contents
<1>6. staged'[replaying] = stage
  BY <1>1 DEF ReplayInv, ReplayTypeOK
<1>7. \A t \in Trees : t < replaying' => StagedPure(t)'
  <2>1. ASSUME NEW t \in Trees, t < replaying
        PROVE  StagedPure(t)'
    BY <1>1, <2>1 DEF ReplayInv, ReplayTypeOK, StagedPure
  <2>2. ASSUME NEW t \in Trees, t = replaying
        PROVE  StagedPure(t)'
    BY <1>3, <1>6, <2>2, Timed DEF StagedPure
  <2>3. QED BY <1>1, <2>1, <2>2, Timed DEF Trees
<1>8. Produced' = {}
  BY <1>1 DEF Produced, Empty
<1>9. dest' = before' /\ RunInOrder' /\ DamageShows' /\ OnlyProduced'
  BY <1>1, <1>8
  DEF ReplayInv, RunInOrder, DamageShows, OnlyProduced, Empty, publishVars
<1>10. QED BY <1>4, <1>5, <1>7, <1>9 DEF ReplayInv, ReplayTypeOK, PublishInv

LEMMA ReplayStepInv == ReplayInv /\ [ReplayNext]_replayVars => ReplayInv'
<1> SUFFICES ASSUME ReplayInv, [ReplayNext]_replayVars PROVE ReplayInv'
  OBVIOUS
<1>1. ASSUME NEW n \in Steps, RunStep(n)
      PROVE  ReplayInv'
  BY <1>1, RunStepReplayInv
<1>2. CASE StageTree
  BY <1>2, StageStep
<1>3. CASE ReplayFails
  <2>1. PublishInv'
    BY <1>3 DEF ReplayFails, Reply, entries, ReplayInv, PublishInv, PublishTypeOK
  <2>2. QED
    BY <1>3, <2>1
    DEF ReplayFails, ReplayInv, ReplayTypeOK, PublishInv, RunInOrder, DamageShows, OnlyProduced,
        Produced, StagedPure
<1>4. CASE PublishStaged
  <2>1. PublishInv' /\ replaying > N /\ UNCHANGED <<replaying, stage, sealed, staged>>
    BY <1>4, PublishStepInv DEF PublishStaged, ReplayInv
  <2>2. ~(replaying <= N)
    BY <2>1, Timed
  <2>3. QED
    BY <2>1, <2>2 DEF ReplayInv, ReplayTypeOK, PublishInv, StagedPure
<1>5. CASE UNCHANGED replayVars
  <2>1. PublishInv'
    BY <1>5, PublishStepInv DEF replayVars, ReplayInv
  <2>2. QED
    BY <1>5, <2>1
    DEF replayVars, publishVars, ReplayInv, ReplayTypeOK, PublishInv, RunInOrder, DamageShows,
        OnlyProduced, Produced, StagedPure
<1>6. QED BY <1>1, <1>2, <1>3, <1>4, <1>5 DEF ReplayNext

-----------------------------------------------------------------------------
\* The invariants of the transaction hold however it is interrupted.
THEOREM PublishInductive == PublishSpec => []PublishInv
BY PublishInitInv, PublishStepInv, PTL DEF PublishSpec

\* The replays and the transaction that follows them keep theirs.
THEOREM ReplayInductive == ReplaySpec => []ReplayInv
BY ReplayInitInv, ReplayStepInv, PTL DEF ReplaySpec

\* The stages, the trees and the transaction's entries keep their types.
THEOREM ReplayTypeCorrect == ReplaySpec => []ReplayTypeOK
<1>1. ReplayInv => ReplayTypeOK
  BY DEF ReplayInv
<1>2. QED BY <1>1, ReplayInductive, PTL

\* _publish_trees_transactionally and the replays before it implement the atomic
\* publication: all trees or none, and what is lost to a failure can be found.
THEOREM PublishesAllOrNothing == ReplaySpec => PublishesAtomically
<1>1. PublishInit => Atomic!AtomicInit
  BY DEF PublishInit, Atomic!AtomicInit
<1>2. ReplayInit => Atomic!AtomicInit
  BY <1>1 DEF ReplayInit
<1>3. ReplayInv /\ [ReplayNext]_replayVars => [Atomic!AtomicNext]_Atomic!atomicVars
  <2> SUFFICES ASSUME ReplayInv, [ReplayNext]_replayVars
               PROVE  Atomic!AtomicNext \/ UNCHANGED Atomic!atomicVars
    OBVIOUS
  <2>1. CASE PublishStaged
    BY <2>1, AtomicStep DEF PublishStaged, ReplayInv
  <2>2. CASE ReplayFails
    BY <2>2, Timed
    DEF ReplayFails, Replaying, Reply, entries, ReplayInv, Atomic!AtomicNext, Atomic!Refuse
  <2>3. CASE UNCHANGED publishVars
    BY <2>3 DEF publishVars, entries, Atomic!atomicVars
  <2>4. QED
    BY <2>1, <2>2, <2>3 DEF ReplayNext, RunStep, StageTree, replayVars
<1>4. QED
  BY <1>2, <1>3, ReplayInductive, PTL DEF ReplaySpec, PublishesAtomically, Atomic!AtomicSpec

\* execute_replay: what is published is, for every step the variant runs, the artifact
\* as it was sealed, computed from undamaged ones.
THEOREM PublishesPure == ReplaySpec => []PublishedPure
<1>1. ReplayInv => PublishedPure
  <2> SUFFICES ASSUME ReplayInv, NEW t \in Trees, dest[t] = "new"
               PROVE  StagedPure(t) /\ staged[t] # NotStaged
    BY DEF PublishedPure, StagedPure
  <2>1. before[t] # "new"
    BY DEF ReplayInv, PublishInv, PublishTypeOK
  <2>2. t < replaying
    BY <2>1, Timed DEF ReplayInv, Trees
  <2>3. QED BY <2>2, ReplayAssumption DEF ReplayInv, StagedPure
<1>2. QED BY <1>1, ReplayInductive, PTL

(***************************************************************************)
(* The improvement loop.                                                   *)
(***************************************************************************)
NextInTurn == (ledger + 1) % SkillCount

\* Places of a launch that has a skill, and of one that has it on its branch.
AtSkill == {"branch", "edit", "rescore", "commit", "push", "open", "back", "rollback", "save"}
OnTopic == {"edit", "rescore", "commit", "push"}

OneOn == \A k, l \in Launches : ~On(k, "off") /\ ~On(l, "off") => k = l

\* A launch is at the skill whose turn it is, on the branch of the skill, and the
\* score it will report is that of the files, then of the branch here, then of the
\* branch at the origin.
InTurn(l) ==
    LET s == Skill(l)
    IN  /\ place[l] \in AtSkill => s = NextInTurn
        /\ place[l] \in {"review", "branch"} => checkout.head = Upstream
        /\ place[l] \in OnTopic => checkout.head = s /\ topic[s] # NoBranch
        /\ place[l] \in {"commit", "push", "open"} => job[l].after > job[l].before
        /\ place[l] = "commit" => checkout.work[s] = job[l].after
        /\ place[l] = "push" => topic[s][s] = job[l].after
        /\ place[l] = "open" =>
               /\ pull[s] # "open"
               /\ origin.topic[s] # NoBranch /\ origin.topic[s][s] = job[l].after

\* A pull request that is open is of a branch that is there.
PullHasBranch == \A s \in Skills : pull[s] = "open" => origin.topic[s] # NoBranch

ImproveInv ==
    /\ ImproveTypeOK
    /\ OneOn
    /\ \A l \in Launches : InTurn(l)
    /\ PullHasBranch

Checkouts == [head : Skills \cup {Upstream}, work : Content, main : Content, ahead : BOOLEAN]
Origins   == [main : Content, topic : [Skills -> Branch]]
Jobs      == [skill : Skills, before : 0..Top, after : 0..Top, improved : BOOLEAN]

\* The skill after a skill, in turn, is a skill; nothing else of % is used.
LEMMA TurnIsSkill ==
    ASSUME ImproveTypeOK
    PROVE  NextInTurn \in Skills
<1>1. SkillCount \in Nat /\ SkillCount > 0 /\ ledger + 1 \in Nat
  BY ImprovementAssumption DEF ImproveTypeOK, Skills
<1>2. (ledger + 1) % SkillCount \in 0..(SkillCount - 1)
  BY <1>1
<1>3. QED BY <1>2 DEF NextInTurn, Skills

LEMMA ImproveInitInv == ImproveInit => ImproveInv
<1> SUFFICES ASSUME ImproveInit PROVE ImproveInv
  OBVIOUS
<1>1. PICK c \in Content :
        /\ checkout = [head |-> Upstream, work |-> c, main |-> c, ahead |-> FALSE]
        /\ origin = [main |-> c, topic |-> [s \in Skills |-> NoBranch]]
  BY DEF ImproveInit
<1>2. checkout \in Checkouts /\ origin \in Origins
  BY <1>1 DEF Checkouts, Origins, Branch
<1>3. /\ 0 \in Skills /\ SkillCount - 1 \in Skills /\ 0 \in 0..Top /\ 0 \in 0..MaxLaunches
      /\ "off" \in Places
  BY ImprovementAssumption DEF Skills, Places
<1>4. [skill |-> 0, before |-> 0, after |-> 0, improved |-> FALSE] \in Jobs
  BY <1>3 DEF Jobs
<1>5. ImproveTypeOK
  BY <1>2, <1>3, <1>4 DEF ImproveInit, ImproveTypeOK, Checkouts, Origins, Jobs, Branch
<1>6. OneOn /\ PullHasBranch
  BY DEF ImproveInit, OneOn, On, PullHasBranch
<1>7. \A l \in Launches : InTurn(l)
  BY DEF ImproveInit, InTurn, AtSkill, OnTopic
<1>8. QED BY <1>5, <1>6, <1>7 DEF ImproveInv

\* A step of the one launch that is on, or begins: what it has to keep.
LEMMA LaunchKeeps ==
    ASSUME ImproveInv, NEW l \in Launches, \A k \in Launches \ {l} : On(k, "off"),
           NEW p \in Places, Go(l, p),
           ImproveTypeOK', InTurn(l)', PullHasBranch'
    PROVE  ImproveInv'
<1>1. \A k \in Launches \ {l} : place'[k] = "off"
  BY DEF Go, On, ImproveInv, ImproveTypeOK
<1>2. OneOn'
  BY <1>1 DEF OneOn, On
<1>3. \A k \in Launches \ {l} : InTurn(k)'
  BY <1>1 DEF InTurn, AtSkill, OnTopic
<1>4. QED BY <1>2, <1>3 DEF ImproveInv

\* What is known of a launch that is on.
LEMMA LaunchOn ==
    ASSUME ImproveInv, NEW l \in Launches, ~On(l, "off")
    PROVE  /\ \A k \in Launches \ {l} : On(k, "off")
           /\ ImproveTypeOK /\ InTurn(l) /\ PullHasBranch
           /\ job[l] \in Jobs /\ Skill(l) \in Skills
           /\ checkout \in Checkouts /\ origin \in Origins
           /\ topic \in [Skills -> Branch]
BY DEF ImproveInv, OneOn, ImproveTypeOK, Jobs, Skill, Checkouts, Origins

\* A launch goes to a place, and only that is new of where launches are.
LEMMA PlaceGone ==
    ASSUME ImproveTypeOK, NEW l \in Launches, NEW p \in Places, Go(l, p)
    PROVE  place' \in [Launches -> Places] /\ place'[l] = p
BY DEF ImproveTypeOK, Go

-----------------------------------------------------------------------------
(* Steps after which, or before which, the launch has no skill.            *)

LEMMA ResetKeeps ==
    ASSUME ImproveInv, Separate, NEW l \in Launches, Reset(l)
    PROVE  ImproveInv'
<1>1. /\ \A k \in Launches : On(k, "off")
      /\ launched < MaxLaunches /\ launched' = launched + 1 /\ Go(l, "lock")
      /\ checkout' = [head |-> Upstream, work |-> origin.main, main |-> origin.main, ahead |-> FALSE]
      /\ UNCHANGED <<pidfile, topic, origin, pull, job, ledger>>
  BY DEF Reset
<1>2. ImproveTypeOK /\ PullHasBranch /\ "lock" \in Places
  BY DEF ImproveInv, Places
<1>3. place' \in [Launches -> Places] /\ place'[l] = "lock"
  BY <1>1, <1>2, PlaceGone
<1>4. checkout' \in Checkouts
  BY <1>1, <1>2 DEF ImproveTypeOK, Checkouts
<1>5. launched' \in 0..MaxLaunches
  BY <1>1, <1>2, ImprovementAssumption DEF ImproveTypeOK
<1>6. ImproveTypeOK'
  BY <1>1, <1>2, <1>3, <1>4, <1>5 DEF ImproveTypeOK, Checkouts
<1>7. InTurn(l)' /\ PullHasBranch'
  BY <1>1, <1>2, <1>3 DEF InTurn, AtSkill, OnTopic, PullHasBranch
<1>8. QED BY <1>1, <1>2, <1>6, <1>7, LaunchKeeps

LEMMA LockKeeps ==
    ASSUME ImproveInv, NEW l \in Launches,
           LookAtLock(l) \/ TakeLock(l) \/ Release(l) \/ KillLaunch(l)
    PROVE  ImproveInv'
<1>1. ~On(l, "off") /\ UNCHANGED <<git, job, ledger, launched>>
  BY DEF LookAtLock, TakeLock, Release, KillLaunch, On
<1>2. PICK p \in {"off", "write_lock", "check"} : Go(l, p)
  BY DEF LookAtLock, TakeLock, Release, KillLaunch
<1>3. pidfile' \in Launches \cup {Unlocked, Dead}
  BY <1>1, LaunchOn DEF LookAtLock, TakeLock, Release, KillLaunch, ImproveTypeOK
<1>4. p \in Places /\ place' \in [Launches -> Places] /\ place'[l] = p
  BY <1>1, <1>2, LaunchOn, PlaceGone DEF Places
<1>5. ImproveTypeOK'
  BY <1>1, <1>3, <1>4, LaunchOn DEF ImproveTypeOK, git
<1>6. InTurn(l)' /\ PullHasBranch'
  BY <1>1, <1>2, <1>4, LaunchOn DEF InTurn, AtSkill, OnTopic, PullHasBranch, git
<1>7. QED BY <1>1, <1>2, <1>4, <1>5, <1>6, LaunchOn, LaunchKeeps

LEMMA SaveLedgerKeeps ==
    ASSUME ImproveInv, NEW l \in Launches, SaveLedger(l)
    PROVE  ImproveInv'
<1>1. /\ ~On(l, "off") /\ Go(l, "clean") /\ ledger' = Skill(l) /\ "clean" \in Places
      /\ UNCHANGED <<pidfile, git, job, launched>>
  BY DEF SaveLedger, On, Places
<1>2. place' \in [Launches -> Places] /\ place'[l] = "clean"
  BY <1>1, LaunchOn, PlaceGone
<1>3. ImproveTypeOK'
  BY <1>1, <1>2, LaunchOn DEF ImproveTypeOK, git
<1>4. InTurn(l)' /\ PullHasBranch'
  BY <1>1, <1>2, LaunchOn DEF InTurn, AtSkill, OnTopic, PullHasBranch, git
<1>5. QED BY <1>1, <1>3, <1>4, LaunchOn, LaunchKeeps

LEMMA CleanUpKeeps ==
    ASSUME ImproveInv, NEW l \in Launches, CleanUp(l)
    PROVE  ImproveInv'
<1>1. /\ ~On(l, "off") /\ Go(l, "leave") /\ "leave" \in Places
      /\ UNCHANGED <<pidfile, checkout, origin, pull, job, ledger, launched>>
  BY DEF CleanUp, On, Places
<1>2. place' \in [Launches -> Places] /\ place'[l] = "leave"
  BY <1>1, LaunchOn, PlaceGone
<1>3. topic' \in [Skills -> Branch]
  BY <1>1, LaunchOn DEF CleanUp, Branch
<1>4. ImproveTypeOK'
  BY <1>1, <1>2, <1>3, LaunchOn DEF ImproveTypeOK
<1>5. InTurn(l)' /\ PullHasBranch'
  BY <1>1, <1>2, LaunchOn DEF InTurn, AtSkill, OnTopic, PullHasBranch
<1>6. QED BY <1>1, <1>4, <1>5, LaunchOn, LaunchKeeps

\* git_safe_check leaves the checkout on main, or the launch goes home.
LEMMA SafeCheckKeeps ==
    ASSUME ImproveInv, NEW l \in Launches, SafeCheck(l)
    PROVE  ImproveInv'
<1>1. /\ ~On(l, "off") /\ UNCHANGED <<pidfile, topic, origin, pull, job, ledger, launched>>
  BY DEF SafeCheck, On
<1>2. PICK p \in {"review", "leave"} :
        /\ Go(l, p) /\ (p = "review" => checkout.head = Upstream)
        /\ \/ checkout' = checkout
           \/ checkout' = [checkout EXCEPT !.work = origin.main, !.main = origin.main]
  BY DEF SafeCheck
<1>3. p \in Places /\ place' \in [Launches -> Places] /\ place'[l] = p
  BY <1>1, <1>2, LaunchOn, PlaceGone DEF Places
<1>4. checkout' \in Checkouts /\ checkout'.head = checkout.head
  BY <1>1, <1>2, LaunchOn DEF Checkouts, Origins
<1>5. ImproveTypeOK'
  BY <1>1, <1>3, <1>4, LaunchOn DEF ImproveTypeOK, Checkouts
<1>6. InTurn(l)' /\ PullHasBranch'
  BY <1>1, <1>2, <1>3, <1>4, LaunchOn DEF InTurn, AtSkill, OnTopic, PullHasBranch
<1>7. QED BY <1>1, <1>2, <1>3, <1>5, <1>6, LaunchOn, LaunchKeeps

-----------------------------------------------------------------------------
(* Steps at a skill.                                                       *)

LEMMA ReviewKeeps ==
    ASSUME ImproveInv, NEW l \in Launches, Review(l)
    PROVE  ImproveInv'
<1>1. /\ ~On(l, "off") /\ place[l] = "review" /\ UNCHANGED <<pidfile, git, ledger, launched>>
  BY DEF Review, On
<1> DEFINE score == checkout.work[NextInTurn]
           taken == [skill |-> NextInTurn, before |-> score, after |-> score, improved |-> FALSE]
<1>2. PICK p \in {"branch", "save", "leave"} :
        /\ Go(l, p)
        /\ IF p = "leave" THEN UNCHANGED job ELSE job' = [job EXCEPT ![l] = taken]
  BY DEF Review, NextInTurn
<1>3. p \in Places /\ place' \in [Launches -> Places] /\ place'[l] = p
  BY <1>1, <1>2, LaunchOn, PlaceGone DEF Places
<1>4. NextInTurn \in Skills /\ score \in 0..Top
  BY <1>1, LaunchOn, TurnIsSkill DEF Checkouts, Content
<1>5. taken \in Jobs /\ taken.skill = NextInTurn
  BY <1>4 DEF Jobs
<1>6. job' \in [Launches -> Jobs] /\ (p # "leave" => job'[l].skill = NextInTurn)
  <2> HIDE DEF taken
  <2>1. job \in [Launches -> Jobs]
    BY <1>1, LaunchOn DEF ImproveTypeOK, Jobs
  <2>2. QED BY <1>2, <1>5, <2>1
<1>7. ImproveTypeOK'
  BY <1>1, <1>3, <1>6, LaunchOn DEF ImproveTypeOK, git, Jobs
<1>8. checkout.head = Upstream
  BY <1>1, LaunchOn DEF InTurn
<1>9. InTurn(l)' /\ PullHasBranch'
  <2>1. NextInTurn' = NextInTurn /\ Skill(l)' = job'[l].skill
    BY <1>1 DEF NextInTurn, Skill
  <2>2. QED BY <1>1, <1>3, <1>6, <1>8, <2>1, LaunchOn
            DEF InTurn, AtSkill, OnTopic, PullHasBranch, git
<1>10. QED BY <1>1, <1>2, <1>3, <1>7, <1>9, LaunchOn, LaunchKeeps

LEMMA FindPullKeeps ==
    ASSUME ImproveInv, NEW l \in Launches, FindPull(l)
    PROVE  ImproveInv'
<1>1. /\ ~On(l, "off") /\ place[l] = "branch" /\ Go(l, "save") /\ "save" \in Places
      /\ UNCHANGED <<pidfile, git, job, ledger, launched>>
  BY DEF FindPull, On, Places
<1>2. place' \in [Launches -> Places] /\ place'[l] = "save"
  BY <1>1, LaunchOn, PlaceGone
<1>3. ImproveTypeOK'
  BY <1>1, <1>2, LaunchOn DEF ImproveTypeOK, git
<1>4. Skill(l)' = NextInTurn'
  BY <1>1, LaunchOn DEF InTurn, AtSkill, NextInTurn, Skill
<1>5. InTurn(l)' /\ PullHasBranch'
  BY <1>1, <1>2, <1>4, LaunchOn DEF InTurn, OnTopic, PullHasBranch, git
<1>6. QED BY <1>1, <1>3, <1>5, LaunchOn, LaunchKeeps

LEMMA MakeBranchKeeps ==
    ASSUME ImproveInv, NEW l \in Launches, MakeBranch(l)
    PROVE  ImproveInv'
<1> DEFINE s == Skill(l)
<1>1. /\ ~On(l, "off") /\ place[l] = "branch"
      /\ UNCHANGED <<pidfile, origin, pull, job, ledger, launched>>
  BY DEF MakeBranch, On
<1>2. PICK p \in {"edit", "leave"} :
        /\ Go(l, p)
        /\ IF p = "edit" THEN /\ topic' = [topic EXCEPT ![s] = Committed]
                              /\ checkout' = [checkout EXCEPT !.head = s]
                         ELSE UNCHANGED <<topic, checkout>>
  BY DEF MakeBranch
<1>3. p \in Places /\ place' \in [Launches -> Places] /\ place'[l] = p
  BY <1>1, <1>2, LaunchOn, PlaceGone DEF Places
<1>4. Committed \in Content /\ s = NextInTurn /\ s \in Skills
  BY <1>1, LaunchOn DEF InTurn, AtSkill, Committed, Checkouts
<1>5. /\ topic' \in [Skills -> Branch] /\ checkout' \in Checkouts
      /\ p = "edit" => topic'[s] # NoBranch /\ checkout'.head = s
  BY <1>1, <1>2, <1>4, LaunchOn, ImprovementAssumption DEF Branch, Checkouts
<1>6. ImproveTypeOK'
  BY <1>1, <1>3, <1>5, LaunchOn DEF ImproveTypeOK, Checkouts
<1>7. InTurn(l)' /\ PullHasBranch'
  <2>1. NextInTurn' = NextInTurn /\ Skill(l)' = s
    BY <1>1 DEF NextInTurn, Skill
  <2>2. QED BY <1>1, <1>3, <1>4, <1>5, <2>1, LaunchOn DEF InTurn, AtSkill, OnTopic, PullHasBranch
<1>8. QED BY <1>1, <1>2, <1>3, <1>6, <1>7, LaunchOn, LaunchKeeps

LEMMA EditKeeps ==
    ASSUME ImproveInv, NEW l \in Launches, Edit(l)
    PROVE  ImproveInv'
<1> DEFINE s == Skill(l)
<1>1. /\ ~On(l, "off") /\ place[l] = "edit"
      /\ UNCHANGED <<pidfile, topic, origin, pull, job, ledger, launched>>
  BY DEF Edit, On
<1>2. PICK p \in {"rescore", "rollback"}, score \in 0..Top :
        Go(l, p) /\ checkout' = [checkout EXCEPT !.work[s] = score]
  BY DEF Edit
<1>3. p \in Places /\ place' \in [Launches -> Places] /\ place'[l] = p
  BY <1>1, <1>2, LaunchOn, PlaceGone DEF Places
<1>4. s = NextInTurn /\ s \in Skills /\ checkout.head = s /\ topic[s] # NoBranch
  BY <1>1, LaunchOn DEF InTurn, AtSkill, OnTopic
<1>5. checkout' \in Checkouts /\ checkout'.head = checkout.head
  <2>1. [checkout.work EXCEPT ![s] = score] \in Content
    BY <1>1, <1>4, LaunchOn DEF Checkouts, Content
  <2>2. checkout' = [checkout EXCEPT !.work = [checkout.work EXCEPT ![s] = score]]
    BY <1>2
  <2>3. QED BY <1>1, <2>1, <2>2, LaunchOn DEF Checkouts
<1>6. ImproveTypeOK'
  BY <1>1, <1>3, <1>5, LaunchOn DEF ImproveTypeOK, Checkouts
<1>7. InTurn(l)' /\ PullHasBranch'
  <2>1. NextInTurn' = NextInTurn /\ Skill(l)' = s
    BY <1>1 DEF NextInTurn, Skill
  <2>2. QED BY <1>1, <1>3, <1>4, <1>5, <2>1, LaunchOn DEF InTurn, AtSkill, OnTopic, PullHasBranch
<1>8. QED BY <1>1, <1>2, <1>3, <1>6, <1>7, LaunchOn, LaunchKeeps

\* What passes the gates is better than before, and it is what the files hold.
LEMMA RescoreKeeps ==
    ASSUME ImproveInv, NEW l \in Launches, Rescore(l)
    PROVE  ImproveInv'
<1> DEFINE s == Skill(l)
           score == checkout.work[s]
<1>1. /\ ~On(l, "off") /\ place[l] = "rescore" /\ UNCHANGED <<pidfile, git, ledger, launched>>
  BY DEF Rescore, On
<1>2. PICK p \in {"commit", "rollback"} :
        /\ Go(l, p)
        /\ IF p = "commit" THEN score > job[l].before /\ job' = [job EXCEPT ![l].after = score]
                           ELSE UNCHANGED job
  BY DEF Rescore
<1>3. p \in Places /\ place' \in [Launches -> Places] /\ place'[l] = p
  BY <1>1, <1>2, LaunchOn, PlaceGone DEF Places
<1>4. s = NextInTurn /\ s \in Skills /\ checkout.head = s /\ topic[s] # NoBranch
  BY <1>1, LaunchOn DEF InTurn, AtSkill, OnTopic
<1>5. job \in [Launches -> Jobs] /\ score \in 0..Top
  BY <1>1, <1>4, LaunchOn DEF ImproveTypeOK, Jobs, Checkouts, Content
<1>6. /\ job' \in [Launches -> Jobs] /\ job'[l].skill = s
      /\ p = "commit" => job'[l].after = score /\ job'[l].after > job'[l].before
  <2>1. CASE p = "commit"
    <3> DEFINE e == [job[l] EXCEPT !.after = score]
    <3>1. e \in Jobs /\ e.after = score /\ e.before = job[l].before /\ e.skill = s
      BY <1>1, <1>5, LaunchOn DEF Jobs, Skill
    <3>2. job' = [job EXCEPT ![l] = e]
      BY <1>2, <2>1
    <3> HIDE DEF e
    <3>3. job' \in [Launches -> Jobs] /\ job'[l] = e
      BY <1>5, <3>1, <3>2
    <3>4. QED BY <1>2, <2>1, <3>1, <3>3
  <2>2. CASE p # "commit"
    BY <1>2, <1>5, <2>2 DEF Skill
  <2>3. QED BY <2>1, <2>2
<1>7. ImproveTypeOK'
  BY <1>1, <1>3, <1>6, LaunchOn DEF ImproveTypeOK, git, Jobs
<1>8. InTurn(l)' /\ PullHasBranch'
  <2>1. NextInTurn' = NextInTurn /\ Skill(l)' = s
    BY <1>1, <1>6 DEF NextInTurn, Skill
  <2>2. QED BY <1>1, <1>2, <1>3, <1>4, <1>6, <2>1, LaunchOn
            DEF InTurn, AtSkill, OnTopic, PullHasBranch, git
<1>9. QED BY <1>1, <1>2, <1>3, <1>7, <1>8, LaunchOn, LaunchKeeps

\* The commit is of the edit, on the branch of its skill.
LEMMA CommitKeeps ==
    ASSUME ImproveInv, NEW l \in Launches, CommitEdit(l)
    PROVE  ImproveInv'
<1> DEFINE s == Skill(l)
           commit == [Committed EXCEPT ![s] = checkout.work[s]]
<1>1. /\ ~On(l, "off") /\ place[l] = "commit"
      /\ UNCHANGED <<pidfile, origin, pull, job, ledger, launched>>
  BY DEF CommitEdit, On
<1>2. /\ s = NextInTurn /\ s \in Skills /\ checkout.head = s /\ topic[s] # NoBranch
      /\ checkout.work[s] = job[l].after /\ job[l].after > job[l].before
  BY <1>1, LaunchOn DEF InTurn, AtSkill, OnTopic
<1>3. checkout.head # Upstream
  BY <1>2, ImprovementAssumption DEF Skills
<1>4. Committed \in Content
  BY <1>1, <1>2, <1>3, LaunchOn DEF Committed, Branch
<1>5. commit \in Content /\ commit[s] = job[l].after
  BY <1>1, <1>2, <1>4, LaunchOn DEF Content, Checkouts
<1>6. PICK p \in {"push", "rollback"} :
        /\ Go(l, p) /\ UNCHANGED checkout
        /\ IF p = "push" THEN topic' = [topic EXCEPT ![s] = commit] ELSE UNCHANGED topic
  BY <1>2, <1>3 DEF CommitEdit
<1>7. p \in Places /\ place' \in [Launches -> Places] /\ place'[l] = p
  BY <1>1, <1>6, LaunchOn, PlaceGone DEF Places
<1>8. /\ topic' \in [Skills -> Branch]
      /\ p = "push" => topic'[s] # NoBranch /\ topic'[s][s] = job[l].after
  <2> HIDE DEF commit
  <2>1. commit # NoBranch /\ commit \in Branch
    BY <1>5, ImprovementAssumption DEF Branch
  <2>2. QED BY <1>1, <1>2, <1>5, <1>6, <2>1, LaunchOn
<1>9. ImproveTypeOK'
  BY <1>1, <1>6, <1>7, <1>8, LaunchOn DEF ImproveTypeOK
<1>10. InTurn(l)' /\ PullHasBranch'
  <2>1. NextInTurn' = NextInTurn /\ Skill(l)' = s
    BY <1>1 DEF NextInTurn, Skill
  <2>2. QED BY <1>1, <1>2, <1>6, <1>7, <1>8, <2>1, LaunchOn
            DEF InTurn, AtSkill, OnTopic, PullHasBranch
<1>11. QED BY <1>1, <1>6, <1>7, <1>9, <1>10, LaunchOn, LaunchKeeps

\* What is pushed is that commit, to a branch that has no open pull request.
LEMMA PushKeeps ==
    ASSUME ImproveInv, NEW l \in Launches, Push(l)
    PROVE  ImproveInv'
<1> DEFINE s == Skill(l)
<1>1. /\ ~On(l, "off") /\ place[l] = "push"
      /\ UNCHANGED <<pidfile, checkout, topic, pull, job, ledger, launched>>
  BY DEF Push, On
<1>2. PICK p \in {"open", "back"} :
        /\ Go(l, p)
        /\ IF p = "open" THEN /\ origin.topic[s] = NoBranch \/ pull[s] = "merged"
                              /\ origin' = [origin EXCEPT !.topic[s] = topic[s]]
                         ELSE UNCHANGED origin
  BY DEF Push
<1>3. p \in Places /\ place' \in [Launches -> Places] /\ place'[l] = p
  BY <1>1, <1>2, LaunchOn, PlaceGone DEF Places
<1>4. /\ s = NextInTurn /\ s \in Skills /\ topic[s] # NoBranch /\ topic[s] \in Branch
      /\ topic[s][s] = job[l].after /\ job[l].after > job[l].before
  BY <1>1, LaunchOn DEF InTurn, AtSkill, OnTopic
<1>5. /\ origin' \in Origins
      /\ \A k \in Skills \ {s} : origin'.topic[k] = origin.topic[k]
      /\ IF p = "open" THEN origin'.topic[s] = topic[s] ELSE origin' = origin
  <2>1. CASE p = "open"
    <3> DEFINE f == [origin.topic EXCEPT ![s] = topic[s]]
    <3>1. origin' = [origin EXCEPT !.topic = f]
      BY <1>2, <2>1
    <3>2. f \in [Skills -> Branch] /\ f[s] = topic[s]
          /\ \A k \in Skills \ {s} : f[k] = origin.topic[k]
      BY <1>1, <1>4, LaunchOn DEF Origins
    <3> HIDE DEF f
    <3>3. origin' \in Origins /\ origin'.topic = f
      BY <1>1, <3>1, <3>2, LaunchOn DEF Origins
    <3>4. QED BY <2>1, <3>2, <3>3
  <2>2. CASE p # "open"
    BY <1>1, <1>2, <2>2, LaunchOn
  <2>3. QED BY <2>1, <2>2
<1>6. ImproveTypeOK'
  BY <1>1, <1>3, <1>5, LaunchOn DEF ImproveTypeOK, Origins
<1>7. p = "open" => pull[s] # "open"
  BY <1>1, <1>2, <1>4, LaunchOn DEF PullHasBranch
<1>8. PullHasBranch'
  BY <1>1, <1>4, <1>5, LaunchOn DEF PullHasBranch
<1>9. InTurn(l)'
  <2>1. NextInTurn' = NextInTurn /\ Skill(l)' = s
    BY <1>1 DEF NextInTurn, Skill
  <2>2. QED BY <1>1, <1>3, <1>4, <1>5, <1>7, <2>1 DEF InTurn, AtSkill, OnTopic
<1>10. QED BY <1>1, <1>2, <1>3, <1>6, <1>8, <1>9, LaunchOn, LaunchKeeps

LEMMA OpenPullKeeps ==
    ASSUME ImproveInv, NEW l \in Launches, OpenPull(l)
    PROVE  ImproveInv'
<1> DEFINE s == Skill(l)
<1>1. /\ ~On(l, "off") /\ place[l] = "open" /\ Go(l, "back") /\ "back" \in Places
      /\ job' = [job EXCEPT ![l].improved = TRUE]
      /\ pull' \in {pull, [pull EXCEPT ![s] = "open"]}
      /\ UNCHANGED <<pidfile, checkout, topic, origin, ledger, launched>>
  BY DEF OpenPull, On, Places
<1>2. place' \in [Launches -> Places] /\ place'[l] = "back"
  BY <1>1, LaunchOn, PlaceGone
<1>3. s = NextInTurn /\ s \in Skills /\ origin.topic[s] # NoBranch
  BY <1>1, LaunchOn DEF InTurn, AtSkill
<1>4. job' \in [Launches -> Jobs] /\ job'[l].skill = s
  <2> DEFINE e == [job[l] EXCEPT !.improved = TRUE]
  <2>a. job \in [Launches -> Jobs]
    BY <1>1, LaunchOn DEF Jobs, ImproveTypeOK
  <2>b. job[l] \in Jobs
    BY <2>a
  <2>1. e \in Jobs /\ e.skill = s
    BY <2>b DEF Jobs, Skill
  <2>2. job' = [job EXCEPT ![l] = e]
    BY <1>1
  <2> HIDE DEF e
  <2>3. QED BY <2>a, <2>1, <2>2 DEF Skill
<1>5. /\ pull' \in [Skills -> {"none", "open", "merged", "closed"}]
      /\ \A k \in Skills \ {s} : pull'[k] = pull[k]
  BY <1>1, <1>3, LaunchOn DEF ImproveTypeOK
<1>6. ImproveTypeOK'
  BY <1>1, <1>2, <1>4, <1>5, LaunchOn DEF ImproveTypeOK, Jobs
<1>7. InTurn(l)' /\ PullHasBranch'
  <2>1. NextInTurn' = NextInTurn /\ Skill(l)' = s
    BY <1>1, <1>4 DEF NextInTurn, Skill
  <2>2. InTurn(l)'
    BY <1>2, <1>3, <2>1 DEF InTurn, AtSkill, OnTopic
  <2>3. PullHasBranch'
    BY <1>1, <1>3, <1>5, LaunchOn DEF PullHasBranch
  <2>4. QED BY <2>2, <2>3
<1>8. QED BY <1>1, <1>6, <1>7, LaunchOn, LaunchKeeps

LEMMA BackKeeps ==
    ASSUME ImproveInv, NEW l \in Launches, Back(l)
    PROVE  ImproveInv'
<1>1. /\ ~On(l, "off") /\ place[l] \in {"back", "rollback"} /\ Go(l, "save") /\ "save" \in Places
      /\ checkout' = [checkout EXCEPT !.head = Upstream, !.work = checkout.main]
      /\ topic' \in {topic, [topic EXCEPT ![Skill(l)] = NoBranch]}
      /\ UNCHANGED <<pidfile, origin, pull, job, ledger, launched>>
  BY DEF Back, On, Places
<1>2. place' \in [Launches -> Places] /\ place'[l] = "save"
  BY <1>1, LaunchOn, PlaceGone
<1>3. checkout' \in Checkouts /\ topic' \in [Skills -> Branch]
  BY <1>1, LaunchOn DEF Checkouts, Branch
<1>4. ImproveTypeOK'
  BY <1>1, <1>2, <1>3, LaunchOn DEF ImproveTypeOK, Checkouts
<1>5. Skill(l)' = NextInTurn'
  BY <1>1, LaunchOn DEF InTurn, AtSkill, NextInTurn, Skill
<1>6. InTurn(l)' /\ PullHasBranch'
  BY <1>1, <1>2, <1>5, LaunchOn DEF InTurn, AtSkill, OnTopic, PullHasBranch
<1>7. QED BY <1>1, <1>4, <1>6, LaunchOn, LaunchKeeps

\* The maintainer decides about open pull requests only, which the branch of a
\* launch that is about to open one has not.
LEMMA DecideKeeps ==
    ASSUME ImproveInv, NEW s \in Skills, Decide(s)
    PROVE  ImproveInv'
<1>1. /\ pull[s] = "open" /\ origin.topic[s] # NoBranch
      /\ UNCHANGED <<place, pidfile, checkout, topic, job, ledger, launched>>
  BY DEF Decide, ImproveInv, PullHasBranch
<1>2. /\ ImproveTypeOK /\ PullHasBranch /\ OneOn /\ origin \in Origins
      /\ \A l \in Launches : InTurn(l) /\ Skill(l) \in Skills
  BY DEF ImproveInv, ImproveTypeOK, Origins, Skill
<1>3. /\ pull' \in [Skills -> {"none", "open", "merged", "closed"}] /\ pull'[s] # "open"
      /\ \A k \in Skills \ {s} : pull'[k] = pull[k]
  BY <1>2 DEF Decide, ImproveTypeOK
<1>4. /\ origin' \in Origins
      /\ \A k \in Skills \ {s} : origin'.topic[k] = origin.topic[k]
  <2>1. PICK b \in {origin.topic[s], NoBranch}, m \in Content :
          origin' = [main |-> m, topic |-> [origin.topic EXCEPT ![s] = b]]
    <3>1. origin.topic[s] \in Content /\ origin.main \in Content
      BY <1>1, <1>2 DEF Origins, Branch
    <3>2. [origin.main EXCEPT ![s] = origin.topic[s][s]] \in Content
      BY <3>1 DEF Content
    <3>3. ASSUME NEW b \in {origin.topic[s], NoBranch}, origin' = [origin EXCEPT !.topic[s] = b]
          PROVE  origin' = [main |-> origin.main, topic |-> [origin.topic EXCEPT ![s] = b]]
      BY <1>2, <3>3 DEF Origins
    <3>4. QED BY <3>1, <3>2, <3>3 DEF Decide
  <2>2. [origin.topic EXCEPT ![s] = b] \in [Skills -> Branch]
    BY <1>2, <2>1 DEF Origins, Branch
  <2>3. QED BY <1>2, <2>1, <2>2 DEF Origins
<1>5. ImproveTypeOK'
  BY <1>1, <1>2, <1>3, <1>4 DEF ImproveTypeOK, Origins
<1>6. OneOn' /\ PullHasBranch'
  BY <1>1, <1>2, <1>3, <1>4 DEF OneOn, On, PullHasBranch
<1>7. \A l \in Launches : InTurn(l)'
  <2> SUFFICES ASSUME NEW l \in Launches PROVE InTurn(l)'
    OBVIOUS
  <2>1. NextInTurn' = NextInTurn /\ Skill(l)' = Skill(l) /\ Skill(l) \in Skills
    BY <1>1, <1>2 DEF NextInTurn, Skill
  <2>2. place[l] = "open" => Skill(l) # s
    BY <1>1, <1>2 DEF InTurn
  <2>3. QED BY <1>1, <1>2, <1>3, <1>4, <2>1, <2>2 DEF InTurn
<1>8. QED BY <1>5, <1>6, <1>7 DEF ImproveInv

-----------------------------------------------------------------------------
(* The theorems.                                                           *)

LEMMA ImproveStepInv ==
    ASSUME Separate, ImproveInv, [ImproveNext]_improveVars
    PROVE  ImproveInv'
<1>1. CASE UNCHANGED improveVars
  <2>1. UNCHANGED <<place, pidfile, checkout, topic, origin, pull, job, ledger, launched>>
    BY <1>1 DEF improveVars, git
  <2>2. ImproveTypeOK' /\ OneOn' /\ PullHasBranch'
    BY <2>1 DEF ImproveInv, ImproveTypeOK, OneOn, On, PullHasBranch
  <2>3. \A l \in Launches : InTurn(l)'
    BY <2>1 DEF ImproveInv, InTurn, NextInTurn, Skill
  <2>4. QED BY <2>2, <2>3 DEF ImproveInv
<1>2. ASSUME NEW l \in Launches, Reset(l) PROVE ImproveInv'
  BY <1>2, ResetKeeps
<1>3. ASSUME NEW l \in Launches,
             LookAtLock(l) \/ TakeLock(l) \/ Release(l) \/ KillLaunch(l)
      PROVE  ImproveInv'
  BY <1>3, LockKeeps
<1>4. ASSUME NEW l \in Launches, SafeCheck(l) \/ Review(l) \/ FindPull(l) \/ MakeBranch(l)
      PROVE  ImproveInv'
  BY <1>4, SafeCheckKeeps, ReviewKeeps, FindPullKeeps, MakeBranchKeeps
<1>5. ASSUME NEW l \in Launches, Edit(l) \/ Rescore(l) \/ CommitEdit(l) \/ Push(l)
      PROVE  ImproveInv'
  BY <1>5, EditKeeps, RescoreKeeps, CommitKeeps, PushKeeps
<1>6. ASSUME NEW l \in Launches, OpenPull(l) \/ Back(l) \/ SaveLedger(l) \/ CleanUp(l)
      PROVE  ImproveInv'
  BY <1>6, OpenPullKeeps, BackKeeps, SaveLedgerKeeps, CleanUpKeeps
<1>7. ASSUME NEW s \in Skills, Decide(s) PROVE ImproveInv'
  BY <1>7, DecideKeeps
<1>8. QED BY <1>1, <1>2, <1>3, <1>4, <1>5, <1>6, <1>7 DEF ImproveNext

\* What holds of launches that do not overlap, after any step.
THEOREM ImproveInductive == Separate /\ ImproveSpec => []ImproveInv
<1>1. CASE Separate
  <2>1. ImproveInv /\ [ImproveNext]_improveVars => ImproveInv'
    BY <1>1, ImproveStepInv
  <2>2. QED BY <2>1, ImproveInitInv, PTL DEF ImproveSpec
<1>2. CASE ~Separate
  BY <1>2
<1>3. QED BY <1>1, <1>2

\* The checkout, the branches, the pull requests and the state file always have the
\* shape that the loop expects, whatever is killed.
THEOREM ImproveTypeCorrect == Separate /\ ImproveSpec => []ImproveTypeOK
<1>1. ImproveInv => ImproveTypeOK
  BY DEF ImproveInv
<1>2. QED BY <1>1, ImproveInductive, PTL

\* Only opening the pull request calls a skill improved, or makes a pull open.
LEMMA OnlyOpenPull ==
    ASSUME ImproveInv, ImproveNext, NEW l \in Launches,
           job'[l].improved, ~job[l].improved
    PROVE  OpenPull(l)
<1>1. job \in [Launches -> Jobs]
  BY DEF ImproveInv, ImproveTypeOK, Jobs
<1>2. PICK k \in Launches : Review(k) \/ Rescore(k) \/ OpenPull(k)
  BY DEF ImproveNext, Reset, LookAtLock, TakeLock, SafeCheck, FindPull, MakeBranch, Edit,
         CommitEdit, Push, Back, SaveLedger, CleanUp, Release, KillLaunch, Decide
<1>3. ASSUME Review(k) PROVE FALSE
  <2>1. \/ UNCHANGED job
        \/ \E r : job' = [job EXCEPT ![k] = r] /\ ~r.improved
    BY <1>3 DEF Review
  <2>2. QED BY <1>1, <2>1 DEF Jobs
<1>4. ASSUME Rescore(k) PROVE FALSE
  <2>1. \/ UNCHANGED job
        \/ job' = [job EXCEPT ![k] = [job[k] EXCEPT !.after = checkout.work[Skill(k)]]]
    BY <1>4 DEF Rescore
  <2>2. [job[k] EXCEPT !.after = checkout.work[Skill(k)]].improved = job[k].improved
    BY <1>1 DEF Jobs
  <2>3. QED BY <1>1, <2>1, <2>2
<1>5. QED
  <2>1. OpenPull(k)
    BY <1>2, <1>3, <1>4
  <2>2. k = l
    BY <1>1, <2>1 DEF OpenPull
  <2>3. QED BY <2>1, <2>2

LEMMA OnlyOpenPullOpens ==
    ASSUME ImproveInv, ImproveNext, NEW s \in Skills, pull'[s] = "open", pull[s] # "open"
    PROVE  \E l \in Launches : OpenPull(l) /\ Skill(l) = s
<1>1. pull \in [Skills -> {"none", "open", "merged", "closed"}]
  BY DEF ImproveInv, ImproveTypeOK
<1>2. ASSUME NEW k \in Skills, Decide(k) PROVE FALSE
  <2>1. pull' = [pull EXCEPT ![k] = "merged"] \/ pull' = [pull EXCEPT ![k] = "closed"]
    BY <1>2 DEF Decide
  <2>2. QED BY <1>1, <2>1
<1>3. PICK l \in Launches : OpenPull(l)
  BY <1>2 DEF ImproveNext, Reset, LookAtLock, TakeLock, SafeCheck, Review, FindPull,
         MakeBranch, Edit, Rescore, CommitEdit, Push, Back, SaveLedger, CleanUp, Release,
         KillLaunch, git
<1>4. pull' = [pull EXCEPT ![Skill(l)] = "open"]
  BY <1>3 DEF OpenPull
<1>5. QED BY <1>1, <1>3, <1>4

\* The ledger only moves on, to the skill whose turn it is.
LEMMA LedgerInTurn ==
    ASSUME ImproveInv, ImproveNext
    PROVE  ledger' \in {ledger, NextInTurn}
<1>1. ASSUME NEW l \in Launches, SaveLedger(l) PROVE ledger' = NextInTurn
  <2>1. place[l] = "save" /\ ledger' = Skill(l)
    BY <1>1 DEF SaveLedger, On
  <2>2. QED BY <2>1 DEF ImproveInv, InTurn, AtSkill
<1>2. QED BY <1>1 DEF ImproveNext, Reset, LookAtLock, TakeLock, SafeCheck, Review, FindPull,
         MakeBranch, Edit, Rescore, CommitEdit, Push, OpenPull, Back, CleanUp, Release,
         KillLaunch, Decide

\* When launches do not overlap, a skill is called improved, and a pull request
\* opened, only for the very edit that was scored, which was better than what the
\* skill was, and which the branch at the origin has; and skills take turns.
THEOREM PublishesWhatWasScored == Separate /\ ImproveSpec => ReportsWhatIsPublished
<1> DEFINE Honest ==
      /\ \A l \in Launches :
             (job'[l].improved /\ ~job[l].improved) =>
                 LET s == Skill(l)
                 IN  /\ origin.topic[s] # NoBranch
                     /\ origin.topic[s][s] = job[l].after
                     /\ job[l].after > job[l].before
      /\ \A s \in Skills : (pull'[s] = "open" /\ pull[s] # "open") =>
             \E l \in Launches : Skill(l) = s /\ job'[l].improved
      /\ ledger' \in {ledger, (ledger + 1) % SkillCount}
<1>1. ASSUME ImproveInv, ImproveNext PROVE Honest
  <2>1. ASSUME NEW l \in Launches, OpenPull(l)
        PROVE  /\ job'[l].improved
               /\ origin.topic[Skill(l)] # NoBranch
               /\ origin.topic[Skill(l)][Skill(l)] = job[l].after
               /\ job[l].after > job[l].before
    <3>1. job[l] \in Jobs /\ job' = [job EXCEPT ![l].improved = TRUE] /\ place[l] = "open"
          /\ job \in [Launches -> Jobs]
      BY <1>1, <2>1 DEF OpenPull, On, ImproveInv, ImproveTypeOK, Jobs
    <3>2. job'[l].improved
      BY <3>1 DEF Jobs
    <3>3. InTurn(l)
      BY <1>1 DEF ImproveInv
    <3>4. QED BY <3>1, <3>2, <3>3 DEF InTurn
  <2>2. QED BY <1>1, <2>1, OnlyOpenPull, OnlyOpenPullOpens, LedgerInTurn DEF NextInTurn
<1>2. ImproveInv /\ [ImproveNext]_improveVars => [Honest]_improveVars
  BY <1>1
<1> HIDE DEF Honest
<1>3. Separate /\ ImproveSpec => [][Honest]_improveVars
  BY <1>2, ImproveInductive, PTL DEF ImproveSpec
<1>4. QED BY <1>3 DEF Honest, ReportsWhatIsPublished
=============================================================================
