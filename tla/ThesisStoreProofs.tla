-------------------------- MODULE ThesisStoreProofs --------------------------
(***************************************************************************)
(* Theorems about ThesisStore, for any number of processes, ids and        *)
(* origins.  The first part is about processes that interleave and die at  *)
(* any step; the second about operations that do not overlap.              *)
(***************************************************************************)
EXTENDS ThesisStore, TLAPS

\* The ids of operations in progress name what their memory holds.
OwnHeld ==
    \A p \in Procs :
        /\ own[p] \in Ids => mem[p] \in Thesis
        /\ pc[p] \in {"find", "scan", "save", "load_index", "save_index"}
             => own[p] \in Ids

\* An id without a file belongs to one operation only: a fresh id is fresh.
OwnFresh ==
    \A p, q \in Procs :
        own[p] \in Ids /\ own[q] = own[p] /\ files[own[p]] = None => p = q

\* An operation saves a thesis over a file of the same origin, or over none.
OwnOrigin ==
    \A p \in Procs :
        own[p] \in Ids /\ files[own[p]] # None => files[own[p]].fp = mem[p].fp

\* The index is written only after the file.
FileFirst ==
    \A p \in Procs :
        pc[p] \in {"load_index", "save_index"} => files[own[p]] # None

\* What IndexPointsToThesis says of the index holds of every copy of it.
SnapPointsToThesis ==
    \A p \in Procs, id \in Ids :
        snap[p][id] # None => Describes(snap[p][id], id)

TodoListed == \A p \in Procs : todo[p] \subseteq Listed

IInv ==
    /\ TypeOK
    /\ OwnHeld
    /\ OwnFresh
    /\ OwnOrigin
    /\ FileFirst
    /\ SnapPointsToThesis
    /\ TodoListed
    /\ IndexPointsToThesis

LEMMA NoneApart == None \notin Ids /\ None \notin Thesis /\ None \notin Entry
BY StoreAssumption DEF Thesis, Entry, Statuses

\* What the index repeats of a thesis is an entry with the thesis's origin.
LEMMA ProjectEntry ==
    ASSUME NEW t \in Thesis
    PROVE  Project(t) \in Entry /\ Project(t).fp = t.fp
BY DEF Project, Thesis, Entry, Statuses

LEMMA InitInv == Init => IInv
BY NoneApart DEF Init, IInv, TypeOK, OwnHeld, OwnFresh, OwnOrigin, FileFirst,
    SnapPointsToThesis, TodoListed, IndexPointsToThesis, NoEntries, Steps

\* An operation that ends, or dies, disturbs nothing.
LEMMA ReturnInv ==
    ASSUME IInv, NEW p \in Procs, Return(p), UNCHANGED store
    PROVE  IInv'
<1> USE NoneApart DEF IInv
<1>1. TypeOK'
  BY DEF TypeOK, Return, GoTo, store, NoEntries, Steps
<1>2. OwnHeld' /\ OwnFresh' /\ OwnOrigin'
  BY DEF TypeOK, Return, GoTo, store, OwnHeld, OwnFresh, OwnOrigin
<1>3. FileFirst'
  BY DEF TypeOK, Return, GoTo, store, OwnHeld, FileFirst
<1>4. SnapPointsToThesis' /\ TodoListed' /\ IndexPointsToThesis'
  BY DEF TypeOK, Return, GoTo, store, NoEntries, SnapPointsToThesis, TodoListed,
      IndexPointsToThesis, Describes, Listed
<1>5. QED BY <1>1, <1>2, <1>3, <1>4

-----------------------------------------------------------------------------
(* Building a thesis, or loading one, is the only way to come to own an id. *)

LEMMA BuildInv ==
    ASSUME IInv, ~HashCollides, NEW p \in Procs, NEW id \in Ids,
           NEW fp \in Fingerprints, BuildThesis(p, id, fp)
    PROVE  IInv'
<1> USE NoneApart DEF IInv, store
<1> DEFINE new == [fp |-> fp, status |-> 0, reports |-> {}]
<1>1. new \in Thesis
  BY StoreAssumption DEF Thesis, Statuses
<1>2. files[id] = None /\ \A q \in Procs : own[q] # id
  BY DEF BuildThesis, InUse, Listed
<1>3. TypeOK'
  BY <1>1 DEF TypeOK, BuildThesis, GoTo, Steps
<1>4. OwnHeld' /\ OwnFresh' /\ OwnOrigin'
  BY <1>1, <1>2 DEF TypeOK, BuildThesis, GoTo, OwnHeld, OwnFresh, OwnOrigin
<1>5. FileFirst'
  BY DEF TypeOK, BuildThesis, GoTo, FileFirst
<1>6. SnapPointsToThesis' /\ TodoListed' /\ IndexPointsToThesis'
  BY DEF BuildThesis, SnapPointsToThesis, TodoListed, IndexPointsToThesis,
      Describes, Listed
<1>7. QED BY <1>3, <1>4, <1>5, <1>6

LEMMA LoadInv ==
    ASSUME IInv, NEW p \in Procs, NEW id \in Ids, NEW t \in Thesis,
           t.fp = files[id].fp, Load(p, id, t)
    PROVE  IInv'
<1> USE NoneApart DEF IInv, store
<1>1. TypeOK'
  BY DEF TypeOK, Load, GoTo, Steps
<1>2. OwnHeld' /\ OwnFresh' /\ OwnOrigin'
  BY DEF TypeOK, Load, GoTo, OwnHeld, OwnFresh, OwnOrigin
<1>3. FileFirst'
  BY DEF TypeOK, Load, GoTo, FileFirst
<1>4. SnapPointsToThesis' /\ TodoListed' /\ IndexPointsToThesis'
  BY DEF Load, SnapPointsToThesis, TodoListed, IndexPointsToThesis,
      Describes, Listed
<1>5. QED BY <1>1, <1>2, <1>3, <1>4

\* What the two kinds of change make of a loaded thesis.
LEMMA Changed ==
    ASSUME TypeOK, NEW id \in Ids, files[id] # None
    PROVE  /\ \A s \in Statuses :
                LET t == [files[id] EXCEPT !.status = s]
                IN  t \in Thesis /\ t.fp = files[id].fp
           /\ \A r \in Reports :
                LET t == [files[id] EXCEPT !.reports = @ \cup {r}]
                IN  t \in Thesis /\ t.fp = files[id].fp
BY DEF TypeOK, Thesis

-----------------------------------------------------------------------------
(* The save: the file, then the copy of the index, then the index. *)

LEMMA SaveThesisInv ==
    ASSUME IInv, NEW p \in Procs, SaveThesis(p)
    PROVE  IInv'
<1> USE NoneApart DEF IInv
<1> DEFINE id == own[p]
<1>1. id \in Ids /\ mem[p] \in Thesis
  BY DEF SaveThesis, OwnHeld
<1>2. files' = [files EXCEPT ![id] = mem[p]] /\ own' = own /\ mem' = mem
  BY DEF SaveThesis
<1>3. files'[id] = mem[p] /\ \A i \in Ids \ {id} : files'[i] = files[i]
  BY <1>1, <1>2 DEF TypeOK
\* No thesis disappears or changes its origin.
<1>4. \A i \in Ids : files[i] # None =>
          files'[i] # None /\ files'[i].fp = files[i].fp
  BY <1>1, <1>3 DEF OwnOrigin
<1>5. TypeOK'
  BY <1>1 DEF TypeOK, SaveThesis, GoTo, Steps
<1>6. OwnHeld' /\ OwnFresh'
  BY <1>1, <1>2, <1>3, <1>4 DEF SaveThesis, TypeOK, GoTo, OwnHeld, OwnFresh
\* Whoever owns the same id holds the same origin, or is p.
<1>7. OwnOrigin'
  <2> SUFFICES ASSUME NEW q \in Procs, own[q] \in Ids, files'[own[q]] # None
               PROVE  files'[own[q]].fp = mem[q].fp
    BY <1>2 DEF OwnOrigin
  <2>1. CASE own[q] # id
    BY <1>3, <2>1 DEF OwnOrigin
  <2>2. CASE own[q] = id /\ files[id] # None
    BY <1>1, <1>4, <2>2 DEF OwnOrigin
  <2>3. CASE own[q] = id /\ files[id] = None
    BY <1>1, <1>3, <2>3 DEF OwnFresh
  <2>4. QED BY <2>1, <2>2, <2>3
<1>8. FileFirst'
  BY <1>1, <1>2, <1>3, <1>4 DEF SaveThesis, TypeOK, GoTo, FileFirst, OwnHeld
<1>9. SnapPointsToThesis' /\ TodoListed' /\ IndexPointsToThesis'
  BY <1>4 DEF SaveThesis, TypeOK, SnapPointsToThesis, TodoListed,
      IndexPointsToThesis, Describes, Listed
<1>10. QED BY <1>5, <1>6, <1>7, <1>8, <1>9

LEMMA LoadIndexInv ==
    ASSUME IInv, NEW p \in Procs, LoadIndex(p)
    PROVE  IInv'
<1> USE NoneApart DEF IInv, store
<1>1. TypeOK'
  BY DEF TypeOK, LoadIndex, GoTo, Steps
<1>2. OwnHeld' /\ OwnFresh' /\ OwnOrigin' /\ FileFirst'
  BY DEF TypeOK, LoadIndex, GoTo, OwnHeld, OwnFresh, OwnOrigin, FileFirst
<1>3. SnapPointsToThesis' /\ TodoListed' /\ IndexPointsToThesis'
  BY DEF TypeOK, LoadIndex, SnapPointsToThesis, TodoListed,
      IndexPointsToThesis, Describes, Listed
<1>4. QED BY <1>1, <1>2, <1>3

\* The saved index is a copy that points to theses plus an entry that does.
LEMMA SaveIndexInv ==
    ASSUME IInv, NEW p \in Procs, SaveIndex(p)
    PROVE  IInv'
<1> USE NoneApart DEF IInv
<1> DEFINE id == own[p]
<1>1. id \in Ids /\ mem[p] \in Thesis /\ files[id] # None /\ files[id].fp = mem[p].fp
  BY DEF SaveIndex, OwnHeld, FileFirst, OwnOrigin
<1>2. Project(mem[p]) \in Entry /\ Project(mem[p]).fp = mem[p].fp
  BY <1>1, ProjectEntry
<1>3. \A i \in Ids : index'[i] = IF i = id THEN Project(mem[p]) ELSE snap[p][i]
  BY <1>1 DEF SaveIndex, TypeOK
<1>4. TypeOK'
  BY <1>1, <1>2 DEF TypeOK, SaveIndex, Return, GoTo, NoEntries, Steps
<1>5. OwnHeld' /\ OwnFresh' /\ OwnOrigin'
  BY DEF TypeOK, SaveIndex, Return, GoTo, OwnHeld, OwnFresh, OwnOrigin
<1>6. FileFirst'
  BY DEF TypeOK, SaveIndex, Return, GoTo, OwnHeld, FileFirst
<1>7. SnapPointsToThesis' /\ TodoListed'
  BY DEF TypeOK, SaveIndex, Return, NoEntries, SnapPointsToThesis, TodoListed,
      Describes, Listed
<1>8. IndexPointsToThesis'
  BY <1>1, <1>2, <1>3 DEF SaveIndex, SnapPointsToThesis, IndexPointsToThesis,
      Describes
<1>9. QED BY <1>4, <1>5, <1>6, <1>7, <1>8

-----------------------------------------------------------------------------
(* The steps that only read, and the rebuild. *)

LEMMA ReadInv ==
    ASSUME IInv, NEW p \in Procs,
           \/ FindIndexed(p) /\ ~Return(p)
           \/ ScanFile(p) /\ ~Return(p)
           \/ FoundNothing(p)
           \/ Rebuild(p)
    PROVE  IInv'
<1> USE NoneApart DEF IInv, store
<1> DEFINE Kept == UNCHANGED <<files, index, unindexed, own, mem, snap>>
           Listing == /\ todo' \in [Procs -> SUBSET Ids]
                      /\ \A q \in Procs : todo'[q] \subseteq Listed
           Move(q) == \/ pc'[q] = pc[q]
                      \/ pc'[q] = "rebuild"
                      \/ pc[q] \in {"find", "scan"} /\ pc'[q] \in {"scan", "save"}
           Moves == pc' \in [Procs -> Steps] /\ \A q \in Procs : Move(q)
<1>1. Kept /\ Listing /\ Moves
  <2>1. CASE FindIndexed(p) /\ ~Return(p)
    <3>1. /\ pc[p] = "find" /\ GoTo(p, "scan")
          /\ todo' = [todo EXCEPT ![p] = Listed]
          /\ UNCHANGED <<own, mem, snap, store>>
      BY <2>1 DEF FindIndexed
    <3>2. Kept /\ Listing
      BY <3>1 DEF TypeOK, Listed, TodoListed
    <3>3. Moves
      BY <3>1 DEF TypeOK, GoTo, Steps
    <3>4. QED BY <3>2, <3>3
  <2>2. CASE ScanFile(p) /\ ~Return(p)
    <3>1. PICK id \in todo[p] : /\ todo' = [todo EXCEPT ![p] = @ \ {id}]
                               /\ UNCHANGED <<pc, own, mem, snap, store>>
      BY <2>2 DEF ScanFile
    <3>2. QED BY <3>1 DEF TypeOK, TodoListed
  <2>3. CASE FoundNothing(p)
    BY <2>3 DEF FoundNothing, GoTo, TypeOK, TodoListed, Steps
  <2>4. CASE Rebuild(p)
    BY <2>4 DEF Rebuild, GoTo, TypeOK, Listed, TodoListed, Steps
  <2>5. QED BY <2>1, <2>2, <2>3, <2>4
<1>2. TypeOK'
  BY <1>1 DEF TypeOK
<1>3. OwnHeld' /\ OwnFresh' /\ OwnOrigin' /\ FileFirst'
  BY <1>1 DEF OwnHeld, OwnFresh, OwnOrigin, FileFirst
<1>4. SnapPointsToThesis' /\ TodoListed' /\ IndexPointsToThesis'
  BY <1>1 DEF SnapPointsToThesis, TodoListed, IndexPointsToThesis, Describes, Listed
<1>5. QED BY <1>2, <1>3, <1>4

LEMMA RebuildFileInv ==
    ASSUME IInv, NEW p \in Procs, RebuildFile(p)
    PROVE  IInv'
<1> USE NoneApart DEF IInv, store
<1>1. PICK id \in todo[p] :
          /\ snap' = [snap EXCEPT ![p] = [@ EXCEPT ![id] = Project(files[id])]]
          /\ todo' = [todo EXCEPT ![p] = @ \ {id}]
  BY DEF RebuildFile
<1>2. id \in Ids /\ files[id] \in Thesis
  BY DEF TypeOK, TodoListed, Listed
<1>3. Project(files[id]) \in Entry /\ Project(files[id]).fp = files[id].fp
  BY <1>2, ProjectEntry
<1>4. TypeOK'
  BY <1>1, <1>2, <1>3 DEF TypeOK, RebuildFile
<1>5. OwnHeld' /\ OwnFresh' /\ OwnOrigin' /\ FileFirst' /\ IndexPointsToThesis'
  BY DEF RebuildFile, OwnHeld, OwnFresh, OwnOrigin, FileFirst,
      IndexPointsToThesis, Describes
<1>6. TodoListed'
  BY <1>1 DEF RebuildFile, TypeOK, TodoListed, Listed
<1>7. SnapPointsToThesis'
  BY <1>1, <1>2, <1>3 DEF RebuildFile, TypeOK, SnapPointsToThesis, Describes
<1>8. QED BY <1>4, <1>5, <1>6, <1>7

LEMMA SaveRebuiltInv ==
    ASSUME IInv, NEW p \in Procs, SaveRebuilt(p)
    PROVE  IInv'
<1> USE NoneApart DEF IInv
<1>1. TypeOK'
  BY DEF TypeOK, SaveRebuilt, Return, GoTo, NoEntries, Steps
<1>2. OwnHeld' /\ OwnFresh' /\ OwnOrigin' /\ FileFirst'
  BY DEF TypeOK, SaveRebuilt, Return, GoTo, OwnHeld, OwnFresh, OwnOrigin, FileFirst
<1>3. SnapPointsToThesis' /\ TodoListed' /\ IndexPointsToThesis'
  BY DEF TypeOK, SaveRebuilt, Return, NoEntries, SnapPointsToThesis, TodoListed,
      IndexPointsToThesis, Describes, Listed
<1>4. QED BY <1>1, <1>2, <1>3

-----------------------------------------------------------------------------
\* Every step of every process preserves the invariant: one case per action.
LEMMA StepInv ==
    ASSUME ~HashCollides, IInv, [Next]_vars
    PROVE  IInv'
<1>1. CASE UNCHANGED vars
  BY <1>1 DEF vars, IInv, TypeOK, OwnHeld, OwnFresh, OwnOrigin, FileFirst,
      SnapPointsToThesis, TodoListed, IndexPointsToThesis, Describes, Listed
<1>2. ASSUME NEW p \in Procs, NEW id \in Ids, NEW fp \in Fingerprints,
             BuildThesis(p, id, fp)
      PROVE  IInv'
  BY <1>2, BuildInv
<1>3. ASSUME NEW p \in Procs,
             FindIndexed(p) \/ ScanFile(p) \/ FoundNothing(p) \/ Rebuild(p)
      PROVE  IInv'
  <2>1. CASE Return(p) /\ (FindIndexed(p) \/ ScanFile(p))
    BY <2>1, ReturnInv DEF FindIndexed, ScanFile
  <2>2. QED BY <1>3, <2>1, ReadInv
<1>4. ASSUME NEW p \in Procs, NEW id \in Ids, NEW s \in Statuses,
             Advance(p, id, s)
      PROVE  IInv'
  <2>1. files[id] # None /\ Load(p, id, [files[id] EXCEPT !.status = s])
    BY <1>4 DEF Advance
  <2>2. QED BY <2>1, Changed, LoadInv DEF IInv
<1>5. ASSUME NEW p \in Procs, NEW id \in Ids, NEW r \in Reports,
             LinkReport(p, id, r)
      PROVE  IInv'
  <2>1. files[id] # None
    BY <1>5 DEF LinkReport, Load
  <2>2. Load(p, id, [files[id] EXCEPT !.reports = @ \cup {r}])
    BY <1>5 DEF LinkReport
  <2>3. QED BY <2>1, <2>2, Changed, LoadInv DEF IInv
<1>6. ASSUME NEW p \in Procs, Crash(p)
      PROVE  IInv'
  BY <1>6, ReturnInv DEF Crash
<1>7. ASSUME NEW p \in Procs,
             \/ SaveThesis(p) \/ LoadIndex(p) \/ SaveIndex(p)
             \/ RebuildFile(p) \/ SaveRebuilt(p)
      PROVE  IInv'
  BY <1>7, SaveThesisInv, LoadIndexInv, SaveIndexInv, RebuildFileInv,
      SaveRebuiltInv
<1>8. QED BY <1>1, <1>2, <1>3, <1>4, <1>5, <1>6, <1>7 DEF Next

\* The invariant holds of every behaviour in which salted ids do not collide.
THEOREM Inductive == ~HashCollides /\ Spec => []IInv
<1>1. CASE ~HashCollides
  <2>1. IInv /\ [Next]_vars => IInv'
    BY <1>1, StepInv
  <2>2. QED BY <2>1, InitInv, PTL DEF Spec
<1>2. CASE HashCollides
  BY <1>2
<1>3. QED BY <1>1, <1>2

\* Type correctness of the store, for any number of interleaved processes.
THEOREM TypeCorrect == ~HashCollides /\ Spec => []TypeOK
<1>1. IInv => TypeOK
  BY DEF IInv
<1>2. QED BY <1>1, Inductive, PTL

\* However operations interleave and wherever they die, the index points only
\* to saved theses of the origin it names.
THEOREM IndexSafe == ~HashCollides /\ Spec => []IndexPointsToThesis
<1>1. IInv => IndexPointsToThesis
  BY DEF IInv
<1>2. QED BY <1>1, Inductive, PTL

\* No interleaving removes a saved thesis or replaces it with another origin.
THEOREM OriginSafe == ~HashCollides /\ Spec => OriginFixed
<1> DEFINE A == \A id \in Ids : files[id] # None =>
                    files'[id] # None /\ files'[id].fp = files[id].fp
<1>1. ASSUME IInv, [Next]_vars
      PROVE  [A]_vars
  <2>1. CASE files' = files
    BY <2>1
  <2>2. ASSUME NEW p \in Procs, SaveThesis(p)
        PROVE  A
    <3>1. own[p] \in Ids /\ mem[p] \in Thesis
      BY <1>1, <2>2 DEF IInv, OwnHeld, SaveThesis
    <3>2. QED BY <1>1, <2>2, <3>1, NoneApart DEF IInv, OwnOrigin, SaveThesis, TypeOK
  <2>3. files' = files \/ \E p \in Procs : SaveThesis(p)
    BY <1>1 DEF Next, vars, store, BuildThesis, FindIndexed, ScanFile, FoundNothing,
        Advance, LinkReport, Load, LoadIndex, SaveIndex, Rebuild, RebuildFile,
        SaveRebuilt, Crash
  <2>4. QED BY <2>1, <2>2, <2>3
<1>2. QED BY <1>1, Inductive, PTL DEF Spec, OriginFixed

-----------------------------------------------------------------------------
(***************************************************************************)
(* Operations that do not overlap: at most one process, which may die at   *)
(* any step and leave the directory to the next operation.                 *)
(***************************************************************************)
Alone == \A p, q \in Procs : p = q

\* Whether the index entry of id repeats its file.
Current(id) == index[id] = IF files[id] = None THEN None ELSE Project(files[id])

\* The scan has found no file of the origin among those it has read; nothing
\* but the thesis about to be saved gets that origin afterwards.
ScanSoFar ==
    \A p \in Procs : pc[p] = "scan" =>
        \A id \in Listed \ todo[p] : files[id].fp # mem[p].fp

NewOrigin ==
    \A p \in Procs : pc[p] = "save" /\ files[own[p]] = None =>
        \A id \in Listed : files[id].fp # mem[p].fp

\* Between its two saves an operation knows the file and the index as they are.
SavedKnown ==
    \A p \in Procs :
        /\ pc[p] \in {"load_index", "save_index"} => mem[p] = files[own[p]]
        /\ pc[p] = "save_index" => snap[p] = index

\* The index under construction repeats the files read so far and nothing else.
RebuiltSoFar ==
    \A p \in Procs :
        /\ pc[p] = "rebuild" =>
             \A id \in Ids : snap[p][id] = IF id \in Listed \ todo[p]
                                            THEN Project(files[id]) ELSE None
        /\ pc[p] \notin {"rebuild", "save_index"} => snap[p] = NoEntries

SoloInv ==
    /\ IInv
    /\ ScanSoFar
    /\ NewOrigin
    /\ SavedKnown
    /\ RebuiltSoFar
    /\ OneThesisPerFingerprint
    /\ StaleOnlyIfCutOff

LEMMA SoloInit == Init => SoloInv
<1> SUFFICES ASSUME Init PROVE SoloInv
  OBVIOUS
<1>1. IInv
  BY InitInv
<1>2. ScanSoFar /\ NewOrigin /\ SavedKnown /\ RebuiltSoFar
  BY DEF Init, ScanSoFar, NewOrigin, SavedKnown, RebuiltSoFar
<1>3. OneThesisPerFingerprint /\ StaleOnlyIfCutOff
  BY DEF Init, OneThesisPerFingerprint, StaleOnlyIfCutOff, Listed, NoEntries
<1>4. QED BY <1>1, <1>2, <1>3 DEF SoloInv

\* The directory is untouched: what is said of it alone stays true.
LEMMA SoloStore ==
    ASSUME SoloInv, UNCHANGED store
    PROVE  OneThesisPerFingerprint' /\ StaleOnlyIfCutOff'
BY DEF SoloInv, store, OneThesisPerFingerprint, StaleOnlyIfCutOff, Listed

LEMMA SoloReturn ==
    ASSUME Alone, SoloInv, NEW p \in Procs, Return(p)
    PROVE  ScanSoFar' /\ NewOrigin' /\ SavedKnown' /\ RebuiltSoFar'
<1>1. \A q \in Procs : q = p
  BY DEF Alone
<1>2. pc'[p] = "idle" /\ snap'[p] = NoEntries
  BY DEF Return, GoTo, SoloInv, IInv, TypeOK
<1>3. QED BY <1>1, <1>2 DEF ScanSoFar, NewOrigin, SavedKnown, RebuiltSoFar

\* An operation begins with an empty index in memory.
LEMMA SoloBegin ==
    ASSUME Alone, SoloInv, NEW p \in Procs,
           \/ \E id \in Ids, fp \in Fingerprints : BuildThesis(p, id, fp)
           \/ \E id \in Ids : \E t \in Thesis : Load(p, id, t)
           \/ Rebuild(p)
    PROVE  ScanSoFar' /\ NewOrigin' /\ SavedKnown' /\ RebuiltSoFar'
<1> USE DEF SoloInv, IInv, TypeOK, store, GoTo
<1>1. \A q \in Procs : q = p
  BY DEF Alone
<1>2. pc[p] = "idle" /\ snap[p] = NoEntries /\ snap' = snap /\ UNCHANGED store
  <2>1. pc[p] = "idle" /\ snap' = snap /\ UNCHANGED store
    BY DEF BuildThesis, Load, Rebuild
  <2>2. QED BY <2>1 DEF RebuiltSoFar
<1>3. CASE \E id \in Ids, fp \in Fingerprints : BuildThesis(p, id, fp)
  <2>1. pc'[p] = "find"
    BY <1>3 DEF BuildThesis
  <2>2. QED BY <1>1, <1>2, <2>1 DEF ScanSoFar, NewOrigin, SavedKnown, RebuiltSoFar
<1>4. CASE \E id \in Ids : \E t \in Thesis : Load(p, id, t)
  <2>1. pc'[p] = "save" /\ files'[own'[p]] # None
    BY <1>2, <1>4 DEF Load
  <2>2. QED BY <1>1, <1>2, <2>1 DEF ScanSoFar, NewOrigin, SavedKnown, RebuiltSoFar
<1>5. CASE Rebuild(p)
  <2>1. pc'[p] = "rebuild" /\ todo'[p] = Listed
    BY <1>5 DEF Rebuild
  <2>2. Listed' = Listed /\ \A id \in Ids : snap'[p][id] = None
    BY <1>2 DEF NoEntries, Listed
  <2>3. QED BY <1>1, <1>2, <2>1, <2>2 DEF ScanSoFar, NewOrigin, SavedKnown, RebuiltSoFar
<1>6. QED BY <1>3, <1>4, <1>5

\* A scan that ends without a hit has read every file there is.
LEMMA SoloScan ==
    ASSUME Alone, SoloInv, NEW p \in Procs,
           \/ FindIndexed(p) /\ ~Return(p)
           \/ ScanFile(p) /\ ~Return(p)
           \/ FoundNothing(p)
    PROVE  ScanSoFar' /\ NewOrigin' /\ SavedKnown' /\ RebuiltSoFar'
<1> USE DEF SoloInv, IInv, TypeOK, store, GoTo
<1>1. \A q \in Procs : q = p
  BY DEF Alone
<1>2. CASE FindIndexed(p) /\ ~Return(p)
  <2>1. /\ pc[p] = "find" /\ pc'[p] = "scan" /\ todo'[p] = Listed
        /\ UNCHANGED <<files, snap>>
    BY <1>2 DEF FindIndexed
  <2>2. QED
    BY <1>1, <2>1 DEF ScanSoFar, NewOrigin, SavedKnown, RebuiltSoFar, Listed
<1>3. CASE ScanFile(p) /\ ~Return(p)
  <2>1. PICK id \in todo[p] : /\ files[id].fp # mem[p].fp
                             /\ todo' = [todo EXCEPT ![p] = @ \ {id}]
                             /\ UNCHANGED <<pc, own, mem, snap, store>>
    BY <1>3 DEF ScanFile
  <2>2. pc[p] = "scan" /\ pc'[p] = "scan" /\ todo'[p] = todo[p] \ {id}
    BY <1>3, <2>1 DEF ScanFile
  <2>3. QED
    BY <1>1, <2>1, <2>2 DEF ScanSoFar, NewOrigin, SavedKnown, RebuiltSoFar, Listed
<1>4. CASE FoundNothing(p)
  <2>1. /\ pc[p] = "scan" /\ todo[p] = {} /\ pc'[p] = "save"
        /\ UNCHANGED <<files, index, own, mem, snap, todo>>
    BY <1>4 DEF FoundNothing
  <2>2. QED
    BY <1>1, <2>1 DEF ScanSoFar, NewOrigin, SavedKnown, RebuiltSoFar, Listed
<1>5. QED BY <1>2, <1>3, <1>4

\* The saved file is the only one of its origin: it was saved over a file of
\* the same origin, or after a scan that found none.
LEMMA SoloSaveThesis ==
    ASSUME Alone, SoloInv, NEW p \in Procs, SaveThesis(p)
    PROVE  /\ ScanSoFar' /\ NewOrigin' /\ SavedKnown' /\ RebuiltSoFar'
           /\ OneThesisPerFingerprint' /\ StaleOnlyIfCutOff'
<1> USE NoneApart DEF SoloInv, IInv
<1> DEFINE id == own[p]
<1>1. \A q \in Procs : q = p
  BY DEF Alone
<1>2. pc[p] = "save" /\ id \in Ids /\ mem[p] \in Thesis
  BY DEF SaveThesis, OwnHeld
<1>3. /\ files'[id] = mem[p] /\ \A i \in Ids \ {id} : files'[i] = files[i]
      /\ pc'[p] = "load_index" /\ UNCHANGED <<index, own, mem, snap, todo>>
      /\ unindexed' = unindexed \cup {id}
  BY <1>2 DEF SaveThesis, GoTo, TypeOK
<1>4. ScanSoFar' /\ NewOrigin' /\ SavedKnown' /\ RebuiltSoFar'
  BY <1>1, <1>2, <1>3 DEF ScanSoFar, NewOrigin, SavedKnown, RebuiltSoFar
<1>5. OneThesisPerFingerprint'
  <2>1. \A i \in Listed \ {id} : files[i].fp # mem[p].fp
    <3>1. CASE files[id] = None
      BY <1>2, <3>1 DEF NewOrigin
    <3>2. CASE files[id] # None
      BY <1>2, <3>2 DEF OwnOrigin, OneThesisPerFingerprint, Listed
    <3>3. QED BY <3>1, <3>2
  <2>2. \A i \in Listed' : i = id \/ (i \in Listed \ {id} /\ files'[i] = files[i])
    BY <1>3 DEF Listed
  <2>3. QED BY <1>3, <2>1, <2>2 DEF OneThesisPerFingerprint
<1>6. StaleOnlyIfCutOff'
  BY <1>3 DEF StaleOnlyIfCutOff
<1>7. QED BY <1>4, <1>5, <1>6

LEMMA SoloLoadIndex ==
    ASSUME Alone, SoloInv, NEW p \in Procs, LoadIndex(p)
    PROVE  ScanSoFar' /\ NewOrigin' /\ SavedKnown' /\ RebuiltSoFar'
<1>1. \A q \in Procs : q = p
  BY DEF Alone
<1>2. /\ pc[p] = "load_index" /\ pc'[p] = "save_index" /\ snap'[p] = index
      /\ UNCHANGED <<files, index, own, mem, todo>>
  BY DEF LoadIndex, GoTo, store, SoloInv, IInv, TypeOK
<1>3. QED
  BY <1>1, <1>2 DEF SoloInv, ScanSoFar, NewOrigin, SavedKnown, RebuiltSoFar

\* The index saved is the index there is, with the entry of the saved file.
LEMMA SoloSaveIndex ==
    ASSUME Alone, SoloInv, NEW p \in Procs, SaveIndex(p)
    PROVE  OneThesisPerFingerprint' /\ StaleOnlyIfCutOff'
<1> USE NoneApart DEF SoloInv, IInv
<1> DEFINE id == own[p]
<1>1. /\ pc[p] = "save_index" /\ id \in Ids /\ files[id] # None
      /\ mem[p] = files[id] /\ snap[p] = index
  BY DEF SaveIndex, OwnHeld, FileFirst, SavedKnown
<1>2. /\ files' = files /\ unindexed' = unindexed \ {id}
      /\ \A i \in Ids : index'[i] = IF i = id THEN Project(files[id]) ELSE index[i]
  BY <1>1 DEF SaveIndex, TypeOK
<1>3. OneThesisPerFingerprint'
  BY <1>2 DEF OneThesisPerFingerprint, Listed
<1>4. StaleOnlyIfCutOff'
  BY <1>1, <1>2 DEF StaleOnlyIfCutOff
<1>5. QED BY <1>3, <1>4

LEMMA SoloRebuildFile ==
    ASSUME Alone, SoloInv, NEW p \in Procs, RebuildFile(p)
    PROVE  ScanSoFar' /\ NewOrigin' /\ SavedKnown' /\ RebuiltSoFar'
<1> USE NoneApart DEF SoloInv, IInv
<1>1. \A q \in Procs : q = p
  BY DEF Alone
<1>2. PICK id \in todo[p] :
          /\ snap' = [snap EXCEPT ![p] = [@ EXCEPT ![id] = Project(files[id])]]
          /\ todo' = [todo EXCEPT ![p] = @ \ {id}]
  BY DEF RebuildFile
<1>3. id \in Listed /\ id \in Ids
  BY DEF TodoListed, Listed
<1>4. /\ pc[p] = "rebuild" /\ UNCHANGED <<files, pc>>
      /\ todo'[p] = todo[p] \ {id}
      /\ \A i \in Ids : snap'[p][i] = IF i = id THEN Project(files[id]) ELSE snap[p][i]
  BY <1>2, <1>3 DEF RebuildFile, store, TypeOK
<1>5. RebuiltSoFar'
  <2>1. Listed' = Listed
    BY <1>4 DEF Listed
  <2>2. \A i \in Ids : snap'[p][i] = IF i \in Listed \ todo'[p]
                                      THEN Project(files[i]) ELSE None
    <3>1. \A i \in Ids : snap[p][i] = IF i \in Listed \ todo[p]
                                     THEN Project(files[i]) ELSE None
      BY <1>4 DEF RebuiltSoFar
    <3>2. QED BY <1>3, <1>4, <3>1
  <2>3. QED BY <1>1, <1>4, <2>1, <2>2 DEF RebuiltSoFar
<1>6. QED
  BY <1>1, <1>4, <1>5 DEF ScanSoFar, NewOrigin, SavedKnown

\* A rebuild that ends has read every file there is.
LEMMA SoloSaveRebuilt ==
    ASSUME Alone, SoloInv, NEW p \in Procs, SaveRebuilt(p)
    PROVE  OneThesisPerFingerprint' /\ StaleOnlyIfCutOff' /\ StateOk'
<1>1. /\ pc[p] = "rebuild" /\ todo[p] = {} /\ index' = snap[p] /\ files' = files
  BY DEF SaveRebuilt
<1>2. \A i \in Ids : index'[i] = IF files'[i] = None THEN None ELSE Project(files'[i])
  BY <1>1 DEF SoloInv, RebuiltSoFar, Listed
<1>3. QED
  BY <1>1, <1>2 DEF SoloInv, OneThesisPerFingerprint, StaleOnlyIfCutOff, StateOk, Listed

-----------------------------------------------------------------------------
LEMMA SoloStep ==
    ASSUME ~HashCollides, Alone, SoloInv, [Next]_vars
    PROVE  SoloInv'
<1> DEFINE Program == ScanSoFar /\ NewOrigin /\ SavedKnown /\ RebuiltSoFar
           Directory == OneThesisPerFingerprint /\ StaleOnlyIfCutOff
<1>1. IInv'
  BY StepInv DEF SoloInv
<1>2. SUFFICES Program' /\ Directory'
  BY <1>1 DEF SoloInv
<1>3. CASE UNCHANGED vars
  BY <1>3 DEF vars, SoloInv, ScanSoFar, NewOrigin, SavedKnown, RebuiltSoFar,
      OneThesisPerFingerprint, StaleOnlyIfCutOff, Listed
<1>4. ASSUME NEW p \in Procs,
             \/ \E id \in Ids, fp \in Fingerprints : BuildThesis(p, id, fp)
             \/ \E id \in Ids : \E t \in Thesis : Load(p, id, t)
             \/ Rebuild(p)
      PROVE  Program' /\ Directory'
  <2>1. UNCHANGED store
    BY <1>4 DEF BuildThesis, Load, Rebuild, store
  <2>2. QED BY <1>4, <2>1, SoloBegin, SoloStore
<1>5. ASSUME NEW p \in Procs, NEW id \in Ids,
             \/ \E s \in Statuses : Advance(p, id, s)
             \/ \E r \in Reports : LinkReport(p, id, r)
      PROVE  Program' /\ Directory'
  <2>1. files[id] # None
    BY <1>5 DEF Advance, LinkReport, Load
  <2>2. \E t \in Thesis : Load(p, id, t)
    <3>1. CASE \E s \in Statuses : Advance(p, id, s)
      BY <2>1, <3>1, Changed DEF Advance, SoloInv, IInv
    <3>2. CASE \E r \in Reports : LinkReport(p, id, r)
      BY <2>1, <3>2, Changed DEF LinkReport, SoloInv, IInv
    <3>3. QED BY <1>5, <3>1, <3>2
  <2>3. QED BY <2>2, <1>4
<1>6. ASSUME NEW p \in Procs, FindIndexed(p) \/ ScanFile(p) \/ FoundNothing(p)
      PROVE  Program' /\ Directory'
  <2>1. UNCHANGED store
    BY <1>6 DEF FindIndexed, ScanFile, FoundNothing, store
  <2>2. CASE Return(p)
    BY <2>1, <2>2, SoloReturn, SoloStore
  <2>3. CASE ~Return(p)
    BY <1>6, <2>1, <2>3, SoloScan, SoloStore
  <2>4. QED BY <2>2, <2>3
<1>7. ASSUME NEW p \in Procs, Crash(p)
      PROVE  Program' /\ Directory'
  BY <1>7, SoloReturn, SoloStore DEF Crash
<1>8. ASSUME NEW p \in Procs, SaveThesis(p)
      PROVE  Program' /\ Directory'
  BY <1>8, SoloSaveThesis
<1>9. ASSUME NEW p \in Procs, LoadIndex(p) \/ RebuildFile(p)
      PROVE  Program' /\ Directory'
  <2>1. UNCHANGED store
    BY <1>9 DEF LoadIndex, RebuildFile
  <2>2. QED BY <1>9, <2>1, SoloLoadIndex, SoloRebuildFile, SoloStore
<1>10. ASSUME NEW p \in Procs, SaveIndex(p) \/ SaveRebuilt(p)
       PROVE  Program' /\ Directory'
  <2>1. Return(p)
    BY <1>10 DEF SaveIndex, SaveRebuilt
  <2>2. QED BY <1>10, <2>1, SoloReturn, SoloSaveIndex, SoloSaveRebuilt
<1>11. QED
  BY <1>3, <1>4, <1>5, <1>6, <1>7, <1>8, <1>9, <1>10 DEF Next

\* The invariant of operations that do not overlap, which die anywhere.
THEOREM SoloInductive == ~HashCollides /\ Alone /\ Spec => []SoloInv
<1>1. CASE ~HashCollides /\ Alone
  <2>1. SoloInv /\ [Next]_vars => SoloInv'
    BY <1>1, SoloStep
  <2>2. QED BY <2>1, SoloInit, PTL DEF Spec
<1>2. CASE ~(~HashCollides /\ Alone)
  BY <1>2
<1>3. QED BY <1>1, <1>2

\* register() is idempotent when operations do not overlap, even if earlier
\* ones died between their two saves.
THEOREM Idempotent ==
    ~HashCollides /\ Alone /\ Spec => []OneThesisPerFingerprint
<1>1. SoloInv => OneThesisPerFingerprint
  BY DEF SoloInv
<1>2. QED BY <1>1, SoloInductive, PTL

\* Without overlap only an operation cut off between its saves makes the index
\* differ from the files.
THEOREM StaleOnlyByCrash ==
    ~HashCollides /\ Alone /\ Spec => []StaleOnlyIfCutOff
<1>1. SoloInv => StaleOnlyIfCutOff
  BY DEF SoloInv
<1>2. QED BY <1>1, SoloInductive, PTL

\* Without overlap a rebuild_index that saves leaves a directory validate_state
\* accepts, whatever crashes came before it.
THEOREM RebuildIsRepair ==
    ~HashCollides /\ Alone /\ Spec => RebuildRepairs
<1> DEFINE A == \A p \in Procs : pc[p] = "rebuild" /\ index' # index => StateOk'
<1>1. ASSUME ~HashCollides /\ Alone, SoloInv, [Next]_vars
      PROVE  [A]_vars
  <2> SUFFICES ASSUME NEW p \in Procs, pc[p] = "rebuild", index' # index
               PROVE  StateOk'
    OBVIOUS
  <2>1. \A q \in Procs : q = p
    BY <1>1 DEF Alone
  <2>2. SaveRebuilt(p)
    BY <1>1, <2>1 DEF Next, vars, store, BuildThesis, FindIndexed, ScanFile,
        FoundNothing, Advance, LinkReport, Load, SaveThesis, LoadIndex, SaveIndex,
        Rebuild, RebuildFile, Crash
  <2>3. QED BY <1>1, <2>2, SoloSaveRebuilt
<1>2. CASE ~HashCollides /\ Alone
  <2>1. SoloInv /\ [Next]_vars => [A]_vars
    BY <1>1, <1>2
  <2>2. QED BY <2>1, SoloInductive, PTL DEF Spec, RebuildRepairs
<1>3. CASE ~(~HashCollides /\ Alone)
  BY <1>3
<1>4. QED BY <1>2, <1>3

-----------------------------------------------------------------------------
(***************************************************************************)
(* The store implements the registry: the save of the file is the step     *)
(* that registers, advances or links.                                      *)
(***************************************************************************)

\* What register() has built and not saved: nobody else has its id.
NewThesis(p) ==
    /\ files[own[p]] = None
    /\ mem[p] = [fp |-> mem[p].fp, status |-> 0, reports |-> {}]

\* What another operation has made of the thesis as it is in the file.
ChangedThesis(p) ==
    LET t == files[own[p]]
    IN  /\ t # None
        /\ \/ \E s \in Statuses : s > t.status /\ mem[p] = [t EXCEPT !.status = s]
           \/ \E r \in Reports : mem[p] = [t EXCEPT !.reports = @ \cup {r}]

\* Without overlap what is about to be saved was made from what is there.
MadeFromFile ==
    \A p \in Procs :
        /\ pc[p] \in {"find", "scan"} => NewThesis(p)
        /\ pc[p] = "save" => NewThesis(p) \/ ChangedThesis(p)

LEMMA MadeStep ==
    ASSUME ~HashCollides, Alone, SoloInv, MadeFromFile, [Next]_vars
    PROVE  MadeFromFile'
<1> SUFFICES ASSUME NEW p \in Procs
             PROVE  /\ pc'[p] \in {"find", "scan"} => NewThesis(p)'
                    /\ pc'[p] = "save" => NewThesis(p)' \/ ChangedThesis(p)'
  BY DEF MadeFromFile
<1>1. /\ \A q \in Procs : q = p
      /\ TypeOK /\ MadeFromFile
  BY DEF Alone, SoloInv, IInv
<1>2. CASE Return(p)
  BY <1>1, <1>2 DEF Return, GoTo, TypeOK
<1>3. ASSUME NEW id \in Ids, NEW fp \in Fingerprints, BuildThesis(p, id, fp)
      PROVE  pc'[p] = "find" /\ NewThesis(p)'
  <2>1. files[id] = None /\ UNCHANGED files
    BY <1>3 DEF BuildThesis, InUse, Listed, store
  <2>2. /\ pc'[p] = "find" /\ own'[p] = id
        /\ mem'[p] = [fp |-> fp, status |-> 0, reports |-> {}]
    BY <1>1, <1>3 DEF BuildThesis, GoTo, TypeOK
  <2>3. QED BY <2>1, <2>2 DEF NewThesis
<1>4. ASSUME NEW id \in Ids, NEW s \in Statuses, Advance(p, id, s)
      PROVE  pc'[p] = "save" /\ ChangedThesis(p)'
  <2>1. /\ files[id] # None /\ UNCHANGED files /\ s > files[id].status
        /\ pc'[p] = "save" /\ own'[p] = id /\ mem'[p] = [files[id] EXCEPT !.status = s]
    BY <1>1, <1>4 DEF Advance, Load, GoTo, TypeOK, store
  <2>2. QED BY <2>1 DEF ChangedThesis
<1>5. ASSUME NEW id \in Ids, NEW r \in Reports, LinkReport(p, id, r)
      PROVE  pc'[p] = "save" /\ ChangedThesis(p)'
  <2>1. /\ files[id] # None /\ UNCHANGED files
        /\ pc'[p] = "save" /\ own'[p] = id /\ mem'[p] = [files[id] EXCEPT !.reports = @ \cup {r}]
    BY <1>1, <1>5 DEF LinkReport, Load, GoTo, TypeOK, store
  <2>2. QED BY <2>1 DEF ChangedThesis
<1>6. CASE (FindIndexed(p) \/ ScanFile(p) \/ FoundNothing(p)) /\ ~Return(p)
  <2>1. /\ pc[p] \in {"find", "scan"} /\ pc'[p] \in {"scan", "save"}
        /\ UNCHANGED <<files, own, mem>>
    BY <1>1, <1>6 DEF FindIndexed, ScanFile, FoundNothing, GoTo, TypeOK, store
  <2>2. QED BY <1>1, <2>1 DEF MadeFromFile, NewThesis
<1>7. CASE SaveThesis(p) \/ LoadIndex(p) \/ Rebuild(p) \/ RebuildFile(p)
  <2>1. pc'[p] \in {"load_index", "save_index", "rebuild"}
    BY <1>1, <1>7 DEF SaveThesis, LoadIndex, Rebuild, RebuildFile, GoTo, TypeOK
  <2>2. QED BY <2>1
<1>8. CASE SaveIndex(p) \/ SaveRebuilt(p) \/ Crash(p)
  BY <1>2, <1>8 DEF SaveIndex, SaveRebuilt, Crash
<1>9. CASE UNCHANGED vars
  BY <1>1, <1>9 DEF vars, MadeFromFile, NewThesis, ChangedThesis
<1>10. QED
  BY <1>1, <1>2, <1>3, <1>4, <1>5, <1>6, <1>7, <1>8, <1>9 DEF Next

\* The entry of an origin is that of its one file.
Record(t) == [status |-> t.status, reports |-> t.reports]

LEMMA RecordsOf ==
    ASSUME NEW fs \in [Ids -> Thesis \cup {None}],
           \A i, j \in Ids : fs[i] # None /\ fs[j] # None /\ fs[i].fp = fs[j].fp => i = j,
           NEW fp \in Fingerprints
    PROVE  LET holders == {id \in Ids : fs[id] # None}
               entry == IF \E id \in holders : fs[id].fp = fp
                          THEN LET id == CHOOSE id \in holders : fs[id].fp = fp
                               IN  [status |-> fs[id].status, reports |-> fs[id].reports]
                          ELSE None
           IN  /\ \A id \in holders : fs[id].fp = fp => entry = Record(fs[id])
               /\ (\A id \in holders : fs[id].fp # fp) => entry = None
BY DEF Record


RegistersFiles ==
    /\ Registered = [fp \in Fingerprints |-> Registered[fp]]
    /\ \A id \in Listed : /\ files[id].fp \in Fingerprints
                          /\ Registered[files[id].fp] = Record(files[id])
    /\ \A fp \in Fingerprints :
         (\A id \in Listed : files[id].fp # fp) => Registered[fp] = None

LEMMA RegisteredNow == TypeOK /\ OneThesisPerFingerprint => RegistersFiles
<1> SUFFICES ASSUME TypeOK, OneThesisPerFingerprint PROVE RegistersFiles
  OBVIOUS
<1>1. /\ files \in [Ids -> Thesis \cup {None}]
      /\ \A i, j \in Ids : files[i] # None /\ files[j] # None /\ files[i].fp = files[j].fp => i = j
  BY DEF TypeOK, OneThesisPerFingerprint, Listed
<1>2. Registered = [fp \in Fingerprints |-> Registered[fp]]
  BY DEF Registered
<1>3. ASSUME NEW fp \in Fingerprints
      PROVE  /\ \A id \in Listed : files[id].fp = fp => Registered[fp] = Record(files[id])
             /\ (\A id \in Listed : files[id].fp # fp) => Registered[fp] = None
  BY <1>1, RecordsOf DEF Registered, Listed
<1>4. \A id \in Listed : files[id].fp \in Fingerprints
  BY DEF TypeOK, Listed, Thesis
<1>5. QED BY <1>2, <1>3, <1>4 DEF RegistersFiles

LEMMA RegisteredThen == TypeOK' /\ OneThesisPerFingerprint' => RegistersFiles'
BY RegisteredNow, PTL

\* An operation of the registry on one entry, said of the entry.
LEMMA RegistryOperation ==
    ASSUME Registered = [fp \in Fingerprints |-> Registered[fp]],
           Registered' = [fp \in Fingerprints |-> Registered'[fp]],
           NEW fp \in Fingerprints, NEW e,
           Registered'[fp] = e,
           \A g \in Fingerprints \ {fp} : Registered'[g] = Registered[g],
           \/ Registered[fp] = None /\ e = [status |-> 0, reports |-> {}]
           \/ /\ Registered[fp] # None
              /\ \E s \in Statuses : /\ s > Registered[fp].status
                                     /\ e = [Registered[fp] EXCEPT !.status = s]
           \/ /\ Registered[fp] # None
              /\ \E r \in Reports : e = [Registered[fp] EXCEPT !.reports = @ \cup {r}]
    PROVE  Registry!Next
<1>1. Registered' = [Registered EXCEPT ![fp] = e]
  OBVIOUS
<1>2. CASE Registered[fp] = None /\ e = [status |-> 0, reports |-> {}]
  BY <1>1, <1>2 DEF Registry!Next, Registry!Register
<1>3. CASE /\ Registered[fp] # None
           /\ \E s \in Statuses : /\ s > Registered[fp].status
                                  /\ e = [Registered[fp] EXCEPT !.status = s]
  BY <1>1, <1>3 DEF Registry!Next, Registry!Advance, Statuses
<1>4. CASE /\ Registered[fp] # None
           /\ \E r \in Reports : e = [Registered[fp] EXCEPT !.reports = @ \cup {r}]
  <2>1. PICK r \in Reports : e = [Registered[fp] EXCEPT !.reports = @ \cup {r}]
    BY <1>4
  <2>2. Registered' = [Registered EXCEPT ![fp].reports = @ \cup {r}]
    BY <1>1, <2>1, Zenon
  <2>3. Registry!Link(fp)
    BY <1>4, <2>2, Zenon DEF Registry!Link
  <2>4. QED BY <2>3 DEF Registry!Next
<1>5. QED BY <1>2, <1>3, <1>4

\* The save of a file is an operation of the registry.
LEMMA SaveOperates ==
    ASSUME Alone, SoloInv, SoloInv', MadeFromFile, NEW p \in Procs, SaveThesis(p)
    PROVE  Registry!Next
<1> DEFINE id == own[p]
           t == mem[p]
           old == files[id]
<1>1. /\ TypeOK /\ RegistersFiles /\ RegistersFiles'
  BY RegisteredNow, RegisteredThen DEF SoloInv, IInv
<1>2. id \in Ids /\ t \in Thesis /\ t # None
  BY NoneApart DEF SaveThesis, SoloInv, IInv, OwnHeld
<1>3. files'[id] = t /\ \A i \in Ids \ {id} : files'[i] = files[i]
  BY <1>1, <1>2 DEF SaveThesis, TypeOK
<1>4. Listed' = Listed \cup {id} /\ t.fp \in Fingerprints
  BY <1>2, <1>3 DEF Listed, Thesis
<1>5. /\ NewThesis(p) => \A i \in Listed : files[i].fp # t.fp
      /\ old # None => old.fp = t.fp
      /\ NewThesis(p) \/ ChangedThesis(p)
  BY <1>2 DEF SoloInv, NewOrigin, IInv, OwnOrigin, MadeFromFile, SaveThesis, NewThesis
<1>6. Registered'[t.fp] = Record(t)
  BY <1>1, <1>2, <1>3, <1>4 DEF RegistersFiles
<1>7. ASSUME NEW g \in Fingerprints \ {t.fp}
      PROVE  Registered'[g] = Registered[g]
  <2>1. CASE \E i \in Listed : files[i].fp = g
    <3>1. PICK i \in Listed : files[i].fp = g
      BY <2>1
    <3>2. i # id /\ i \in Ids
      BY <1>5, <1>7, <3>1 DEF Listed
    <3>3. i \in Listed' /\ files'[i] = files[i]
      BY <1>3, <1>4, <3>1, <3>2
    <3>4. QED BY <1>1, <3>1, <3>3 DEF RegistersFiles
  <2>2. CASE \A i \in Listed : files[i].fp # g
    <3>1. \A i \in Listed' : files'[i].fp # g
      BY <1>3, <1>4, <1>7, <2>2 DEF Listed
    <3>2. QED BY <1>1, <2>2, <3>1 DEF RegistersFiles
  <2>3. QED BY <2>1, <2>2
<1>8. CASE NewThesis(p)
  <2>1. Registered[t.fp] = None
    BY <1>1, <1>4, <1>5, <1>8 DEF RegistersFiles
  <2>2. Record(t) = [status |-> 0, reports |-> {}]
    BY <1>8 DEF NewThesis, Record
  <2>3. QED BY <1>1, <1>4, <1>6, <1>7, <2>1, <2>2, RegistryOperation DEF RegistersFiles
<1>9. CASE ChangedThesis(p)
  <2>1. id \in Listed /\ old.fp = t.fp /\ old \in Thesis
    BY <1>1, <1>2, <1>5, <1>9 DEF ChangedThesis, Listed, TypeOK
  <2>2. Registered[t.fp] = Record(old) /\ Record(old) # None
    BY <1>1, <2>1, StoreAssumption DEF RegistersFiles, Record, Thesis, Statuses
  <2>3. \/ \E s \in Statuses : /\ s > Record(old).status
                               /\ Record(t) = [Record(old) EXCEPT !.status = s]
        \/ \E r \in Reports : Record(t) = [Record(old) EXCEPT !.reports = @ \cup {r}]
    <3>1. ASSUME NEW s \in Statuses, s > old.status, t = [old EXCEPT !.status = s]
          PROVE  s > Record(old).status /\ Record(t) = [Record(old) EXCEPT !.status = s]
      BY <2>1, <3>1 DEF Record, Thesis
    <3>2. ASSUME NEW r \in Reports, t = [old EXCEPT !.reports = @ \cup {r}]
          PROVE  Record(t) = [Record(old) EXCEPT !.reports = @ \cup {r}]
      BY <2>1, <3>2 DEF Record, Thesis
    <3>3. QED BY <1>9, <3>1, <3>2 DEF ChangedThesis
  <2> DEFINE e == Record(t)
  <2>4. /\ Registered = [fp \in Fingerprints |-> Registered[fp]]
        /\ Registered' = [fp \in Fingerprints |-> Registered'[fp]]
    BY <1>1 DEF RegistersFiles
  <2>5. \/ /\ Registered[t.fp] # None
           /\ \E s \in Statuses : /\ s > Registered[t.fp].status
                                  /\ e = [Registered[t.fp] EXCEPT !.status = s]
        \/ /\ Registered[t.fp] # None
           /\ \E x \in Reports : e = [Registered[t.fp] EXCEPT !.reports = @ \cup {x}]
    BY <2>2, <2>3, Zenon
  <2> HIDE DEF e
  <2>6. QED BY <1>4, <1>6, <1>7, <2>4, <2>5, RegistryOperation DEF e
<1>10. QED BY <1>5, <1>8, <1>9

\* Without overlap the store is the registry it promises, whatever dies: origins
\* are registered once, statuses only advance, linked reports stay.
THEOREM ImplementsRegistry == ~HashCollides /\ Alone /\ Spec => RegistrySpec
<1> DEFINE Inv == SoloInv /\ MadeFromFile
<1>1. Init => MadeFromFile /\ Registry!Init
  <2>1. Init => MadeFromFile
    BY DEF Init, MadeFromFile
  <2>2. Init => Listed = {}
    BY DEF Init, NoEntries, Listed
  <2>3. QED BY <2>1, <2>2 DEF Registered, Registry!Init
<1>2. ASSUME ~HashCollides, Alone, Inv, [Next]_vars
      PROVE  Inv' /\ [Registry!Next]_Registered
  <2>1. Inv'
    BY <1>2, SoloStep, MadeStep
  <2>2. ASSUME NEW p \in Procs, SaveThesis(p)
        PROVE  Registry!Next
    BY <1>2, <2>1, <2>2, SaveOperates
  <2>3. files' = files \/ \E p \in Procs : SaveThesis(p)
    BY <1>2 DEF Next, vars, store, BuildThesis, FindIndexed, ScanFile, FoundNothing,
        Advance, LinkReport, Load, LoadIndex, SaveIndex, Rebuild, RebuildFile,
        SaveRebuilt, Crash
  <2>4. files' = files => Registered' = Registered
    BY DEF Registered, Listed
  <2>5. QED BY <2>1, <2>2, <2>3, <2>4
<1>3. CASE ~HashCollides /\ Alone
  <2>1. Inv /\ [Next]_vars => Inv' /\ [Registry!Next]_Registered
    BY <1>2, <1>3
  <2>2. Init => Inv
    BY <1>1, SoloInit
  <2>3. QED BY <1>1, <2>1, <2>2, PTL DEF Spec, RegistrySpec, Registry!Spec
<1>4. CASE ~(~HashCollides /\ Alone)
  BY <1>4
<1>5. QED BY <1>3, <1>4
=============================================================================
