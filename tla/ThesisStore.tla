----------------------------- MODULE ThesisStore -----------------------------
(***************************************************************************)
(* The directory behind thesis_store.py: one YAML file per thesis and one  *)
(* _index.json.  ThesisLifecycle says what an operation does to a thesis;  *)
(* this module says how an operation reaches the disk.  There is no lock:  *)
(* every operation is a sequence of separate reads and atomic replaces     *)
(* (tempfile + os.replace), other processes may run between any two of     *)
(* them, and a process may die between any two of them.                    *)
(*                                                                         *)
(* A file is only ever seen whole, so a save is one step.  Of a thesis's   *)
(* content this module keeps the fingerprint of its origin, its place in   *)
(* the forward order of statuses (which the index repeats), and the set of *)
(* reports linked to it (which the index does not).                        *)
(***************************************************************************)
EXTENDS Naturals, FiniteSets

CONSTANTS
    Procs,         \* processes that run an operation of the store
    Ids,           \* thesis ids
    Fingerprints,  \* origins of theses: what register() deduplicates by
    Reports,       \* reports that link_report() may append
    LastStatus,    \* statuses are 0 (IDEA) .. LastStatus, in forward order
    HashCollides,  \* may _generate_thesis_id return an id already in use?
    None

ASSUME StoreAssumption ==
    /\ LastStatus \in Nat
    /\ HashCollides \in BOOLEAN
    /\ None \notin Ids
    /\ None \notin [fp : Fingerprints, status : 0..LastStatus]
    /\ None \notin [fp : Fingerprints, status : 0..LastStatus, reports : SUBSET Reports]
    /\ None \notin [status : 0..LastStatus, reports : SUBSET Reports]

VARIABLES
    files,      \* files[id]: the thesis in th_<id>.yaml, None if there is no such file
    index,      \* index[id]: the entry for id in _index.json, None if absent
    pc,         \* pc[p]: the next step of p's operation, "idle" between operations
    own,        \* own[p]: the id p's operation is about to save, or None
    mem,        \* mem[p]: the thesis p holds in memory, or None
    snap,       \* snap[p]: the index p holds in memory, loaded or being rebuilt
    todo,       \* todo[p]: ids of the files p has listed and not read yet
    unindexed   \* history: ids saved by an operation that has not saved the index since

vars == <<files, index, pc, own, mem, snap, todo, unindexed>>
store == <<files, index, unindexed>>

Statuses == 0..LastStatus
Thesis   == [fp : Fingerprints, status : Statuses, reports : SUBSET Reports]
Entry    == [fp : Fingerprints, status : Statuses]
NoEntries == [id \in Ids |-> None]

Steps == {"idle", "find", "scan", "save", "load_index", "save_index", "rebuild"}

\* _project_index_fields: what the index repeats of a thesis.
Project(t) == [fp |-> t.fp, status |-> t.status]

\* glob("th_*.yaml")
Listed == {id \in Ids : files[id] # None}

Init ==
    /\ files = NoEntries
    /\ index = NoEntries
    /\ pc = [p \in Procs |-> "idle"]
    /\ own = [p \in Procs |-> None]
    /\ mem = [p \in Procs |-> None]
    /\ snap = [p \in Procs |-> NoEntries]
    /\ todo = [p \in Procs |-> {}]
    /\ unindexed = {}

GoTo(p, step) == pc' = [pc EXCEPT ![p] = step]

\* The operation is over, by returning or by dying: its locals are gone.
Return(p) ==
    /\ GoTo(p, "idle")
    /\ own' = [own EXCEPT ![p] = None]
    /\ mem' = [mem EXCEPT ![p] = None]
    /\ snap' = [snap EXCEPT ![p] = NoEntries]
    /\ todo' = [todo EXCEPT ![p] = {}]

-----------------------------------------------------------------------------
(***************************************************************************)
(* register: build the thesis (and its id) in memory, look for the         *)
(* fingerprint, then save.                                                 *)
(***************************************************************************)
InUse == Listed \cup {own[p] : p \in Procs}

BuildThesis(p, id, fp) ==
    /\ pc[p] = "idle"
    /\ HashCollides \/ id \notin InUse
    /\ own' = [own EXCEPT ![p] = id]
    /\ mem' = [mem EXCEPT ![p] = [fp |-> fp, status |-> 0, reports |-> {}]]
    /\ GoTo(p, "find")
    /\ UNCHANGED <<snap, todo, store>>

\* MUTANT of FindIndexed: a miss in the index is believed.
FindIndexedOnly(p) ==
    /\ pc[p] = "find"
    /\ IF \E id \in Ids : index[id] # None /\ index[id].fp = mem[p].fp
         THEN Return(p)
         ELSE GoTo(p, "save") /\ UNCHANGED <<own, mem, snap, todo>>
    /\ UNCHANGED store

\* The index lookup of _find_by_fingerprint; on a miss the files are listed.
FindIndexed(p) ==
    /\ pc[p] = "find"
    /\ IF \E id \in Ids : index[id] # None /\ index[id].fp = mem[p].fp
         THEN Return(p)
         ELSE /\ todo' = [todo EXCEPT ![p] = Listed]
              /\ GoTo(p, "scan")
              /\ UNCHANGED <<own, mem, snap>>
    /\ UNCHANGED store

\* The YAML scan of _find_by_fingerprint, one listed file.
ScanFile(p) ==
    /\ pc[p] = "scan"
    /\ \E id \in todo[p] :
         IF files[id].fp = mem[p].fp
           THEN Return(p)
           ELSE /\ todo' = [todo EXCEPT ![p] = @ \ {id}]
                /\ UNCHANGED <<pc, own, mem, snap>>
    /\ UNCHANGED store

FoundNothing(p) ==
    /\ pc[p] = "scan"
    /\ todo[p] = {}
    /\ GoTo(p, "save")
    /\ UNCHANGED <<own, mem, snap, todo, store>>

-----------------------------------------------------------------------------
(***************************************************************************)
(* The other operations load the thesis, change it in memory and save it.  *)
(* Two stand for all of them: one the index shows, one it does not.        *)
(***************************************************************************)
Load(p, id, t) ==
    /\ pc[p] = "idle"
    /\ files[id] # None
    /\ own' = [own EXCEPT ![p] = id]
    /\ mem' = [mem EXCEPT ![p] = t]
    /\ GoTo(p, "save")
    /\ UNCHANGED <<snap, todo, store>>

\* transition, open_position, trim, close, terminate: forward only.
Advance(p, id, s) ==
    /\ files[id] # None
    /\ s > files[id].status
    /\ Load(p, id, [files[id] EXCEPT !.status = s])

\* MUTANT of LinkReport: the list of linked reports is replaced.
LinkOnlyReport(p, id, r) ==
    Load(p, id, [files[id] EXCEPT !.reports = {r}])

LinkReport(p, id, r) ==
    Load(p, id, [files[id] EXCEPT !.reports = @ \cup {r}])

-----------------------------------------------------------------------------
(***************************************************************************)
(* The save that ends every operation: file first, then the index is       *)
(* loaded, one entry is replaced, and the index is saved.                  *)
(***************************************************************************)
\* MUTANT of SaveThesis: a failed write is logged and the operation goes on.
SaveThesisOrLog(p) ==
    /\ pc[p] = "save"
    /\ \/ /\ files' = [files EXCEPT ![own[p]] = mem[p]]
          /\ unindexed' = unindexed \cup {own[p]}
       \/ UNCHANGED <<files, unindexed>>
    /\ GoTo(p, "load_index")
    /\ UNCHANGED <<index, own, mem, snap, todo>>

SaveThesis(p) ==
    /\ pc[p] = "save"
    /\ files' = [files EXCEPT ![own[p]] = mem[p]]
    /\ unindexed' = unindexed \cup {own[p]}
    /\ GoTo(p, "load_index")
    /\ UNCHANGED <<index, own, mem, snap, todo>>

LoadIndex(p) ==
    /\ pc[p] = "load_index"
    /\ snap' = [snap EXCEPT ![p] = index]
    /\ GoTo(p, "save_index")
    /\ UNCHANGED <<own, mem, todo, store>>

\* MUTANT of SaveIndex: setdefault, an entry once there is not replaced.
SaveIndexOnce(p) ==
    /\ pc[p] = "save_index"
    /\ index' = IF snap[p][own[p]] # None THEN snap[p]
                ELSE [snap[p] EXCEPT ![own[p]] = Project(mem[p])]
    /\ unindexed' = unindexed \ {own[p]}
    /\ Return(p)
    /\ UNCHANGED files

SaveIndex(p) ==
    /\ pc[p] = "save_index"
    /\ index' = [snap[p] EXCEPT ![own[p]] = Project(mem[p])]
    /\ unindexed' = unindexed \ {own[p]}
    /\ Return(p)
    /\ UNCHANGED files

-----------------------------------------------------------------------------
(***************************************************************************)
(* rebuild_index: a new index from the listed files, saved at the end.     *)
(***************************************************************************)
Rebuild(p) ==
    /\ pc[p] = "idle"
    /\ todo' = [todo EXCEPT ![p] = Listed]
    /\ GoTo(p, "rebuild")
    /\ UNCHANGED <<own, mem, snap, store>>

\* sorted(): the order of the files does not matter to the result.
RebuildFile(p) ==
    /\ pc[p] = "rebuild"
    /\ \E id \in todo[p] :
         /\ snap' = [snap EXCEPT ![p] = [@ EXCEPT ![id] = Project(files[id])]]
         /\ todo' = [todo EXCEPT ![p] = @ \ {id}]
    /\ UNCHANGED <<pc, own, mem, store>>

SaveRebuilt(p) ==
    /\ pc[p] = "rebuild"
    /\ todo[p] = {}
    /\ index' = snap[p]
    /\ unindexed' = {}
    /\ Return(p)
    /\ UNCHANGED files

\* The process is killed, or a read or write of the operation raises.
Crash(p) ==
    /\ pc[p] # "idle"
    /\ Return(p)
    /\ UNCHANGED store

Next ==
    \E p \in Procs :
        \/ \E id \in Ids, fp \in Fingerprints : BuildThesis(p, id, fp)
        \/ FindIndexed(p) \/ ScanFile(p) \/ FoundNothing(p)
        \/ \E id \in Ids, s \in Statuses : Advance(p, id, s)
        \/ \E id \in Ids, r \in Reports : LinkReport(p, id, r)
        \/ SaveThesis(p) \/ LoadIndex(p) \/ SaveIndex(p)
        \/ Rebuild(p) \/ RebuildFile(p) \/ SaveRebuilt(p)
        \/ Crash(p)

Spec == Init /\ [][Next]_vars

-----------------------------------------------------------------------------
(***************************************************************************)
(* What holds whoever else is writing, and wherever a process dies.        *)
(***************************************************************************)

\* Every variable stays in its type.
TypeOK ==
    /\ files \in [Ids -> Thesis \cup {None}]
    /\ index \in [Ids -> Entry \cup {None}]
    /\ pc \in [Procs -> Steps]
    /\ own \in [Procs -> Ids \cup {None}]
    /\ mem \in [Procs -> Thesis \cup {None}]
    /\ snap \in [Procs -> [Ids -> Entry \cup {None}]]
    /\ todo \in [Procs -> SUBSET Ids]
    /\ unindexed \subseteq Ids

\* e describes a saved thesis: the one in id's file, by the origin it has.
Describes(e, id) == files[id] # None /\ files[id].fp = e.fp

\* An index entry always points to a saved thesis of the same origin, so an
\* index hit in register() returns an id that get() can load: validate_state
\* never reports orphaned_in_index.  The order "file, then index" is what
\* gives this, in every operation and every interleaving.
IndexPointsToThesis ==
    \A id \in Ids : index[id] # None => Describes(index[id], id)

\* No operation replaces a saved thesis with one of another origin, and none
\* removes it.
OriginFixed ==
    [][\A id \in Ids : files[id] # None =>
           files'[id] # None /\ files'[id].fp = files[id].fp]_vars

(***************************************************************************)
(* What holds when operations do not overlap (one process, which may die). *)
(***************************************************************************)

\* register() is idempotent: two files never share a fingerprint, even if an
\* earlier register() died between its two saves.
OneThesisPerFingerprint ==
    \A i, j \in Listed : files[i].fp = files[j].fp => i = j

\* The index differs from the files only where the last write of a thesis was
\* cut off before its index save: nothing else makes an entry stale or lost.
StaleOnlyIfCutOff ==
    \A id \in Ids \ unindexed :
        index[id] = IF files[id] = None THEN None ELSE Project(files[id])

\* validate_state's verdict on the directory.
StateOk ==
    \A id \in Ids : index[id] = IF files[id] = None THEN None ELSE Project(files[id])

\* A rebuild_index that returns leaves a directory validate_state accepts,
\* whatever crashes left behind before it.
RebuildRepairs ==
    [][\A p \in Procs : pc[p] = "rebuild" /\ index' # index => StateOk']_vars

\* With no overlap the files are a registry in which a fingerprint is added
\* once, statuses only advance and reports only accumulate.
Registered == [fp \in Fingerprints |->
    IF \E id \in Listed : files[id].fp = fp
      THEN LET id == CHOOSE id \in Listed : files[id].fp = fp
           IN  [status |-> files[id].status, reports |-> files[id].reports]
      ELSE None]

Registry == INSTANCE ThesisRegistry WITH registry <- Registered
RegistrySpec == Registry!Spec
=============================================================================
