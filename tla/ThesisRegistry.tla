--------------------------- MODULE ThesisRegistry ---------------------------
(***************************************************************************)
(* What the thesis store promises: a registry keyed by fingerprint.  A     *)
(* thesis is registered at most once, its status only moves forward, and   *)
(* a report linked to it stays linked.  Operations are atomic here; in     *)
(* ThesisStore the step that saves the file is the one that counts.        *)
(***************************************************************************)
EXTENDS Naturals

CONSTANTS Fingerprints, Reports, LastStatus, None

VARIABLE registry   \* registry[fp]: [status, reports] of the thesis, or None

Init == registry = [fp \in Fingerprints |-> None]

Register(fp) ==
    /\ registry[fp] = None
    /\ registry' = [registry EXCEPT ![fp] = [status |-> 0, reports |-> {}]]

Advance(fp) ==
    /\ registry[fp] # None
    /\ \E s \in 0..LastStatus :
         /\ s > registry[fp].status
         /\ registry' = [registry EXCEPT ![fp].status = s]

Link(fp) ==
    /\ registry[fp] # None
    /\ \E r \in Reports : registry' = [registry EXCEPT ![fp].reports = @ \cup {r}]

Next == \E fp \in Fingerprints : Register(fp) \/ Advance(fp) \/ Link(fp)

Spec == Init /\ [][Next]_registry
=============================================================================
