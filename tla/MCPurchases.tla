---------------------------- MODULE MCPurchases -----------------------------
(***************************************************************************)
(* Two views of PrivateRequest in one run: several requests of a student,  *)
(* and one request with a choice of slots.  A behaviour keeps to one view, *)
(* so the state spaces add up instead of multiplying.                      *)
(***************************************************************************)
EXTENDS MCPrivateRequest

VARIABLE view

\* Two requests for one slot of a class that does not change, with the whole
\* life of the enrollments they sell.
Rivals ==
    /\ class = [open |-> TRUE, limit |-> Null] /\ failed = {}
    /\ \A r \in Requests : req[r].slots \cup req[r].recommended \subseteq {mon}

\* One request for two slots while the class and billing change; nothing is
\* recommended, and what was bought is kept.
Selections ==
    /\ req[r2] = NoRequest /\ req[r1].recommended = {}
    /\ \A r \in Requests : enr[r].status # "suspended" /\ "ended" \notin log[r]
    /\ \A p \in Procs : pc[p] \notin {"withdraw", "drop"}

InView == IF view = "rivals" THEN Rivals ELSE Selections

MCInit == view \in {"rivals", "selections"} /\ Init

MCNext == Next /\ UNCHANGED view /\ InView'

MCSpec == MCInit /\ [][MCNext]_<<vars, view>>

=============================================================================
