------------------------------ MODULE MCSeats ------------------------------
(***************************************************************************)
(* Three views of Enrollment in one run: a crowd of signups for single     *)
(* seats; rival signups to a schedule that is resized, replaced and        *)
(* deleted, alone or with its class; and private purchases that are        *)
(* assigned to a schedule that is replaced and deleted.  A behaviour keeps *)
(* to one view, so the state spaces add up instead of multiplying.         *)
(***************************************************************************)
EXTENDS MCEnrollment

VARIABLE view

\* Group schedules of one and of two seats, a private one, and a spare id for
\* the successor of any of them.
Timetable == [s \in Schedules |->
    CASE s = s1 -> [class |-> kls, cap |-> 1, state |-> "open"]
      [] s = s2 -> [class |-> kls, cap |-> 2, state |-> "open"]
      [] s = s3 -> [class |-> prv, cap |-> 1, state |-> "open"]
      [] OTHER -> [class |-> kls, cap |-> 1, state |-> "unused"]]

\* Rivals for s1, staff who sign one student up on s2 as well or retry for a
\* parent, and a family that uses the other's key on s2.
Crowd == Rivals \cup {Ask("tenant", org, ada, s2, k2),
                      Ask("tenant", org, ada, s1, k1),
                      Ask("public", dad, ben, s2, k1)}

Asked == {req[p] : p \in Checkouts} \ {Null}

Unchanged(s) == sched[s] = InitSched[s]

\* The purchases wait, unpaid.
NoPurchases == \A q \in Purchases : invoice[q] = "open" /\ q \notin failed

\* The crowd and its payments, beside one worker that resumes or cancels.  No
\* schedule comes to its end.
CrowdNext ==
    \/ \E p \in Checkouts : CheckoutNext(p)
    \/ \E w \in Workers :
          \/ WorkerStep(w) \/ WorkerFails(w)
          \/ /\ \A v \in Workers : pc[v] = "idle"
             /\ WorkerStart(w)
             /\ job'[w].enr \in Checkouts /\ pc'[w] \in {"resume", "withdraw"}
    \/ /\ OutsideNext
       /\ NoPurchases' /\ UNCHANGED sched

\* Signups for s2, unpaid, while s2 is changed or deleted, alone or with its
\* class.
SignupsNext ==
    \/ \E p \in Checkouts :
          CheckoutNext(p) /\ \A r \in Asked' : r.schedule = s2
    \/ \E w \in Workers :
          \/ WorkerStep(w) \/ WorkerFails(w)
          \/ /\ WorkerStart(w)
             /\ pc'[w] \in {"change", "delete", "class_schedules"}
             /\ job'[w].sched \notin {s1, s3} /\ job'[w].class # prv
    \/ OutsideNext /\ UNCHANGED billing /\ Unchanged(s1)' /\ Unchanged(s3)'

\* The purchases, paid or not, while their schedule s3 is changed or deleted.
\* No payment fails and nothing is ended.
PrivateNext ==
    \/ \E w \in Workers :
          \/ WorkerStep(w) \/ WorkerFails(w)
          \/ /\ WorkerStart(w)
             /\ pc'[w] # "withdraw"
             /\ job'[w].sched \notin {s1, s2} /\ job'[w].class # kls
    \/ /\ OutsideNext /\ Unchanged(s1)' /\ Unchanged(s2)'
       /\ failed' = {} /\ \A e \in Enrollments : "ended" \notin log'[e]

MCInit == view \in {"crowd", "signups", "private"} /\ Init

MCNext ==
    /\ UNCHANGED view
    /\ \/ view = "crowd" /\ CrowdNext
       \/ view = "signups" /\ SignupsNext
       \/ view = "private" /\ PrivateNext

MCSpec == MCInit /\ [][MCNext]_<<vars, view>>

=============================================================================
