--------------------------- MODULE MCEnrollment ---------------------------
(***************************************************************************)
(* Small instances of Enrollment for TLC.                                  *)
(***************************************************************************)
EXTENDS Enrollment, TLC

CONSTANTS c1, c2, c3, w1, w2, q1, q2, ada, ben, kls, prv, s1, s2, s3, s4, k1, k2,
          mum, dad, org,
          Steps     \* bound: the steps of the operations that workers perform

Ask(channel, caller, student, sch, key) ==
    [channel |-> channel, caller |-> caller, student |-> student,
     class |-> kls, schedule |-> sch, key |-> key]

MCParentOf == [st \in Students |-> IF st = ada THEN mum ELSE dad]
MCTenantOf == [c \in Classes |-> org]
MCPurchaseOf == [e \in Purchases |->
    [student |-> IF e = q1 THEN ada ELSE ben, class |-> prv]]

\* One open seat; s2 is free to become the successor of s1.
OneSeat == [s \in Schedules |->
    [class |-> kls, cap |-> 1, state |-> IF s = s2 THEN "unused" ELSE "open"]]

\* Two families compete for the seat.
Rivals == {Ask("public", mum, ada, s1, k1), Ask("public", dad, ben, s1, k2)}

One == {Ask("public", mum, ada, s1, k1)}

\* Checkout ids are interchangeable, and so are workers.
Symmetry == Permutations(Checkouts) \cup Permutations(Workers)

InScope == \A w \in Workers : pc[w] \in Steps \cup {"idle"}

ScopedSpec == Init /\ [][Next /\ InScope']_vars
FairSpec == ScopedSpec /\ Fairness

-----------------------------------------------------------------------------
(* What comments and tests of the repository say of the program. *)

\* "concurrent resumes and signups on one schedule must never exceed capacity"
\* (internal/repository/enrollment_suspend_postgres_test.go:233).
NeverExceedsCapacity ==
    \A s \in Schedules : Cardinality(Seats(s)) <= sched[s].cap

\* "a seat is never revoked for money the parent really paid.  The reverse order
\* could drop a seat and only then discover the payment, which no retry could
\* undo" (internal/usecase/enrollment_usecase.go:60): once no checkout works on
\* an enrollment any more (its save would bring the seat back), the parent's
\* cancellation leaves it not dropped with its invoice paid.
PaidSeatNotRevoked ==
    \A e \in Enrollments \ rewound :
        /\ log[e] \cap {"withdrawn", "unbilled"} # {} /\ enr[e].status = "dropped"
        /\ \A p \in Checkouts : mine[p].id = e => pc[p] = "done"
        => invoice[e] # "paid"

\* "active enrollment ... preserve both class and schedules"
\* (internal/usecase/class_deletion_postgres_test.go:199): no class deletion
\* takes the schedule of an enrollment that is active.
ActiveKeepsSchedule ==
    [][\A e \in Enrollments :
          enr[e].status = "active" /\ enr[e].schedule # Null =>
             \/ sched'[enr[e].schedule].state # "class_deleted"
             \/ sched[enr[e].schedule].state = "class_deleted"]_vars

===========================================================================
