-------------------------- MODULE MCPrivateRequest --------------------------
(***************************************************************************)
(* Small instances of PrivateRequest for TLC.                              *)
(***************************************************************************)
EXTENDS PrivateRequest, TLC

CONSTANTS r1, r2, p1, p2, p3, ada, mon, tue

\* All requests are for the same student.
OneStudent == [r \in Requests |-> ada]

\* HTTP requests are interchangeable.
Symmetry == Permutations(Procs)

-----------------------------------------------------------------------------
(* What comments and tests of the repository say of the program. *)

\* "without exposing a false approval"
\* (internal/usecase/private_schedule_request_usecase.go:267): when nobody works
\* on a request any more, it is not approved with a refused enrollment.
NoFalseApproval ==
    \A r \in Requests :
        req[r].status = "approved" /\ platformFeeRejected(enr[r])
            => \E p \in Procs : job[p].id = r

\* The schedule of an accepted recommendation is the recommended one
\* (internal/usecase/private_schedule_recommendation_postgres_test.go:129).
AcceptedSlotsSold ==
    \A r \in Requests :
        req[r].status = "approved" /\ req[r].recommended # {}
            => sold[r] = req[r].recommended

=============================================================================
