----------------------------- MODULE MCSessions -----------------------------
(***************************************************************************)
(* Small instances of Sessions for TLC.                                    *)
(***************************************************************************)
EXTENDS Sessions

CONSTANTS e1, r1, r2, ana, bo

Free == [state |-> "unused", dow |-> 0, from |-> 0, until |-> NoDate,
         gen |-> NoDate, tutor |-> Null]

\* One schedule from before the watermark existed; the other rows are free.
Legacy == [s \in Schedules |->
    IF s = 1 THEN [Free EXCEPT !.state = "live", !.from = 1, !.tutor = Null]
             ELSE Free]

\* A later start without a tutor, an early one with an end.
TwoOffers == {[dow |-> 1, from |-> 3, until |-> NoDate, tutor |-> Null],
              [dow |-> 2, from |-> 1, until |-> 2, tutor |-> ana]}

\* Another weekday, or the same one with another tutor.
AnyDate == {[dow |-> 2, from |-> d, tutor |-> ana] : d \in RequestDates}
               \cup {[dow |-> 0, from |-> d, tutor |-> bo] : d \in RequestDates}

\* Replica r2 is at work only while the tenant has made one request at most:
\* two passes overlap each other and a request, or one pass overlaps two
\* requests.
SecondReplica == pass[r2] # NoPass => left >= MaxRequests - 1

\* Attendance is taken of one session of a behaviour.
OneAttendance == Cardinality((marked \cup {marking}) \ {Null}) <= 1

MCSpec ==
    /\ Init /\ [][Next /\ SecondReplica' /\ OneAttendance']_vars
    /\ WF_vars(Midnight) /\ Runs(r1)

=============================================================================
