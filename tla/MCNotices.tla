----------------------------- MODULE MCNotices -----------------------------
(***************************************************************************)
(* Notices for model checking: a behaviour is about attendance, about      *)
(* reminders, or about the delivery of the rows of the outbox, and the     *)
(* state spaces add up.  Attendance and reminders only meet in the outbox, *)
(* which neither reads; delivery shares no state with them.                *)
(***************************************************************************)
EXTENDS Notices, NoticeOutbox

CONSTANTS ada, ben, mum, s0, x1, x2, m1, m2, r1, r2, n1, n2, w1, w2

\* Brother and sister.
Siblings == [e \in Enrollments |-> mum]

VARIABLE subject

allVars == <<subject, vars, deliveryVars>>

MCInit ==
    /\ subject \in {"attendance", "reminders", "delivery"}
    /\ Init /\ (subject = "delivery" => pupil = Null /\ \A e \in Enrollments : enr[e].status = "pending")
    /\ DeliveryInit /\ (subject # "delivery" => \A o \in Rows : channel[o] = "chat")

MCNext ==
    /\ UNCHANGED subject
    /\ \/ subject = "attendance" /\ Next /\ UNCHANGED <<pass, deliveryVars>>
       \/ subject = "reminders" /\ Next /\ UNCHANGED <<mark, deliveryVars>>
       \/ subject = "delivery" /\ DeliveryNext /\ UNCHANGED vars

\* Some replica makes a pass every interval and passes come to their end; what
\* can succeed again and again does, the statement for each of the sessions of a
\* pass as well.
RemindersFairness ==
    LET running == subject = "reminders"
    IN  /\ WF_vars(running /\ \E r \in Replicas : StartPass(r))
        /\ SF_vars(running /\ \E r \in Replicas : LockSessions(r))
        /\ \A n \in 1 .. Cardinality(SessionIds) :
               SF_vars(running /\ \E r \in Replicas, x \in SessionIds :
                           Cardinality(pass[r].todo) = n /\ EnqueueReminders(r, x))
        /\ SF_vars(running /\ \E r \in Replicas : CommitReminders(r))

\* The clock runs, a replica polls every interval and a pass runs to its end.
DeliveryFairness ==
    LET running == subject = "delivery"
    IN  /\ WF_deliveryVars(running /\ Tick)
        /\ \A w \in Workers :
               /\ WF_deliveryVars(running /\ (ClaimNothing(w) \/ \E o \in Rows : Claim(w, o)))
               /\ WF_deliveryVars(running /\ (GiveUp(w) \/ SendFails(w) \/ Finish(w)))

MCSpec == MCInit /\ [][MCNext]_allVars /\ RemindersFairness /\ DeliveryFairness

-----------------------------------------------------------------------------
\* Every family whose child is a member of a session in the reminder window is
\* told of that session while it is: by a reminder, or by the notice of the move
\* that made it, although replicas stop, lose their transaction and skip each
\* other's locked sessions.  The exception is a child that was no member when the
\* session was moved, after the reminder of the session it replaces.
FamiliesAreTold == []<>(subject = "reminders" => Waiting = {})

=============================================================================
