------------------------------ MODULE Sessions ------------------------------
(***************************************************************************)
(* The meetings of one class: its weekly schedules, the worker that keeps  *)
(* their sessions generated through a rolling horizon, and the operations  *)
(* that move, substitute, cancel and delete them.                          *)
(*                                                                         *)
(* A date is the number of days since an arbitrary Monday that starts a    *)
(* month; months and weeks have constant lengths.  A permanent change, a   *)
(* deletion and the generation of one schedule each lock the schedule row  *)
(* for their whole transaction, so each is one step.  An edit of a single  *)
(* session and an attendance record read without a lock and write later:   *)
(* two steps.  So does the deletion of the class, which decides on a       *)
(* snapshot, and the creation of a schedule, which reads the class first.  *)
(***************************************************************************)
EXTENDS Integers, FiniteSets

CONSTANTS
    Schedules,      \* ids of schedule rows; the worker visits them in order
    Editors,        \* requests that edit one session; ids of replacements too
    Replicas,       \* instances of the generation worker
    Tutors,
    MonthLength, WeekLength,
    HorizonMonths,  \* months generated after the current one
    LastDay,        \* bound: the calendar stops here
    MaxRequests,    \* bound: requests of the tenant in a behaviour
    InitSched,      \* the schedules at the start
    Offers,         \* the new schedules and
    Changes,        \* the permanent changes a run enumerates
    Null

NoDate == -1

endOfMonth(d) == (d \div MonthLength + 1) * MonthLength - 1
startOfMonth(d) == (d \div MonthLength) * MonthLength
horizonEnd(d) == endOfMonth(startOfMonth(d) + HorizonMonths * MonthLength)
getISOWeekday(d) == d % WeekLength

\* No date the code can write lies behind the horizon of the last day.
LastDate == horizonEnd(LastDay)
Days == 0 .. LastDate

\* Dates the requests name.
RequestDates == 1 .. LastDay
Weekdays == 0 .. WeekLength - 1

\* Generated rows are named by the schedule and date they were made for.
SessionIds == (Schedules \X Days) \cup Editors

Schedule == [state : {"unused", "live", "deleted"}, dow : Weekdays,
             from : Days, until : Days \cup {NoDate},
             gen : Days \cup {NoDate}, tutor : Tutors \cup {Null}]

Session == [status : {"none", "scheduled", "rescheduled", "cancelled"},
            deleted : BOOLEAN, sched : Schedules \cup {Null},
            date : Days \cup {NoDate}, tutor : Tutors \cup {Null},
            origin : SessionIds \cup {Null}]

NoSession == [status |-> "none", deleted |-> FALSE, sched |-> Null,
              date |-> NoDate, tutor |-> Null, origin |-> Null]

Pass == [start : Days, end : Days, cursor : Schedules \cup {0}]
NoPass == [start |-> 0, end |-> 0, cursor |-> 0]

Edit == [kind : {"idle", "reschedule", "substitute", "done"},
         id : SessionIds \cup {Null}, row : Session]
NoEdit == [kind |-> "idle", id |-> Null, row |-> NoSession]

ASSUME SessionConstants ==
    /\ Schedules \subseteq Nat \ {0}
    /\ Null \notin Schedules \cup Editors \cup Tutors \cup Replicas
    /\ Editors \cap (Schedules \X Days) = {} /\ Null \notin Schedules \X Days
    /\ MonthLength \in Nat \ {0} /\ WeekLength \in Nat \ {0}
    /\ HorizonMonths \in Nat \ {0} /\ LastDay \in Nat \ {0}
    /\ MaxRequests \in Nat
    /\ InitSched \in [Schedules -> Schedule]
    /\ Offers \subseteq [dow : Weekdays, from : RequestDates, tutor : Tutors \cup {Null},
                         until : RequestDates \cup {NoDate}]
    /\ Changes \subseteq [dow : Weekdays, from : RequestDates,
                          tutor : Tutors \cup {Null}]
    /\ \A s \in Schedules :
           InitSched[s].state # "deleted" /\ InitSched[s].gen = NoDate

VARIABLES
    today,      \* the date in Asia/Jakarta
    type,       \* classes.type; a private class serves one enrollment
    class,      \* "live" or "deleted"
    enrolled,   \* status of the private class's enrollment
    sched,      \* table class_schedules
    ses,        \* table class_sessions
    pass,       \* the running pass of every replica: its window and cursor
    edit,       \* the session row every editor has read
    creating,   \* a request to add a schedule has found the class
    doomed,     \* the schedules a class deletion has selected, or Null
    marking,    \* the session an attendance request has accepted, or Null
    marked,     \* sessions with attendance
    left,       \* the requests the tenant may still make
    edited,     \* history: rows an editor has saved
    inherits    \* history: the schedules whose generated range a schedule took

\* A tenant's request arrives; MaxRequests bounds how many do.
Request == left > 0 /\ left' = left - 1

Private == type = "private"

requests == <<edit, creating, doomed, marking>>
history == <<edited, inherits>>
vars == <<today, type, class, enrolled, sched, ses, pass, requests, marked, left,
          history>>

-----------------------------------------------------------------------------
(* Queries and bulk writes of the repositories. *)

\* A process whose zone is behind Asia/Jakarta may still be on the day before.
ProcessToday == {today, today - 1}

Ends(row, d) == row.until = NoDate \/ d <= row.until

sessionsForScheduleBetween(row, from, to) ==
    {d \in from .. to : /\ row.from <= d /\ Ends(row, d)
                        /\ getISOWeekday(d) = row.dow}

\* uq_class_sessions_schedule_date counts soft-deleted and cancelled rows too.
Taken(table, s, d) ==
    \E id \in SessionIds : table[id].sched = s /\ table[id].date = d

\* table with the missing sessions of schedule s (as row describes it) on days.
InsertSessions(table, s, row, days) ==
    [id \in SessionIds |->
        IF id \in {s} \X days /\ ~Taken(table, s, id[2])
        THEN [status |-> "scheduled", deleted |-> FALSE, sched |-> s,
              date |-> id[2], tutor |-> row.tutor, origin |-> Null]
        ELSE table[id]]

\* The rows the bulk writes select.
FutureSessions(s, from) ==
    {id \in SessionIds : /\ ses[id].status = "scheduled" /\ ~ses[id].deleted
                         /\ ses[id].sched = s /\ ses[id].date >= from}

\* Mutant: the bulk write spares the sessions of the effective date itself.
CancelFutureSessionsBySchedule_Late(s, from) ==
    [id \in SessionIds |-> IF id \in FutureSessions(s, from + 1)
                           THEN [ses[id] EXCEPT !.status = "cancelled"]
                           ELSE ses[id]]

CancelFutureSessionsBySchedule(s, from) ==
    [id \in SessionIds |-> IF id \in FutureSessions(s, from)
                           THEN [ses[id] EXCEPT !.status = "cancelled"]
                           ELSE ses[id]]

\* Mutant: the sessions move to the successor and keep their tutor.
UpdateFutureSessionsTutor_Kept(s, tutor, next, from) ==
    [id \in SessionIds |-> IF id \in FutureSessions(s, from)
                           THEN [ses[id] EXCEPT !.sched = next] ELSE ses[id]]

UpdateFutureSessionsTutor(s, tutor, next, from) ==
    [id \in SessionIds |->
        IF id \in FutureSessions(s, from)
        THEN [ses[id] EXCEPT !.tutor = tutor, !.sched = next]
        ELSE ses[id]]

Exists(id) == ses[id].status # "none" /\ ~ses[id].deleted

Unused == {s \in Schedules : sched[s].state = "unused"}
Live(s) == sched[s].state = "live"

-----------------------------------------------------------------------------
Init ==
    /\ today = 1 /\ type \in {"group", "private"} /\ class = "live" /\ enrolled = "live"
    /\ sched = InitSched
    /\ ses = [id \in SessionIds |-> NoSession]
    /\ pass = [r \in Replicas |-> NoPass]
    /\ edit = [e \in Editors |-> NoEdit]
    /\ creating = FALSE /\ doomed = Null
    /\ marking = Null /\ marked = {}
    /\ left = MaxRequests /\ edited = {} /\ inherits = [s \in Schedules |-> {}]

Midnight ==
    /\ today < LastDay
    /\ today' = today + 1
    /\ UNCHANGED <<type, class, enrolled, sched, ses, pass, requests, marked, left,
                   history>>

\* The private enrollment is suspended, resumed or dropped (module Enrollment).
EnrollmentMoves ==
    /\ Private
    /\ \/ enrolled = "live" /\ enrolled' \in {"suspended", "dropped"}
       \/ enrolled = "suspended" /\ enrolled' \in {"live", "dropped"}
    /\ UNCHANGED <<today, type, class, sched, ses, pass, requests, marked, left,
                   history>>

-----------------------------------------------------------------------------
(* The session generation worker. *)

\* window: computed once, at the start of a pass.
StartPass(r) ==
    /\ pass[r] = NoPass
    /\ \E t \in ProcessToday :
           pass' = [pass EXCEPT ![r] = [start |-> startOfMonth(t),
                                        end |-> horizonEnd(t), cursor |-> 0]]
    /\ UNCHANGED <<today, type, class, enrolled, sched, ses, requests, marked, left, history>>

\* The WHERE clause of LockNextScheduleDueForGeneration.
Due(s, end) ==
    /\ Live(s) /\ class = "live"
    /\ Private => enrolled = "live"
    /\ sched[s].gen = NoDate \/ sched[s].gen < end
    /\ sched[s].until = NoDate \/ sched[s].gen = NoDate
           \/ sched[s].until > sched[s].gen

\* Mutant: schedules from before the watermark column are not found.
NextDue_NoLegacy(r) ==
    {s \in Schedules : /\ s > pass[r].cursor /\ Due(s, pass[r].end)
                       /\ sched[s].gen # NoDate}

\* A schedule another transaction holds is skipped, so any due one may be next.
NextDue(r) == {s \in Schedules : s > pass[r].cursor /\ Due(s, pass[r].end)}

\* Mutant: the day after the watermark is taken for generated.
FirstMissing_SkipDay(row, start) == IF row.gen + 2 > start THEN row.gen + 2 ELSE start

FirstMissing(row, start) == IF row.gen + 1 > start THEN row.gen + 1 ELSE start

GenerateSessions(r, s) ==
    /\ pass[r] # NoPass /\ s \in NextDue(r)
    /\ LET days == sessionsForScheduleBetween(
                       sched[s], FirstMissing(sched[s], pass[r].start), pass[r].end)
       IN  ses' = InsertSessions(ses, s, sched[s], days)
    /\ sched' = [sched EXCEPT ![s].gen = pass[r].end]
    /\ pass' = [pass EXCEPT ![r].cursor = s]
    /\ UNCHANGED <<today, type, class, enrolled, requests, marked, left, history>>

\* The transaction of one schedule fails: the pass moves on, it stays due.
GenerationFails(r, s) ==
    /\ pass[r] # NoPass /\ s \in NextDue(r)
    /\ pass' = [pass EXCEPT ![r].cursor = s]
    /\ UNCHANGED <<today, type, class, enrolled, sched, ses, requests, marked, left, history>>

\* Nothing is left to lock, the lookup fails, or the process stops.
EndPass(r) ==
    /\ pass[r] # NoPass
    /\ pass' = [pass EXCEPT ![r] = NoPass]
    /\ UNCHANGED <<today, type, class, enrolled, sched, ses, requests, marked, left, history>>

-----------------------------------------------------------------------------
(* Schedules. *)

\* CreateInitialSchedules reads the class before its transaction.
FindClass ==
    /\ Request /\ class = "live" /\ ~creating
    /\ creating' = TRUE
    /\ UNCHANGED <<today, type, class, enrolled, sched, ses, pass, edit, doomed,
                   marking, marked, history>>

CreateInitialSchedules(s, item) ==
    /\ creating
    /\ creating' = FALSE
    /\ s \in Unused
    /\ Ends(item, item.from)
    /\ LET last == endOfMonth(item.from)
           row == [state |-> "live", dow |-> item.dow, from |-> item.from,
                   until |-> item.until, gen |-> last, tutor |-> item.tutor]
       IN  /\ sched' = [sched EXCEPT ![s] = row]
           /\ ses' = InsertSessions(ses, s, row,
                         sessionsForScheduleBetween(row, item.from, last))
    /\ UNCHANGED <<today, type, class, enrolled, pass, edit, doomed, marking, marked,
                   left, history>>

validateReplacementDate(row, eff) == row.from <= eff /\ Ends(row, eff)

\* No attendance on the sessions the change would cancel.  (Seats are the
\* subject of Enrollment.)
ValidateChange(s, eff) ==
    /\ eff >= today
    /\ \A id \in marked : ~(/\ Exists(id) /\ ses[id].sched = s
                            /\ ses[id].date >= eff)

\* Ends s the day before eff and starts its successor n with the given row.
Succeed(s, n, eff, row) ==
    sched' = [sched EXCEPT ![s].until = eff - 1, ![n] = row]

ChangeSchedulePermanent(s, n, req) ==
    /\ Request /\ Live(s) /\ n \in Unused
    /\ validateReplacementDate(sched[s], req.from)
    /\ ValidateChange(s, req.from)
    /\ LET last == endOfMonth(req.from)
           row == [sched[s] EXCEPT !.dow = req.dow, !.from = req.from,
                                   !.gen = last, !.tutor = req.tutor]
       IN  /\ Succeed(s, n, req.from, row)
           /\ ses' = InsertSessions(CancelFutureSessionsBySchedule(s, req.from),
                         n, row, sessionsForScheduleBetween(row, req.from, last))
    /\ UNCHANGED <<today, type, class, enrolled, pass, requests, marked, history>>

\* Mutant: the new schedule starts without a generated range.
InheritedRange_None(row) == NoDate

InheritedRange(row) == row.gen

ChangeTutorPermanent(s, n, eff, tutor) ==
    /\ Request /\ Live(s) /\ n \in Unused
    /\ ~(Private /\ sched[s].tutor \in {tutor, Null})
    /\ validateReplacementDate(sched[s], eff)
    /\ Succeed(s, n, eff, [sched[s] EXCEPT !.from = eff, !.tutor = tutor,
                                           !.gen = InheritedRange(sched[s])])
    /\ ses' = UpdateFutureSessionsTutor(s, tutor, n, eff)
    /\ inherits' = [inherits EXCEPT ![n] = inherits[s] \cup {s}]
    /\ UNCHANGED <<today, type, class, enrolled, pass, requests, marked, edited>>

\* The first tutor of a private schedule is filled in on the row itself.
AssignFirstTutor(s, eff, tutor) ==
    /\ Request /\ Private /\ Live(s) /\ sched[s].tutor = Null
    /\ validateReplacementDate(sched[s], eff)
    /\ sched' = [sched EXCEPT ![s].tutor = tutor]
    /\ ses' = UpdateFutureSessionsTutor(s, tutor, s, eff)
    /\ UNCHANGED <<today, type, class, enrolled, pass, requests, marked, history>>

DeleteSchedule(s) ==
    /\ Request /\ Live(s) /\ ValidateChange(s, today)
    /\ sched' = [sched EXCEPT ![s].state = "deleted"]
    /\ ses' = CancelFutureSessionsBySchedule(s, today)
    /\ UNCHANGED <<today, type, class, enrolled, pass, requests, marked, history>>

\* DeleteClass finds no active enrollment and selects the class's schedules.
DeleteClassStart ==
    /\ Request /\ class = "live" /\ doomed = Null
    /\ doomed' = {s \in Schedules : Live(s)}
    /\ UNCHANGED <<today, type, class, enrolled, sched, ses, pass, edit, creating,
                   marking, marked, history>>

\* It deletes the schedules it selected, cancels every future session of the
\* class and deletes the class.
DeleteClassCommit ==
    /\ class = "live" /\ doomed # Null
    /\ sched' = [s \in Schedules |-> IF s \in doomed
                    THEN [sched[s] EXCEPT !.state = "deleted"] ELSE sched[s]]
    /\ \E t \in ProcessToday :
           ses' = [id \in SessionIds |->
               IF /\ Exists(id) /\ ses[id].status = "scheduled"
                  /\ ses[id].date >= t
               THEN [ses[id] EXCEPT !.status = "cancelled"] ELSE ses[id]]
    /\ class' = "deleted" /\ doomed' = Null
    /\ UNCHANGED <<today, type, enrolled, pass, edit, creating, marking, marked, left,
                   history>>

-----------------------------------------------------------------------------
(* Single sessions. *)

DeleteSession(id) ==
    /\ Request /\ Exists(id)
    /\ ses' = [ses EXCEPT ![id].deleted = TRUE]
    /\ UNCHANGED <<today, type, class, enrolled, sched, pass, requests, marked, history>>

\* GetByIDForTenant: no lock, any status.
ReadSession(e, id, kind) ==
    /\ Request /\ edit[e] = NoEdit /\ Exists(id)
    /\ edit' = [edit EXCEPT ![e] = [kind |-> kind, id |-> id, row |-> ses[id]]]
    /\ UNCHANGED <<today, type, class, enrolled, sched, ses, pass, creating, doomed,
                   marking, marked, history>>

\* Save writes every column of the row as it was read and changed in memory.  A
\* row soft-deleted meanwhile is not found by the UPDATE, and the upsert that
\* follows brings it back.  The unique index may refuse the write.
Save(id, row) ==
    /\ \A other \in SessionIds \ {id} :
           row.sched # Null => ~(/\ ses[other].sched = row.sched
                                 /\ ses[other].date = row.date)
    /\ edited' = edited \cup {id}

RescheduleSession(e, d) ==
    /\ edit[e].kind = "reschedule"
    /\ LET row == [edit[e].row EXCEPT !.status = "rescheduled"]
       IN  /\ Save(edit[e].id, row)
           /\ ses' = [ses EXCEPT ![edit[e].id] = row,
                                 ![e] = [row EXCEPT !.status = "scheduled",
                                             !.sched = Null, !.date = d,
                                             !.origin = edit[e].id]]
    /\ edit' = [edit EXCEPT ![e] = [NoEdit EXCEPT !.kind = "done"]]
    /\ UNCHANGED <<today, type, class, enrolled, sched, pass, creating, doomed,
                   marking, marked, left, inherits>>

ChangeTutorTemporary(e, tutor) ==
    /\ edit[e].kind = "substitute"
    /\ LET row == [edit[e].row EXCEPT !.tutor = tutor]
       IN  Save(edit[e].id, row) /\ ses' = [ses EXCEPT ![edit[e].id] = row]
    /\ edit' = [edit EXCEPT ![e] = [NoEdit EXCEPT !.kind = "done"]]
    /\ UNCHANGED <<today, type, class, enrolled, sched, pass, creating, doomed,
                   marking, marked, left, inherits>>

\* Attendance of a session of any date, addressed by its id: a cancelled one is refused.
AcceptAttendance(id) ==
    /\ marking = Null /\ Exists(id) /\ id \notin marked
    /\ ses[id].status # "cancelled"
    /\ marking' = id
    /\ UNCHANGED <<today, type, class, enrolled, sched, ses, pass, edit, creating,
                   doomed, marked, left, history>>

\* The row is inserted; its foreign key needs the session row and nothing else.
RecordAttendance ==
    /\ marking # Null
    /\ marked' = marked \cup {marking} /\ marking' = Null
    /\ UNCHANGED <<today, type, class, enrolled, sched, ses, pass, edit, creating,
                   doomed, left, history>>

-----------------------------------------------------------------------------
Next ==
    \/ Midnight \/ EnrollmentMoves
    \/ FindClass \/ DeleteClassStart \/ DeleteClassCommit \/ RecordAttendance
    \/ \E r \in Replicas : StartPass(r) \/ EndPass(r)
    \/ \E r \in Replicas, s \in Schedules :
           GenerateSessions(r, s) \/ GenerationFails(r, s)
    \/ \E s \in Schedules : DeleteSchedule(s)
    \/ \E s \in Schedules, item \in Offers : CreateInitialSchedules(s, item)
    \/ \E s, n \in Schedules, req \in Changes : ChangeSchedulePermanent(s, n, req)
    \/ \E s, n \in Schedules, eff \in RequestDates, tutor \in Tutors :
           ChangeTutorPermanent(s, n, eff, tutor)
    \/ \E s \in Schedules, eff \in RequestDates, tutor \in Tutors :
           AssignFirstTutor(s, eff, tutor)
    \/ \E id \in SessionIds : DeleteSession(id) \/ AcceptAttendance(id)
    \/ \E e \in Editors, id \in SessionIds, kind \in {"reschedule", "substitute"} :
           ReadSession(e, id, kind)
    \/ \E e \in Editors, d \in RequestDates : RescheduleSession(e, d)
    \/ \E e \in Editors, tutor \in Tutors : ChangeTutorTemporary(e, tutor)

Spec == Init /\ [][Next]_vars

\* A replica that runs starts a pass every interval and leaves its loop; a
\* schedule whose transaction can succeed again and again is generated.
Runs(r) ==
    /\ WF_vars(StartPass(r)) /\ WF_vars(EndPass(r))
    /\ \A s \in Schedules : SF_vars(GenerateSessions(r, s))

\* The clock runs, and so does some replica; the others may stop for good.
Fairness == WF_vars(Midnight) /\ \E r \in Replicas : Runs(r)

FairSpec == Spec /\ Fairness

-----------------------------------------------------------------------------
(* Properties. *)

TypeOK ==
    /\ today \in 1 .. LastDay /\ type \in {"group", "private"}
    /\ class \in {"live", "deleted"}
    /\ enrolled \in {"live", "suspended", "dropped"}
    /\ sched \in [Schedules -> Schedule]
    /\ ses \in [SessionIds -> Session]
    /\ pass \in [Replicas -> Pass] /\ edit \in [Editors -> Edit]
    /\ creating \in BOOLEAN /\ doomed \in (SUBSET Schedules) \cup {Null}
    /\ marking \in SessionIds \cup {Null} /\ marked \subseteq SessionIds
    /\ left \in 0 .. MaxRequests
    /\ edited \subseteq SessionIds /\ inherits \in [Schedules -> SUBSET Schedules]

\* "Generation only ever creates sessions after" the watermark
\* (sessions_generated_until), so no date may be left behind it: on every
\* meeting day of a schedule, from today through the watermark, a session was
\* generated for the schedule or for one whose range it inherited.
NoMissingSession ==
    \A s \in Schedules, d \in today .. LastDate :
        /\ Live(s) /\ d <= sched[s].gen
        /\ d \in sessionsForScheduleBetween(sched[s], d, d)
        => \E o \in inherits[s] \cup {s} : ses[<<o, d>>].status # "none"

\* A date generated once, and then deleted, cancelled or moved by the tenant, is
\* not generated again: not by a repeated pass, and not for the schedule that a
\* permanent tutor change put in the place of the old one.
NeverGeneratedTwice ==
    \A n \in Schedules, d \in Days :
        ses[<<n, d>>].status # "none" =>
            \A o \in inherits[n] : ses[<<o, d>>].status = "none"

\* A session that is still to be held, and that no one edited by hand, lies in
\* the validity of its schedule, which is not deleted if the session is ahead:
\* permanent changes and deletions leave no session behind, whatever the
\* generation worker does at the same time.
SessionsFollowSchedule ==
    \A id \in (Schedules \X Days) \ edited :
        LET row == ses[id] IN
        row.status = "scheduled" /\ ~row.deleted =>
            /\ sched[row.sched].state = "deleted" => row.date < today
            /\ validateReplacementDate(sched[row.sched], row.date)

\* Nor does it have another tutor than its schedule, unless the schedule got its
\* first tutor only after that date.
SessionsHaveTutor ==
    \A id \in (Schedules \X Days) \ edited :
        LET row == ses[id] IN
        row.status = "scheduled" /\ ~row.deleted =>
            row.tutor = sched[row.sched].tutor \/ row.tutor = Null

\* Every schedule the worker should serve is, again and again, generated through
\* the horizon, whatever passes fail, stop or are overtaken by changes.  (The
\* horizon of the day before the last: a process behind Asia/Jakarta never sees
\* the calendar's last day.)
GenerationCatchesUp ==
    \A s \in Schedules : []<>~Due(s, horizonEnd(LastDay - 1))

-----------------------------------------------------------------------------
(* The inductive invariant behind the safety properties. *)

\* A session was generated for the schedule and date.
Made(s, d) == ses[<<s, d>>].status # "none"

\* A row generated for one schedule belongs to it or to one that took its range
\* over, and keeps its date; a replacement has no schedule.
Placed(id, row) ==
    IF id \in Editors THEN row.sched = Null
    ELSE /\ row.sched \in Schedules /\ sched[row.sched].state # "unused"
         /\ row.date = id[2] /\ id[1] \in inherits[row.sched] \cup {row.sched}

RowsPlaced ==
    \A id \in SessionIds : IF ses[id].status = "none" THEN ses[id].sched = Null
                           ELSE Placed(id, ses[id])

\* So was the row an editor has read, however old its copy is.
Editing(e) == edit[e].kind \in {"reschedule", "substitute"}

EditsPlaced ==
    \A e \in Editors : Editing(e) =>
        /\ edit[e].id \in SessionIds /\ ses[edit[e].id].status # "none"
        /\ edit[e].row.status # "none" /\ Placed(edit[e].id, edit[e].row)

\* Nothing was generated before a schedule starts or after its watermark.
WithinRange ==
    \A s \in Schedules, d \in Days : Made(s, d) =>
        sched[s].state # "unused" /\ sched[s].from <= d /\ d <= sched[s].gen

\* A schedule starts after the end of those whose range it took, and its
\* watermark covers what they had generated from there on.
Lineage ==
    \A n \in Schedules : \A o \in inherits[n] :
        /\ sched[n].state # "unused" /\ sched[o].state # "unused"
        /\ sched[o].until # NoDate /\ sched[o].until < sched[n].from
        /\ \A d \in Days : Made(o, d) => d < sched[n].from \/ d <= sched[n].gen

\* No pass starts its window in the future.
WindowsOpen == \A r \in Replicas : pass[r].start <= today

SessionsInvariant ==
    /\ TypeOK /\ RowsPlaced /\ EditsPlaced /\ WithinRange /\ Lineage /\ WindowsOpen
    /\ NoMissingSession /\ NeverGeneratedTwice
    /\ SessionsFollowSchedule /\ SessionsHaveTutor

=============================================================================
