--------------------------- MODULE SessionsProofs ---------------------------
(***************************************************************************)
(* Proofs about Sessions for any number of schedules, sessions, requests   *)
(* and generation workers, and for months and weeks of any length.         *)
(***************************************************************************)
EXTENDS Sessions, TLAPS

(* The calendar. *)

\* A date lies in the month that starts with startOfMonth.
LEMMA Months ==
  ASSUME NEW d \in Nat
  PROVE  /\ startOfMonth(d) \in Nat /\ startOfMonth(d) <= d
         /\ endOfMonth(d) = startOfMonth(d) + MonthLength - 1 /\ d <= endOfMonth(d)
         /\ endOfMonth(d) \in Nat
  <1> DEFINE q == d \div MonthLength
             M == MonthLength
  <1>1. M \in Nat \ {0}
    BY SessionConstants
  <1>2. q \in Nat /\ q * M <= d /\ d < q * M + M
    BY <1>1
  <1>3. (q + 1) * M = q * M + M
    BY <1>1, <1>2
  <1>4. q * M \in Nat
    BY <1>1, <1>2
  <1> HIDE DEF q
  <1> QED BY <1>1, <1>2, <1>3, <1>4 DEF startOfMonth, endOfMonth, q

\* A later date does not lie in an earlier month.
LEMMA MonthsOrdered ==
  ASSUME NEW a \in Nat, NEW b \in Nat, a <= b
  PROVE  startOfMonth(a) <= startOfMonth(b) /\ endOfMonth(a) <= endOfMonth(b)
  <1> DEFINE p == a \div MonthLength
             q == b \div MonthLength
             M == MonthLength
  <1>1. M \in Nat \ {0}
    BY SessionConstants
  <1>2. p \in Nat /\ p * M <= a /\ q \in Nat /\ b < q * M + M
    BY <1>1
  <1> HIDE DEF p, q
  <1>3. p <= q
    <2> SUFFICES ASSUME p >= q + 1 PROVE FALSE
      BY <1>2
    <2>1. p * M >= (q + 1) * M
      BY <1>1, <1>2
    <2>2. (q + 1) * M = q * M + M
      BY <1>1, <1>2
    <2>3. q * M \in Nat /\ p * M \in Nat
      BY <1>1, <1>2
    <2> QED BY <1>1, <1>2, <2>1, <2>2, <2>3
  <1>4. p * M <= q * M
    BY <1>1, <1>2, <1>3
  <1>5. startOfMonth(a) <= startOfMonth(b)
    BY <1>4 DEF startOfMonth, p, q
  <1> QED BY <1>1, <1>5, Months

\* The horizon of every day of the calendar is a date of the model.
LEMMA Horizon ==
  ASSUME NEW t \in 0 .. LastDay
  PROVE  /\ horizonEnd(t) \in Days /\ startOfMonth(t) \in Days /\ endOfMonth(t) \in Days
         /\ t \in Days /\ LastDate \in Nat
  <1> DEFINE h == HorizonMonths * MonthLength
  <1>1. h \in Nat /\ LastDay \in Nat /\ t \in Nat
    BY SessionConstants
  <1> HIDE DEF h
  <1>2. /\ startOfMonth(t) \in Nat /\ startOfMonth(LastDay) \in Nat
        /\ startOfMonth(t) <= startOfMonth(LastDay)
    BY <1>1, Months, MonthsOrdered
  <1>3. endOfMonth(startOfMonth(t) + h) <= endOfMonth(startOfMonth(LastDay) + h)
    BY <1>1, <1>2, MonthsOrdered
  <1>4. horizonEnd(t) = endOfMonth(startOfMonth(t) + h) /\ horizonEnd(t) \in Nat
    BY <1>1, <1>2, Months DEF horizonEnd, h
  <1>5. LastDate = endOfMonth(startOfMonth(LastDay) + h) /\ LastDate \in Nat
    BY <1>1, <1>2, Months DEF horizonEnd, h, LastDate
  <1>6. endOfMonth(startOfMonth(t)) = endOfMonth(t)
    <2> DEFINE q == t \div MonthLength
    <2>1. q \in Nat /\ MonthLength \in Nat \ {0}
      BY <1>1, SessionConstants
    <2>2. (q * MonthLength) \div MonthLength = q
      BY <2>1
    <2> QED BY <2>2 DEF endOfMonth, startOfMonth
  <1>7. endOfMonth(t) <= horizonEnd(t)
    BY <1>1, <1>2, <1>4, <1>6, MonthsOrdered
  <1>8. t <= endOfMonth(t) /\ endOfMonth(t) \in Nat /\ startOfMonth(t) <= t
    BY <1>1, Months
  <1> QED BY <1>1, <1>2, <1>3, <1>4, <1>5, <1>7, <1>8 DEF Days

-----------------------------------------------------------------------------
(* The rows. *)

\* Ids of generated rows are pairs, and no ids of replacements.
LEMMA Ids ==
  /\ \A s \in Schedules, d \in Days : <<s, d>> \in SessionIds /\ <<s, d>> \notin Editors
  /\ \A id \in SessionIds \ Editors :
        id = <<id[1], id[2]>> /\ id[1] \in Schedules /\ id[2] \in Days
  /\ \A id \in Schedules \X Days : id \in SessionIds /\ id \notin Editors
  /\ Null \notin SessionIds /\ Null \notin Schedules /\ Editors \subseteq SessionIds
  <1>1. \A s \in Schedules, d \in Days : <<s, d>> \in SessionIds /\ <<s, d>> \notin Editors
    BY SessionConstants DEF SessionIds
  <1>2. \A id \in SessionIds \ Editors :
           id = <<id[1], id[2]>> /\ id[1] \in Schedules /\ id[2] \in Days
    BY DEF SessionIds
  <1>3. \A id \in Schedules \X Days : id \in SessionIds /\ id \notin Editors
    BY SessionConstants DEF SessionIds
  <1>4. Null \notin SessionIds /\ Null \notin Schedules /\ Editors \subseteq SessionIds
    BY SessionConstants DEF SessionIds
  <1> QED BY <1>1, <1>2, <1>3, <1>4

\* Generation adds scheduled sessions on free dates and touches nothing else.
LEMMA Inserted ==
  ASSUME NEW table \in [SessionIds -> Session], NEW s \in Schedules, NEW row \in Schedule,
         NEW days \in SUBSET Days, NEW t, t = InsertSessions(table, s, row, days)
  PROVE  /\ t \in [SessionIds -> Session]
         /\ \A id \in SessionIds :
               \/ t[id] = table[id] /\ (id \notin {s} \X days \/ Taken(table, s, id[2]))
               \/ /\ id \in {s} \X days /\ id \in Schedules \X Days /\ id \notin Editors
                  /\ id[1] = s /\ id[2] \in days
                  /\ t[id].status = "scheduled" /\ t[id].sched = s
                  /\ t[id].date = id[2] /\ t[id].tutor = row.tutor /\ ~t[id].deleted
  <1>1. t = [id \in SessionIds |->
               IF id \in {s} \X days /\ ~Taken(table, s, id[2])
               THEN [status |-> "scheduled", deleted |-> FALSE, sched |-> s,
                     date |-> id[2], tutor |-> row.tutor, origin |-> Null]
               ELSE table[id]]
    BY DEF InsertSessions
  <1>2. ASSUME NEW id \in SessionIds, id \in {s} \X days, ~Taken(table, s, id[2])
        PROVE  /\ t[id] \in Session /\ id \in Schedules \X Days /\ id \notin Editors
               /\ id[1] = s /\ id[2] \in days
               /\ t[id].status = "scheduled" /\ t[id].sched = s
               /\ t[id].date = id[2] /\ t[id].tutor = row.tutor /\ ~t[id].deleted
    <2> DEFINE d == id[2]
               u == row.tutor
    <2>1. d \in days /\ d \in Days /\ u \in Tutors \cup {Null} /\ id[1] = s
      BY <1>2 DEF Schedule
    <2>2. t[id] = [status |-> "scheduled", deleted |-> FALSE, sched |-> s,
                   date |-> d, tutor |-> u, origin |-> Null]
      BY <1>1, <1>2
    <2>3. id \in Schedules \X Days /\ id \notin Editors
      BY <1>2, Ids
    <2> HIDE DEF d, u
    <2>4. /\ t[id] \in Session /\ t[id].status = "scheduled" /\ t[id].sched = s
          /\ t[id].date = d /\ t[id].tutor = u /\ ~t[id].deleted
      BY <2>1, <2>2 DEF Session
    <2> QED BY <2>1, <2>3, <2>4 DEF d, u
  <1>3. ASSUME NEW id \in SessionIds, id \notin {s} \X days \/ Taken(table, s, id[2])
        PROVE  t[id] = table[id]
    BY <1>1, <1>3
  <1>4. t \in [SessionIds -> Session]
    <2>1. \A id \in SessionIds : t[id] \in Session
      BY <1>2, <1>3
    <2> QED BY <1>1, <2>1
  <1> QED BY <1>2, <1>3, <1>4

\* A table in which the rows of S have changed their status to cancelled.
Cancels(t, S) ==
  /\ t \in [SessionIds -> Session]
  /\ \A id \in SessionIds :
        IF id \in S
        THEN /\ t[id].status = "cancelled" /\ t[id].deleted = ses[id].deleted
             /\ t[id].sched = ses[id].sched /\ t[id].date = ses[id].date
             /\ t[id].tutor = ses[id].tutor
        ELSE t[id] = ses[id]

\* Cancelling changes nothing but the status.
LEMMA Cancelled ==
  ASSUME ses \in [SessionIds -> Session], NEW S,
         NEW t, t = [id \in SessionIds |-> IF id \in S THEN [ses[id] EXCEPT !.status = "cancelled"]
                                           ELSE ses[id]]
  PROVE  Cancels(t, S)
  <1>1. ASSUME NEW id \in SessionIds, id \in S
        PROVE  /\ t[id] \in Session /\ t[id].status = "cancelled" /\ t[id].deleted = ses[id].deleted
               /\ t[id].sched = ses[id].sched /\ t[id].date = ses[id].date
               /\ t[id].tutor = ses[id].tutor
    <2>1. ses[id] \in Session /\ t[id] = [ses[id] EXCEPT !.status = "cancelled"]
      BY <1>1
    <2> QED BY <2>1 DEF Session
  <1>2. \A id \in SessionIds : t[id] \in Session /\ (id \notin S => t[id] = ses[id])
    BY <1>1
  <1> QED BY <1>1, <1>2 DEF Cancels

\* Moving sessions to a schedule and its tutor changes nothing else.
LEMMA TutorUpdated ==
  ASSUME ses \in [SessionIds -> Session], NEW s \in Schedules, NEW n \in Schedules,
         NEW tutor \in Tutors, NEW from \in Int,
         NEW t, t = UpdateFutureSessionsTutor(s, tutor, n, from)
  PROVE  /\ t \in [SessionIds -> Session]
         /\ \A id \in SessionIds :
               IF id \in FutureSessions(s, from)
               THEN /\ t[id].status = ses[id].status /\ t[id].deleted = ses[id].deleted
                    /\ t[id].sched = n /\ t[id].date = ses[id].date /\ t[id].tutor = tutor
               ELSE t[id] = ses[id]
  <1>0. t = [id \in SessionIds |-> IF id \in FutureSessions(s, from)
                                   THEN [ses[id] EXCEPT !.tutor = tutor, !.sched = n]
                                   ELSE ses[id]]
    BY DEF UpdateFutureSessionsTutor
  <1>1. ASSUME NEW id \in SessionIds, id \in FutureSessions(s, from)
        PROVE  /\ t[id] \in Session
               /\ t[id].status = ses[id].status /\ t[id].deleted = ses[id].deleted
               /\ t[id].sched = n /\ t[id].date = ses[id].date /\ t[id].tutor = tutor
    <2>1. ses[id] \in Session /\ t[id] = [ses[id] EXCEPT !.tutor = tutor, !.sched = n]
      BY <1>0, <1>1
    <2> QED BY <2>1 DEF Session
  <1>2. \A id \in SessionIds : /\ t[id] \in Session
                               /\ id \notin FutureSessions(s, from) => t[id] = ses[id]
    BY <1>0, <1>1
  <1>3. t \in [SessionIds -> Session]
    BY <1>0, <1>2
  <1> QED BY <1>1, <1>2, <1>3

-----------------------------------------------------------------------------
(* What a step does to schedules and generated sessions. *)

InUse(t) == sched[t].state # "unused"

\* A session appears.
Fresh(s, d) == ses'[<<s, d>>].status # "none" /\ ~Made(s, d)

\* A schedule in use keeps its start and its lineage; its watermark only grows
\* and its end only comes nearer.
Grows(t) ==
  InUse(t) => /\ sched'[t].state # "unused" /\ sched'[t].from = sched[t].from
              /\ sched'[t].gen >= sched[t].gen /\ inherits'[t] = inherits[t]
              /\ \/ sched'[t].until = sched[t].until
                 \/ sched'[t].until # NoDate /\ Ends(sched[t], sched'[t].until)

\* Sessions stay; those that appear lie in the range and beyond the watermark.
Appears(s, d) ==
  /\ Made(s, d) => ses'[<<s, d>>].status # "none"
  /\ Fresh(s, d) => /\ sched'[s].state # "unused"
                    /\ sched'[s].from <= d /\ d <= sched'[s].gen
                    /\ InUse(s) => sched[s].gen < d /\ Ends(sched[s], d)

\* Schedule n takes over from s, at a time when nothing is generated.
Took(n, s) ==
  /\ InUse(s) /\ ~InUse(n) /\ sched'[n].state # "unused"
  /\ inherits'[n] = inherits[s] \cup {s}
  /\ sched'[n].gen = sched[s].gen /\ sched[s].from <= sched'[n].from
  /\ sched'[s].until # NoDate /\ sched'[s].until < sched'[n].from
  /\ \A o \in Schedules, d \in Days : ~Fresh(o, d)

Advances ==
  /\ \A t \in Schedules : Grows(t)
  /\ \A t \in Schedules :
        ~InUse(t) => inherits'[t] = inherits[t] \/ \E s \in Schedules : Took(t, s)
  /\ \A s \in Schedules, d \in Days : Appears(s, d)

\* Dates and watermarks are numbers.
LEMMA Dates ==
  ASSUME NEW f \in [Schedules -> Schedule]
  PROVE  /\ \A t \in Schedules : /\ f[t].from \in Int /\ f[t].until \in Int /\ f[t].gen \in Int
         /\ Days \subseteq Int
  <1>1. LastDate \in Int
    BY Horizon, SessionConstants
  <1>2. Days \subseteq Int /\ NoDate \in Int
    BY <1>1 DEF Days, NoDate
  <1> QED BY <1>2 DEF Schedule

\* Such a step keeps sessions within the range of their schedules.
LEMMA WithinRangeStep ==
  ASSUME TypeOK, TypeOK', WithinRange, Advances
  PROVE  WithinRange'
  <1> SUFFICES ASSUME NEW s \in Schedules, NEW d \in Days, ses'[<<s, d>>].status # "none"
               PROVE  sched'[s].state # "unused" /\ sched'[s].from <= d /\ d <= sched'[s].gen
    BY DEF WithinRange, Made
  <1>0. /\ sched[s].gen \in Int /\ sched'[s].gen \in Int /\ d \in Int
    BY Dates DEF TypeOK
  <1>1. CASE Made(s, d)
    BY <1>0, <1>1 DEF WithinRange, Advances, Grows, InUse
  <1>2. CASE ~Made(s, d)
    BY <1>2 DEF Advances, Appears, Fresh
  <1> QED BY <1>1, <1>2

\* And schedules apart from those whose range they took.
LEMMA LineageStep ==
  ASSUME TypeOK, TypeOK', WithinRange, Lineage, Advances
  PROVE  Lineage'
  <1> SUFFICES ASSUME NEW n \in Schedules, NEW o \in inherits'[n]
               PROVE  /\ sched'[n].state # "unused" /\ sched'[o].state # "unused"
                      /\ sched'[o].until # NoDate /\ sched'[o].until < sched'[n].from
                      /\ \A d \in Days : ses'[<<o, d>>].status # "none" =>
                            d < sched'[n].from \/ d <= sched'[n].gen
    BY DEF Lineage, Made
  <1>0. o \in Schedules
    BY DEF TypeOK
  <1>i. /\ \A t \in Schedules : /\ sched[t].from \in Int /\ sched[t].until \in Int
                                /\ sched[t].gen \in Int
        /\ \A t \in Schedules : /\ sched'[t].from \in Int /\ sched'[t].until \in Int
                                /\ sched'[t].gen \in Int
        /\ Days \subseteq Int
    BY Dates DEF TypeOK
  <1>1. CASE InUse(n)
    <2>1. /\ o \in inherits[n] /\ sched'[n].state # "unused" /\ sched'[n].from = sched[n].from
          /\ sched'[n].gen >= sched[n].gen
      BY <1>1 DEF Advances, Grows
    <2>2. InUse(o) /\ sched[o].until # NoDate /\ sched[o].until < sched[n].from
      BY <2>1 DEF Lineage, InUse
    <2>3. sched'[o].state # "unused" /\ sched'[o].until # NoDate /\ sched'[o].until <= sched[o].until
      BY <1>0, <1>i, <2>2 DEF Advances, Grows, Ends
    <2>4. ASSUME NEW d \in Days, ses'[<<o, d>>].status # "none"
          PROVE  d < sched'[n].from \/ d <= sched'[n].gen
      <3>1. CASE Made(o, d)
        BY <1>i, <2>1, <3>1 DEF Lineage
      <3>2. CASE ~Made(o, d)
        <4>1. Ends(sched[o], d)
          BY <1>0, <2>2, <2>4, <3>2 DEF Advances, Appears, Fresh
        <4> QED BY <1>0, <1>i, <2>1, <2>2, <4>1 DEF Ends
      <3> QED BY <3>1, <3>2
    <2> QED BY <1>0, <1>i, <2>1, <2>2, <2>3, <2>4
  <1>2. CASE ~InUse(n)
    <2>1. PICK s \in Schedules : Took(n, s)
      <3>1. inherits'[n] # inherits[n]
        BY <1>2 DEF Lineage, InUse
      <3> QED BY <1>2, <3>1 DEF Advances
    <2>2. \A x \in Schedules, d \in Days : ses'[<<x, d>>].status # "none" => Made(x, d)
      BY <2>1 DEF Took, Fresh
    <2>3. CASE o = s
      <3>1. sched'[o].state # "unused"
        BY <2>1, <2>3 DEF Took, Advances, Grows
      <3>2. ASSUME NEW d \in Days, ses'[<<o, d>>].status # "none" PROVE d <= sched'[n].gen
        BY <1>0, <2>1, <2>2, <2>3, <3>2 DEF Took, WithinRange
      <3> QED BY <2>1, <2>3, <3>1, <3>2 DEF Took
    <2>4. CASE o \in inherits[s]
      <3>1. InUse(o) /\ sched[o].until # NoDate /\ sched[o].until < sched[s].from
        BY <2>4 DEF Lineage, InUse
      <3>2. /\ sched'[o].state # "unused" /\ sched'[o].until # NoDate
            /\ sched'[o].until <= sched[o].until
        BY <1>0, <1>i, <3>1 DEF Advances, Grows, Ends
      <3>3. sched[s].from <= sched'[n].from /\ sched'[n].gen = sched[s].gen
            /\ sched'[n].state # "unused"
        BY <2>1 DEF Took
      <3>4. ASSUME NEW d \in Days, ses'[<<o, d>>].status # "none"
            PROVE  d < sched'[n].from \/ d <= sched'[n].gen
        <4>1. d < sched[s].from \/ d <= sched[s].gen
          BY <1>0, <2>2, <2>4, <3>4 DEF Lineage
        <4> QED BY <1>i, <3>3, <4>1
      <3> QED BY <1>0, <1>i, <3>1, <3>2, <3>3, <3>4
    <2> QED BY <2>1, <2>3, <2>4 DEF Took
  <1> QED BY <1>1, <1>2

\* No date is generated for a schedule and for one that took its range.
LEMMA NeverTwiceStep ==
  ASSUME TypeOK, TypeOK', WithinRange, Lineage, NeverGeneratedTwice, Advances
  PROVE  NeverGeneratedTwice'
  <1> SUFFICES ASSUME NEW n \in Schedules, NEW d \in Days, ses'[<<n, d>>].status # "none",
                      NEW o \in inherits'[n], ses'[<<o, d>>].status # "none"
               PROVE  FALSE
    BY DEF NeverGeneratedTwice
  <1>0. o \in Schedules
    BY DEF TypeOK
  <1>i. /\ \A t \in Schedules : /\ sched[t].from \in Int /\ sched[t].until \in Int
                                /\ sched[t].gen \in Int
        /\ d \in Int
    BY Dates DEF TypeOK
  <1>1. CASE InUse(n)
    <2>1. o \in inherits[n] /\ sched'[n].from = sched[n].from
      BY <1>1 DEF Advances, Grows
    <2>2. InUse(o) /\ sched[o].until # NoDate /\ sched[o].until < sched[n].from
      BY <2>1 DEF Lineage, InUse
    <2>3. sched[n].from <= d
      BY <1>1, <2>1 DEF Advances, Appears, Fresh, WithinRange
    <2>4. Made(o, d)
      <3> SUFFICES ASSUME ~Made(o, d) PROVE FALSE
        OBVIOUS
      <3>1. Ends(sched[o], d)
        BY <1>0, <2>2 DEF Advances, Appears, Fresh
      <3> QED BY <1>0, <1>i, <2>2, <2>3, <3>1 DEF Ends
    <2>5. Made(n, d)
      <3> SUFFICES ASSUME ~Made(n, d) PROVE FALSE
        OBVIOUS
      <3>1. sched[n].gen < d
        BY <1>1 DEF Advances, Appears, Fresh
      <3>2. d < sched[n].from \/ d <= sched[n].gen
        BY <2>1, <2>4 DEF Lineage
      <3> QED BY <1>i, <2>3, <3>1, <3>2
    <2> QED BY <2>1, <2>4, <2>5 DEF NeverGeneratedTwice, Made
  <1>2. CASE ~InUse(n)
    <2>1. PICK s \in Schedules : Took(n, s)
      <3>1. inherits'[n] # inherits[n]
        BY <1>2 DEF Lineage, InUse
      <3> QED BY <1>2, <3>1 DEF Advances
    <2>2. Made(n, d)
      BY <2>1 DEF Took, Fresh
    <2> QED BY <1>2, <2>2 DEF WithinRange, InUse
  <1> QED BY <1>1, <1>2

\* A class meets on the date by the schedule.
Meets(row, d) == row.from <= d /\ Ends(row, d) /\ getISOWeekday(d) = row.dow

\* The dates that a step puts behind a watermark have their sessions.
Fills(t) ==
  \A d \in today .. LastDate :
      Meets(sched'[t], d) /\ d <= sched'[t].gen /\ (InUse(t) => sched[t].gen < d) =>
          \E o \in inherits'[t] \cup {t} : ses'[<<o, d>>].status # "none"

\* A live schedule was live before, is new, or took over from a live one.
Continues(t) ==
  sched'[t].state = "live" =>
     \/ Live(t) /\ sched'[t].dow = sched[t].dow /\ Fills(t)
     \/ ~InUse(t) /\ Fills(t)
     \/ \E s \in Schedules : /\ Live(s) /\ Took(t, s) /\ sched'[t].dow = sched[s].dow
                             /\ sched'[t].until = sched[s].until

\* Then no date is left behind the watermark.
LEMMA NoMissingStep ==
  ASSUME TypeOK, TypeOK', NoMissingSession, Advances, today' >= today,
         \A t \in Schedules : Continues(t)
  PROVE  NoMissingSession'
  <1>t. today \in Int /\ today' \in Int /\ today >= 0 /\ LastDate \in Int
    BY Horizon, SessionConstants DEF TypeOK
  <1> SUFFICES ASSUME NEW t \in Schedules, NEW d \in today' .. LastDate,
                      sched'[t].state = "live", d <= sched'[t].gen,
                      d \in sessionsForScheduleBetween(sched'[t], d, d)
               PROVE  \E o \in inherits'[t] \cup {t} : ses'[<<o, d>>].status # "none"
    BY DEF NoMissingSession, Live
  <1>1. d \in today .. LastDate /\ d \in Int /\ d \in Days
    BY <1>t DEF Days
  <1>2. Meets(sched'[t], d)
    BY DEF sessionsForScheduleBetween, Meets
  <1>i. \A x \in Schedules : /\ sched[x].from \in Int /\ sched[x].until \in Int
                             /\ sched[x].gen \in Int /\ sched'[x].from \in Int
                             /\ sched'[x].until \in Int /\ sched'[x].gen \in Int
    BY Dates DEF TypeOK
  <1>3. ASSUME NEW s \in Schedules, Live(s), Meets(sched[s], d), d <= sched[s].gen
        PROVE  \E o \in inherits[s] \cup {s} : ses'[<<o, d>>].status # "none"
    <2>1. d \in sessionsForScheduleBetween(sched[s], d, d)
      BY <1>1, <1>3 DEF sessionsForScheduleBetween, Meets
    <2>2. PICK o \in inherits[s] \cup {s} : Made(o, d)
      BY <1>1, <1>3, <2>1 DEF NoMissingSession, Made
    <2>3. o \in Schedules
      BY DEF TypeOK
    <2> QED BY <1>1, <2>2, <2>3 DEF Advances, Appears
  <1>4. CASE Live(t) /\ sched'[t].dow = sched[t].dow /\ Fills(t)
    <2>0. InUse(t)
      BY <1>4 DEF InUse, Live
    <2>1. CASE sched[t].gen < d
      BY <1>1, <1>2, <1>4, <2>1 DEF Fills
    <2>2. CASE d <= sched[t].gen
      <3>1. Meets(sched[t], d)
        BY <1>1, <1>2, <1>4, <1>i, <2>0 DEF Meets, Advances, Grows, Ends
      <3>2. inherits'[t] = inherits[t]
        BY <2>0 DEF Advances, Grows
      <3> QED BY <1>3, <1>4, <2>2, <3>1, <3>2
    <2> QED BY <1>1, <1>i, <2>1, <2>2
  <1>5. CASE ~InUse(t) /\ Fills(t)
    BY <1>1, <1>2, <1>5 DEF Fills
  <1>6. ASSUME NEW s \in Schedules, Live(s), Took(t, s), sched'[t].dow = sched[s].dow,
               sched'[t].until = sched[s].until
        PROVE  \E o \in inherits'[t] \cup {t} : ses'[<<o, d>>].status # "none"
    <2>1. Meets(sched[s], d) /\ d <= sched[s].gen
      BY <1>1, <1>2, <1>6, <1>i DEF Meets, Took, Ends
    <2>2. PICK o \in inherits[s] \cup {s} : ses'[<<o, d>>].status # "none"
      BY <1>3, <1>6, <2>1
    <2> QED BY <1>6, <2>2 DEF Took
  <1> QED BY <1>4, <1>5, <1>6 DEF Continues

\* A row belongs, after the step, to a schedule of its lineage.
PlacedNext(id, row) ==
  IF id \in Editors THEN row.sched = Null
  ELSE /\ row.sched \in Schedules /\ sched'[row.sched].state # "unused"
       /\ row.date = id[2] /\ id[1] \in inherits'[row.sched] \cup {row.sched}

\* Rows stay where they belong: lineages do not change.
LEMMA PlacedStays ==
  ASSUME Advances, NEW id, NEW row, Placed(id, row)
  PROVE  PlacedNext(id, row)
  BY DEF Placed, PlacedNext, Advances, Grows, InUse

\* A step leaves a row where it is or puts it where it belongs.
Settled(id) ==
  \/ /\ ses[id].status = "none" <=> ses'[id].status = "none"
     /\ ses'[id].sched = ses[id].sched /\ ses'[id].date = ses[id].date
  \/ ses'[id].status # "none" /\ PlacedNext(id, ses'[id])

\* Then every row is where it belongs.
LEMMA RowsPlacedStep ==
  ASSUME Advances, RowsPlaced, \A id \in SessionIds : Settled(id)
  PROVE  RowsPlaced'
  <1>1. ASSUME NEW id \in SessionIds
        PROVE  IF ses'[id].status = "none" THEN ses'[id].sched = Null
               ELSE PlacedNext(id, ses'[id])
    <2>1. CASE ses'[id].status # "none" /\ PlacedNext(id, ses'[id])
      BY <2>1
    <2>2. CASE ses'[id].status = "none"
      BY <2>2 DEF Settled, RowsPlaced
    <2>3. CASE /\ ses[id].status # "none" /\ ses'[id].status # "none"
               /\ ses'[id].sched = ses[id].sched /\ ses'[id].date = ses[id].date
      <3>1. PlacedNext(id, ses[id])
        BY <2>3, PlacedStays DEF RowsPlaced
      <3> QED BY <2>3, <3>1 DEF PlacedNext
    <2> QED BY <2>1, <2>2, <2>3 DEF Settled
  <1> QED BY <1>1 DEF RowsPlaced, Placed, PlacedNext

\* And so is every copy an editor has made of one.
LEMMA EditsPlacedStep ==
  ASSUME Advances, RowsPlaced, EditsPlaced,
         \A id \in SessionIds : ses[id].status # "none" => ses'[id].status # "none",
         \A e \in Editors : \/ edit'[e] = edit[e] \/ edit'[e].kind \in {"idle", "done"}
                            \/ /\ edit'[e].id \in SessionIds /\ Exists(edit'[e].id)
                               /\ edit'[e].row = ses[edit'[e].id]
  PROVE  EditsPlaced'
  <1>1. ASSUME NEW e \in Editors, edit'[e].kind \in {"reschedule", "substitute"}
        PROVE  /\ edit'[e].id \in SessionIds /\ ses'[edit'[e].id].status # "none"
               /\ edit'[e].row.status # "none" /\ PlacedNext(edit'[e].id, edit'[e].row)
    <2>1. CASE edit'[e] = edit[e]
      <3>1. /\ edit[e].id \in SessionIds /\ ses[edit[e].id].status # "none"
            /\ edit[e].row.status # "none" /\ Placed(edit[e].id, edit[e].row)
        BY <1>1, <2>1 DEF EditsPlaced, Editing
      <3>2. PlacedNext(edit[e].id, edit[e].row)
        BY <3>1, PlacedStays
      <3> QED BY <2>1, <3>1, <3>2
    <2>2. CASE /\ edit'[e].id \in SessionIds /\ Exists(edit'[e].id)
               /\ edit'[e].row = ses[edit'[e].id]
      <3> DEFINE id == edit'[e].id
      <3>1. ses[id].status # "none" /\ Placed(id, ses[id])
        BY <2>2 DEF Exists, RowsPlaced
      <3>2. PlacedNext(id, ses[id])
        BY <3>1, PlacedStays
      <3> QED BY <2>2, <3>1, <3>2
    <2> QED BY <1>1, <2>1, <2>2
  <1> QED BY <1>1 DEF EditsPlaced, Editing, Placed, PlacedNext

\* A session that is still to be held after the step.
Held(id) == ses'[id].status = "scheduled" /\ ~ses'[id].deleted

\* It suits its schedule, or both are as they were.
Obeys(id) ==
  /\ sched'[ses'[id].sched].state = "deleted" => ses'[id].date < today'
  /\ sched'[ses'[id].sched].from <= ses'[id].date
  /\ Ends(sched'[ses'[id].sched], ses'[id].date)
  /\ ses'[id].tutor = sched'[ses'[id].sched].tutor \/ ses'[id].tutor = Null

Stays(id) ==
  /\ ses'[id] = ses[id]
  /\ sched'[ses[id].sched].state = sched[ses[id].sched].state
  /\ sched'[ses[id].sched].from = sched[ses[id].sched].from
  /\ sched'[ses[id].sched].until = sched[ses[id].sched].until
  /\ sched'[ses[id].sched].tutor = sched[ses[id].sched].tutor

\* Then sessions follow their schedules in time and tutor.
LEMMA FollowsStep ==
  ASSUME TypeOK, TypeOK', RowsPlaced, SessionsFollowSchedule, SessionsHaveTutor,
         edited \subseteq edited', today' >= today,
         \A id \in (Schedules \X Days) \ edited' : Held(id) => Obeys(id) \/ Stays(id)
  PROVE  SessionsFollowSchedule' /\ SessionsHaveTutor'
  <1>1. ASSUME NEW id \in (Schedules \X Days) \ edited', Held(id)
        PROVE  Obeys(id)
    <2>1. CASE Stays(id)
      <3>1. ses[id].status = "scheduled" /\ ~ses[id].deleted
        BY <1>1, <2>1 DEF Stays, Held
      <3>2. /\ sched[ses[id].sched].state = "deleted" => ses[id].date < today
            /\ sched[ses[id].sched].from <= ses[id].date /\ Ends(sched[ses[id].sched], ses[id].date)
        BY <1>1, <3>1 DEF SessionsFollowSchedule, validateReplacementDate
      <3>3. ses[id].tutor = sched[ses[id].sched].tutor \/ ses[id].tutor = Null
        BY <1>1, <3>1 DEF SessionsHaveTutor
      <3>4. ses[id].date \in Int /\ today \in Int /\ today' \in Int
        <4>1. id \in SessionIds /\ id \notin Editors
          BY <1>1, Ids
        <4>2. ses[id].date = id[2]
          BY <3>1, <4>1 DEF RowsPlaced, Placed
        <4> QED BY <1>1, <4>2, Dates DEF TypeOK
      <3> QED BY <2>1, <3>2, <3>3, <3>4 DEF Stays, Obeys, Ends
    <2> QED BY <1>1, <2>1
  <1>2. SessionsFollowSchedule'
    BY <1>1 DEF SessionsFollowSchedule, validateReplacementDate, Obeys, Held, Ends
  <1>3. SessionsHaveTutor'
    BY <1>1 DEF SessionsHaveTutor, Obeys, Held
  <1> QED BY <1>2, <1>3

-----------------------------------------------------------------------------
(* The steps. *)

\* What every step does with the copies of the editors: it leaves them, drops
\* them or makes them from the table.
Copies ==
  \A e \in Editors : \/ edit'[e] = edit[e] \/ edit'[e].kind \in {"idle", "done"}
                     \/ /\ edit'[e].id \in SessionIds /\ Exists(edit'[e].id)
                        /\ edit'[e].row = ses[edit'[e].id]

\* The parts of a step put together.
LEMMA SoundStep ==
  ASSUME SessionsInvariant, TypeOK', Advances, \A t \in Schedules : Continues(t),
         \A id \in SessionIds : Settled(id), Copies, WindowsOpen',
         edited \subseteq edited', today' >= today,
         \A id \in (Schedules \X Days) \ edited' : Held(id) => Obeys(id) \/ Stays(id)
  PROVE  SessionsInvariant'
  <1> USE DEF SessionsInvariant
  <1>1. \A id \in SessionIds : ses[id].status # "none" => ses'[id].status # "none"
    BY DEF Settled
  <1>2. RowsPlaced'
    BY RowsPlacedStep
  <1>3. EditsPlaced'
    BY <1>1, EditsPlacedStep DEF Copies
  <1>4. WithinRange'
    BY WithinRangeStep
  <1>5. Lineage'
    BY LineageStep
  <1>6. NeverGeneratedTwice'
    BY NeverTwiceStep
  <1>7. NoMissingSession'
    BY NoMissingStep
  <1>8. SessionsFollowSchedule' /\ SessionsHaveTutor'
    BY FollowsStep
  <1> QED BY <1>2, <1>3, <1>4, <1>5, <1>6, <1>7, <1>8

\* Schedules that keep their dates, and generated sessions that neither appear
\* nor disappear, continue as they were.
LEMMA QuietSchedules ==
  ASSUME TypeOK, UNCHANGED inherits,
         \A t \in Schedules : /\ sched'[t].from = sched[t].from /\ sched'[t].until = sched[t].until
                              /\ sched'[t].gen = sched[t].gen /\ sched'[t].dow = sched[t].dow
                              /\ sched'[t].state \in {sched[t].state, "deleted"},
         \A id \in Schedules \X Days : ses[id].status = "none" <=> ses'[id].status = "none"
  PROVE  Advances /\ \A t \in Schedules : Continues(t)
  <1>i. \A t \in Schedules : sched[t].gen \in Int
    BY Dates DEF TypeOK
  <1>t. today \in 0 .. LastDay /\ today \in Int
    BY SessionConstants DEF TypeOK
  <1>l. LastDate \in Int /\ today \in Int
    BY <1>t, Horizon
  <1>1. \A s \in Schedules, d \in Days : ses'[<<s, d>>].status # "none" <=> Made(s, d)
    BY Ids DEF Made
  <1>2. \A t \in Schedules : Grows(t)
    BY <1>i DEF Grows, InUse, Live
  <1>3. \A s \in Schedules, d \in Days : Appears(s, d)
    BY <1>1 DEF Appears, Fresh
  <1>4. Advances
    BY <1>2, <1>3 DEF Advances
  <1>5. ASSUME NEW t \in Schedules, sched'[t].state = "live" PROVE Live(t) /\ InUse(t)
    BY <1>5 DEF Live, InUse
  <1>6. ASSUME NEW t \in Schedules, InUse(t) PROVE Fills(t)
    BY <1>i, <1>l, <1>6 DEF Fills
  <1>7. \A t \in Schedules : Continues(t)
    BY <1>5, <1>6 DEF Continues
  <1> QED BY <1>4, <1>7

\* A step that leaves schedules and sessions alone.
LEMMA IdleStep ==
  ASSUME SessionsInvariant, TypeOK', UNCHANGED <<sched, ses, inherits, edited>>,
         today' >= today, Copies, WindowsOpen'
  PROVE  SessionsInvariant'
  <1>1. Advances /\ \A t \in Schedules : Continues(t)
    BY QuietSchedules DEF SessionsInvariant
  <1>2. \A id \in SessionIds : Settled(id)
    BY DEF Settled
  <1>3. \A id \in (Schedules \X Days) \ edited' : Held(id) => Stays(id)
    BY DEF Stays
  <1> QED BY <1>1, <1>2, <1>3, SoundStep

\* The clock only moves on.
LEMMA MidnightStep ==
  ASSUME SessionsInvariant, Midnight
  PROVE  SessionsInvariant'
  <1> USE DEF SessionsInvariant
  <1>0. today' = today + 1 /\ today \in Int /\ LastDay \in Int /\ today < LastDay
    BY SessionConstants DEF Midnight, TypeOK
  <1>1. TypeOK'
    BY <1>0 DEF Midnight, TypeOK, requests, history
  <1>2. /\ UNCHANGED <<sched, ses, inherits, edited>> /\ today' >= today /\ Copies
    BY <1>0 DEF Midnight, Copies, requests, history
  <1>3. WindowsOpen'
    <2>1. \A r \in Replicas : pass[r].start \in Int
      BY Dates, SessionConstants DEF TypeOK, Pass
    <2> QED BY <1>0, <2>1 DEF Midnight, WindowsOpen
  <1> QED BY <1>1, <1>2, <1>3, IdleStep

\* A pass starts with the month of a day that is not ahead.
LEMMA StartPassStep ==
  ASSUME SessionsInvariant, NEW r \in Replicas, StartPass(r)
  PROVE  SessionsInvariant'
  <1> USE DEF SessionsInvariant
  <1>1. PICK t \in ProcessToday :
           pass' = [pass EXCEPT ![r] = [start |-> startOfMonth(t), end |-> horizonEnd(t),
                                        cursor |-> 0]]
    BY DEF StartPass
  <1>2. t \in 0 .. LastDay /\ t <= today /\ today \in Int
    BY SessionConstants DEF ProcessToday, TypeOK
  <1>3. startOfMonth(t) \in Days /\ horizonEnd(t) \in Days /\ startOfMonth(t) <= t
    BY <1>2, Horizon, Months
  <1>4. [start |-> startOfMonth(t), end |-> horizonEnd(t), cursor |-> 0] \in Pass
    BY <1>3 DEF Pass
  <1>5. TypeOK'
    BY <1>1, <1>4 DEF StartPass, TypeOK, requests, history
  <1>6. UNCHANGED <<sched, ses, inherits, edited, today>> /\ Copies
    BY DEF StartPass, Copies, requests, history
  <1>7. WindowsOpen'
    <2> DEFINE w == [start |-> startOfMonth(t), end |-> horizonEnd(t), cursor |-> 0]
    <2>1. w.start <= today
      BY <1>2, <1>3, Dates, SessionConstants
    <2>2. \A q \in Replicas : pass'[q] = IF q = r THEN w ELSE pass[q]
      BY <1>1 DEF TypeOK
    <2> HIDE DEF w
    <2> QED BY <1>6, <2>1, <2>2 DEF WindowsOpen
  <1>8. today' >= today
    BY <1>2, <1>6
  <1> QED BY <1>5, <1>6, <1>7, <1>8, IdleStep

\* A pass that skips a schedule, or ends, leaves everything to the next one.
LEMMA PassStep ==
  ASSUME SessionsInvariant, NEW r \in Replicas,
         EndPass(r) \/ \E s \in Schedules : GenerationFails(r, s)
  PROVE  SessionsInvariant'
  <1> USE DEF SessionsInvariant
  <1>0. pass[r] \in Pass /\ NoPass \in Pass /\ NoPass.start = 0 /\ today \in Int /\ today >= 0
    <2>1. 0 \in Days
      BY Horizon, SessionConstants DEF Days
    <2> QED BY <2>1, SessionConstants DEF TypeOK, Pass, NoPass
  <1>1. PICK w \in Pass : pass' = [pass EXCEPT ![r] = w] /\ w.start <= today
    <2>1. CASE EndPass(r)
      BY <1>0, <2>1 DEF EndPass
    <2>2. ASSUME NEW s \in Schedules, GenerationFails(r, s)
          PROVE  \E w \in Pass : pass' = [pass EXCEPT ![r] = w] /\ w.start <= today
      <3> DEFINE w == [pass[r] EXCEPT !.cursor = s]
      <3>1. w \in Pass /\ w.start = pass[r].start
        BY <1>0, <2>2 DEF Pass
      <3>2. pass' = [pass EXCEPT ![r] = w]
        BY <2>2 DEF GenerationFails, TypeOK
      <3> HIDE DEF w
      <3> QED BY <3>1, <3>2 DEF WindowsOpen
    <2> QED BY <2>1, <2>2
  <1>2. UNCHANGED <<today, type, class, enrolled, sched, ses, requests, marked, left, history>>
    BY DEF EndPass, GenerationFails
  <1>3. TypeOK'
    BY <1>1, <1>2 DEF TypeOK, requests, history
  <1>4. UNCHANGED <<sched, ses, inherits, edited, today>> /\ Copies
    BY <1>2 DEF Copies, requests, history
  <1>5. WindowsOpen'
    BY <1>1, <1>4 DEF WindowsOpen, TypeOK
  <1> QED BY <1>0, <1>3, <1>4, <1>5, IdleStep

\* Requests that only read, and those about attendance and the enrollment.
LEMMA ReadingStep ==
  ASSUME SessionsInvariant,
         \/ EnrollmentMoves \/ FindClass \/ DeleteClassStart \/ RecordAttendance
         \/ \E id \in SessionIds : AcceptAttendance(id)
         \/ UNCHANGED vars
  PROVE  SessionsInvariant'
  <1> USE DEF SessionsInvariant
  <1>1. TypeOK'
    <2>1. CASE EnrollmentMoves
      BY <2>1 DEF EnrollmentMoves, TypeOK, requests, history
    <2>2. CASE FindClass
      BY <2>2, SessionConstants DEF FindClass, Request, TypeOK, requests, history
    <2>3. CASE DeleteClassStart
      BY <2>3, SessionConstants DEF DeleteClassStart, Request, TypeOK, requests, history
    <2>4. CASE RecordAttendance
      BY <2>4 DEF RecordAttendance, TypeOK, requests, history
    <2>5. ASSUME NEW id \in SessionIds, AcceptAttendance(id) PROVE TypeOK'
      BY <2>5 DEF AcceptAttendance, TypeOK, requests, history
    <2>6. CASE UNCHANGED vars
      BY <2>6 DEF vars, TypeOK, requests, history
    <2> QED BY <2>1, <2>2, <2>3, <2>4, <2>5, <2>6
  <1>2. UNCHANGED <<sched, ses, inherits, edited, today, pass, edit>>
    BY DEF EnrollmentMoves, FindClass, DeleteClassStart, RecordAttendance, AcceptAttendance,
           vars, requests, history
  <1>3. Copies /\ WindowsOpen' /\ today' >= today
    BY <1>2 DEF Copies, WindowsOpen, TypeOK
  <1> QED BY <1>1, <1>2, <1>3, IdleStep

\* An editor reads a row as it is.
LEMMA ReadSessionStep ==
  ASSUME SessionsInvariant, NEW e \in Editors, NEW id \in SessionIds,
         NEW kind \in {"reschedule", "substitute"}, ReadSession(e, id, kind)
  PROVE  SessionsInvariant'
  <1> USE DEF SessionsInvariant
  <1> DEFINE r == [kind |-> kind, id |-> id, row |-> ses[id]]
  <1>1. r \in Edit /\ r.id = id /\ r.row = ses[id]
    BY DEF Edit, TypeOK
  <1>2. edit' = [edit EXCEPT ![e] = r]
    BY DEF ReadSession
  <1> HIDE DEF r
  <1>3. \A o \in Editors : edit'[o] = IF o = e THEN r ELSE edit[o]
    BY <1>2 DEF TypeOK
  <1>4. Copies
    BY <1>1, <1>3 DEF Copies, ReadSession
  <1>5. TypeOK'
    BY <1>1, <1>2, SessionConstants DEF ReadSession, Request, TypeOK, history
  <1>6. UNCHANGED <<sched, ses, inherits, edited, today, pass>>
    BY DEF ReadSession, history
  <1>7. WindowsOpen' /\ today' >= today
    BY <1>6 DEF WindowsOpen, TypeOK
  <1> QED BY <1>4, <1>5, <1>6, <1>7, IdleStep

\* What the invariant says of a generated session.
LEMMA RowFacts ==
  ASSUME SessionsInvariant, NEW id \in Schedules \X Days, ses[id].status # "none"
  PROVE  /\ id \in SessionIds /\ ses[id].sched \in Schedules /\ InUse(ses[id].sched)
         /\ ses[id].date = id[2] /\ ses[id].date \in Int
  <1>1. id \in SessionIds /\ id \notin Editors /\ id[2] \in Days
    BY Ids
  <1>2. id[2] \in Int
    BY <1>1, Dates DEF SessionsInvariant, TypeOK
  <1> QED BY <1>1, <1>2 DEF SessionsInvariant, RowsPlaced, Placed, InUse

\* And of one that is still to be held.
LEMMA HeldFacts ==
  ASSUME SessionsInvariant, NEW id \in (Schedules \X Days) \ edited,
         ses[id].status = "scheduled", ~ses[id].deleted
  PROVE  /\ sched[ses[id].sched].state = "deleted" => ses[id].date < today
         /\ sched[ses[id].sched].from <= ses[id].date /\ Ends(sched[ses[id].sched], ses[id].date)
         /\ ses[id].tutor = sched[ses[id].sched].tutor \/ ses[id].tutor = Null
  <1>1. /\ sched[ses[id].sched].state = "deleted" => ses[id].date < today
        /\ sched[ses[id].sched].from <= ses[id].date /\ Ends(sched[ses[id].sched], ses[id].date)
    BY DEF SessionsInvariant, SessionsFollowSchedule, validateReplacementDate
  <1>2. ses[id].tutor = sched[ses[id].sched].tutor \/ ses[id].tutor = Null
    BY DEF SessionsInvariant, SessionsHaveTutor
  <1> QED BY <1>1, <1>2

\* A request leaves clock, passes and copies alone.
LEMMA RequestFrame ==
  ASSUME SessionsInvariant, UNCHANGED <<today, pass, edit>>
  PROVE  Copies /\ WindowsOpen' /\ today' >= today
  BY DEF SessionsInvariant, Copies, WindowsOpen, TypeOK

\* The bound on requests.
LEMMA RequestsBounded ==
  ASSUME TypeOK, Request
  PROVE  left' \in 0 .. MaxRequests
  BY SessionConstants DEF TypeOK, Request

\* One session is deleted.
LEMMA DeleteSessionStep ==
  ASSUME SessionsInvariant, NEW x \in SessionIds, DeleteSession(x)
  PROVE  SessionsInvariant'
  <1> USE DEF SessionsInvariant
  <1> DEFINE r == [ses[x] EXCEPT !.deleted = TRUE]
  <1>1. ses[x] \in Session
    BY DEF TypeOK
  <1>2. /\ r \in Session /\ r.status = ses[x].status /\ r.sched = ses[x].sched
        /\ r.date = ses[x].date /\ r.deleted
    BY <1>1 DEF Session
  <1>3. ses' = [ses EXCEPT ![x] = r]
    BY DEF DeleteSession, TypeOK
  <1> HIDE DEF r
  <1>4. \A id \in SessionIds : ses'[id] = IF id = x THEN r ELSE ses[id]
    BY <1>3 DEF TypeOK
  <1>5. TypeOK'
    <2>1. ses' \in [SessionIds -> Session]
      BY <1>2, <1>3 DEF TypeOK
    <2>2. left' \in 0 .. MaxRequests
      BY RequestsBounded DEF DeleteSession
    <2> QED BY <2>1, <2>2 DEF DeleteSession, TypeOK, requests, history
  <1>6. UNCHANGED <<sched, inherits, edited, today, pass, edit>>
    BY DEF DeleteSession, requests, history
  <1>7. Advances /\ \A t \in Schedules : Continues(t)
    BY <1>2, <1>4, <1>6, Ids, QuietSchedules
  <1>8. \A id \in SessionIds : Settled(id)
    BY <1>2, <1>4 DEF Settled
  <1>9. \A id \in (Schedules \X Days) \ edited' : Held(id) => Stays(id)
    BY <1>2, <1>4, <1>6, Ids DEF Held, Stays
  <1>10. edited \subseteq edited'
    BY <1>6
  <1> QED BY <1>5, <1>6, <1>7, <1>8, <1>9, <1>10, RequestFrame, SoundStep

\* A schedule is deleted with its sessions from today on.
LEMMA DeleteScheduleStep ==
  ASSUME SessionsInvariant, NEW s \in Schedules, DeleteSchedule(s)
  PROVE  SessionsInvariant'
  <1> USE DEF SessionsInvariant
  <1> DEFINE r == [sched[s] EXCEPT !.state = "deleted"]
  <1>1. sched[s] \in Schedule
    BY DEF TypeOK
  <1>2. /\ r \in Schedule /\ r.state = "deleted" /\ r.from = sched[s].from
        /\ r.until = sched[s].until /\ r.gen = sched[s].gen /\ r.dow = sched[s].dow
        /\ r.tutor = sched[s].tutor
    BY <1>1 DEF Schedule
  <1>3. sched' = [sched EXCEPT ![s] = r]
    BY DEF DeleteSchedule, TypeOK
  <1> HIDE DEF r
  <1>4. \A t \in Schedules : sched'[t] = IF t = s THEN r ELSE sched[t]
    BY <1>3 DEF TypeOK
  <1>5. Cancels(ses', FutureSessions(s, today))
    BY Cancelled DEF DeleteSchedule, CancelFutureSessionsBySchedule, TypeOK
  <1>6. TypeOK'
    BY <1>2, <1>3, <1>5, SessionConstants
       DEF DeleteSchedule, Request, TypeOK, requests, history, Cancels
  <1>7. UNCHANGED <<inherits, edited, today, pass, edit>>
    BY DEF DeleteSchedule, requests, history
  <1>8. \A id \in SessionIds : /\ ses[id].status = "none" <=> ses'[id].status = "none"
                               /\ ses'[id].sched = ses[id].sched /\ ses'[id].date = ses[id].date
    BY <1>5 DEF Cancels, FutureSessions
  <1>9. Advances /\ \A t \in Schedules : Continues(t)
    BY <1>2, <1>4, <1>7, <1>8, Ids, QuietSchedules
  <1>10. \A id \in SessionIds : Settled(id)
    BY <1>8 DEF Settled
  <1>11. ASSUME NEW id \in (Schedules \X Days) \ edited', Held(id) PROVE Obeys(id) \/ Stays(id)
    <2>1. id \in SessionIds /\ id \notin edited
      BY <1>7, Ids
    <2>2. ses'[id] = ses[id] /\ id \notin FutureSessions(s, today)
      BY <1>5, <1>11, <2>1 DEF Cancels, Held
    <2>3. ses[id].status = "scheduled" /\ ~ses[id].deleted
      BY <1>11, <2>2 DEF Held
    <2>4. /\ sched[ses[id].sched].from <= ses[id].date /\ Ends(sched[ses[id].sched], ses[id].date)
          /\ ses[id].tutor = sched[ses[id].sched].tutor \/ ses[id].tutor = Null
      BY <2>1, <2>3, HeldFacts
    <2>5. ses[id].sched \in Schedules /\ ses[id].date \in Int
      BY <2>3, RowFacts
    <2>6. CASE ses[id].sched = s
      <3>1. ses[id].date < today
        BY <2>1, <2>2, <2>3, <2>5, <2>6 DEF FutureSessions, TypeOK
      <3> QED BY <1>2, <1>4, <1>7, <2>2, <2>4, <2>6, <3>1 DEF Obeys, Ends
    <2>7. CASE ses[id].sched # s
      BY <1>4, <2>2, <2>5, <2>7 DEF Stays
    <2> QED BY <2>6, <2>7
  <1>12. edited \subseteq edited'
    BY <1>7
  <1> QED BY <1>6, <1>7, <1>9, <1>10, <1>11, <1>12, RequestFrame, SoundStep

\* The class is deleted with the schedules it had at the start of the request
\* and all sessions ahead.
LEMMA DeleteClassStep ==
  ASSUME SessionsInvariant, DeleteClassCommit
  PROVE  SessionsInvariant'
  <1> USE DEF SessionsInvariant
  <1>1. PICK t \in ProcessToday :
           ses' = [id \in SessionIds |->
               IF Exists(id) /\ ses[id].status = "scheduled" /\ ses[id].date >= t
               THEN [ses[id] EXCEPT !.status = "cancelled"] ELSE ses[id]]
    BY DEF DeleteClassCommit
  <1> DEFINE S == {id \in SessionIds : /\ Exists(id) /\ ses[id].status = "scheduled"
                                       /\ ses[id].date >= t}
  <1>2. t \in Int /\ t <= today /\ today \in Int
    BY SessionConstants DEF ProcessToday, TypeOK
  <1>3. ses' = [id \in SessionIds |-> IF id \in S THEN [ses[id] EXCEPT !.status = "cancelled"]
                                      ELSE ses[id]]
    BY <1>1
  <1>4. Cancels(ses', S)
    <2> HIDE DEF S
    <2> QED BY <1>3, Cancelled DEF TypeOK
  <1>5. ASSUME NEW s \in Schedules
        PROVE  /\ sched'[s] \in Schedule /\ sched'[s].from = sched[s].from
               /\ sched'[s].until = sched[s].until /\ sched'[s].gen = sched[s].gen
               /\ sched'[s].dow = sched[s].dow /\ sched'[s].tutor = sched[s].tutor
               /\ sched'[s].state = IF s \in doomed THEN "deleted" ELSE sched[s].state
    <2>1. sched[s] \in Schedule
      BY DEF TypeOK
    <2>2. sched'[s] = IF s \in doomed THEN [sched[s] EXCEPT !.state = "deleted"] ELSE sched[s]
      BY DEF DeleteClassCommit
    <2> QED BY <2>1, <2>2 DEF Schedule
  <1>6. TypeOK'
    <2>1. sched' \in [Schedules -> Schedule]
      BY <1>5 DEF DeleteClassCommit
    <2>2. ses' \in [SessionIds -> Session]
      BY <1>4 DEF Cancels
    <2> QED BY <2>1, <2>2 DEF DeleteClassCommit, TypeOK, history
  <1>7. UNCHANGED <<inherits, edited, today, pass, edit>>
    BY DEF DeleteClassCommit, history
  <1>8. \A id \in SessionIds : /\ ses[id].status = "none" <=> ses'[id].status = "none"
                               /\ ses'[id].sched = ses[id].sched /\ ses'[id].date = ses[id].date
    BY <1>4 DEF Cancels
  <1>9. Advances /\ \A s \in Schedules : Continues(s)
    BY <1>5, <1>7, <1>8, Ids, QuietSchedules
  <1>10. \A id \in SessionIds : Settled(id)
    BY <1>8 DEF Settled
  <1>11. ASSUME NEW id \in (Schedules \X Days) \ edited', Held(id) PROVE Obeys(id)
    <2>1. id \in SessionIds /\ id \notin edited
      BY <1>7, Ids
    <2>2. ses'[id] = ses[id] /\ id \notin S
      BY <1>4, <1>11, <2>1 DEF Cancels, Held
    <2>3. ses[id].status = "scheduled" /\ ~ses[id].deleted
      BY <1>11, <2>2 DEF Held
    <2>4. /\ sched[ses[id].sched].from <= ses[id].date /\ Ends(sched[ses[id].sched], ses[id].date)
          /\ ses[id].tutor = sched[ses[id].sched].tutor \/ ses[id].tutor = Null
      BY <2>1, <2>3, HeldFacts
    <2>5. ses[id].sched \in Schedules /\ ses[id].date \in Int
      BY <2>3, RowFacts
    <2>6. ses[id].date < today
      BY <1>2, <2>1, <2>2, <2>3, <2>5 DEF Exists
    <2> QED BY <1>5, <1>7, <2>2, <2>4, <2>5, <2>6 DEF Obeys, Ends
  <1>12. edited \subseteq edited'
    BY <1>7
  <1> QED BY <1>6, <1>7, <1>9, <1>10, <1>11, <1>12, RequestFrame, SoundStep

\* The first tutor of a private schedule and of its sessions ahead.
LEMMA FirstTutorStep ==
  ASSUME SessionsInvariant, NEW s \in Schedules, NEW eff \in RequestDates, NEW tutor \in Tutors,
         AssignFirstTutor(s, eff, tutor)
  PROVE  SessionsInvariant'
  <1> USE DEF SessionsInvariant
  <1> DEFINE r == [sched[s] EXCEPT !.tutor = tutor]
  <1>0. eff \in Int /\ sched[s].tutor = Null
    BY SessionConstants DEF RequestDates, AssignFirstTutor
  <1>1. sched[s] \in Schedule
    BY DEF TypeOK
  <1>2. /\ r \in Schedule /\ r.state = sched[s].state /\ r.from = sched[s].from
        /\ r.until = sched[s].until /\ r.gen = sched[s].gen /\ r.dow = sched[s].dow
        /\ r.tutor = tutor
    BY <1>1 DEF Schedule
  <1>3. sched' = [sched EXCEPT ![s] = r]
    BY DEF AssignFirstTutor, TypeOK
  <1> HIDE DEF r
  <1>4. \A t \in Schedules : sched'[t] = IF t = s THEN r ELSE sched[t]
    BY <1>3 DEF TypeOK
  <1>5. /\ ses' \in [SessionIds -> Session]
        /\ \A id \in SessionIds :
              IF id \in FutureSessions(s, eff)
              THEN /\ ses'[id].status = ses[id].status /\ ses'[id].deleted = ses[id].deleted
                   /\ ses'[id].sched = s /\ ses'[id].date = ses[id].date /\ ses'[id].tutor = tutor
              ELSE ses'[id] = ses[id]
    BY <1>0, TutorUpdated DEF AssignFirstTutor, TypeOK
  <1>6. TypeOK'
    <2>1. sched' \in [Schedules -> Schedule]
      BY <1>2, <1>3 DEF TypeOK
    <2>2. left' \in 0 .. MaxRequests
      BY RequestsBounded DEF AssignFirstTutor
    <2> QED BY <1>5, <2>1, <2>2 DEF AssignFirstTutor, TypeOK, requests, history
  <1>7. UNCHANGED <<inherits, edited, today, pass, edit>>
    BY DEF AssignFirstTutor, requests, history
  <1>8. \A id \in SessionIds : /\ ses[id].status = "none" <=> ses'[id].status = "none"
                               /\ ses'[id].sched = ses[id].sched /\ ses'[id].date = ses[id].date
    BY <1>5 DEF FutureSessions
  <1>9. Advances /\ \A t \in Schedules : Continues(t)
    BY <1>2, <1>4, <1>7, <1>8, Ids, QuietSchedules
  <1>10. \A id \in SessionIds : Settled(id)
    BY <1>8 DEF Settled
  <1>11. ASSUME NEW id \in (Schedules \X Days) \ edited', Held(id) PROVE Obeys(id) \/ Stays(id)
    <2>1. id \in SessionIds /\ id \notin edited
      BY <1>7, Ids
    <2>3. ses[id].status = "scheduled" /\ ~ses[id].deleted
      BY <1>5, <1>11, <2>1 DEF Held
    <2>4. /\ sched[ses[id].sched].state = "deleted" => ses[id].date < today
          /\ sched[ses[id].sched].from <= ses[id].date /\ Ends(sched[ses[id].sched], ses[id].date)
          /\ ses[id].tutor = sched[ses[id].sched].tutor \/ ses[id].tutor = Null
      BY <2>1, <2>3, HeldFacts
    <2>5. ses[id].sched \in Schedules
      BY <2>3, RowFacts
    <2>6. CASE ses[id].sched = s
      <3>1. ses'[id].tutor = tutor \/ ses'[id].tutor = Null
        BY <1>0, <1>5, <2>1, <2>4, <2>6
      <3> QED BY <1>2, <1>4, <1>7, <1>8, <2>1, <2>4, <2>6, <3>1 DEF Obeys, Ends
    <2>7. CASE ses[id].sched # s
      <3>1. ses'[id] = ses[id]
        BY <1>5, <2>1, <2>7 DEF FutureSessions
      <3> QED BY <1>4, <2>5, <2>7, <3>1 DEF Stays
    <2> QED BY <2>6, <2>7
  <1>12. edited \subseteq edited'
    BY <1>7
  <1> QED BY <1>6, <1>7, <1>9, <1>10, <1>11, <1>12, RequestFrame, SoundStep

-----------------------------------------------------------------------------
(* The steps that generate sessions. *)

\* A table with the rows of the current one, up to their status and tutor.
Alike(table) ==
  /\ table \in [SessionIds -> Session]
  /\ \A id \in SessionIds : /\ ses[id].status = "none" <=> table[id].status = "none"
                            /\ table[id].sched = ses[id].sched /\ table[id].date = ses[id].date

\* After generation every date has a session, of the schedule or of one whose
\* range it took: the unique index refuses only dates that have one.
LEMMA InsertedFills ==
  ASSUME SessionsInvariant, NEW table, Alike(table), NEW s \in Schedules, NEW row \in Schedule,
         NEW days \in SUBSET Days, ses' = InsertSessions(table, s, row, days), NEW d \in days
  PROVE  \E o \in inherits[s] \cup {s} : ses'[<<o, d>>].status # "none"
  <1> DEFINE id == <<s, d>>
  <1>1. id \in SessionIds /\ id \in {s} \X days /\ id[2] = d
    BY Ids
  <1>2. ses'[id].status = "scheduled" \/ Taken(table, s, d)
    BY <1>1, Inserted DEF Alike
  <1>3. ASSUME Taken(table, s, d)
        PROVE  \E o \in inherits[s] \cup {s} : ses'[<<o, d>>].status # "none"
    <2>1. PICK x \in SessionIds : table[x].sched = s /\ table[x].date = d
      BY <1>3 DEF Taken
    <2>2. ses[x].sched = s /\ ses[x].date = d /\ ses[x].sched # Null
      BY <2>1, Ids DEF Alike
    <2>3. ses[x].status # "none" /\ Placed(x, ses[x])
      BY <2>2 DEF SessionsInvariant, RowsPlaced
    <2>4. x \notin Editors /\ x[2] = d /\ x[1] \in inherits[s] \cup {s} /\ x = <<x[1], x[2]>>
      BY <2>2, <2>3, Ids DEF Placed
    <2>5. ses'[x].status # "none"
      BY <2>3, Inserted DEF Alike
    <2> QED BY <2>4, <2>5
  <1> QED BY <1>2, <1>3

\* The new rows are where they belong.
LEMMA InsertedSettles ==
  ASSUME NEW table, Alike(table), NEW s \in Schedules, NEW row \in Schedule,
         NEW days \in SUBSET Days, ses' = InsertSessions(table, s, row, days),
         sched'[s].state # "unused"
  PROVE  \A id \in SessionIds : Settled(id)
  <1> SUFFICES ASSUME NEW id \in SessionIds PROVE Settled(id)
    OBVIOUS
  <1>1. CASE ses'[id] = table[id]
    BY <1>1 DEF Alike, Settled
  <1>2. CASE /\ id \notin Editors /\ id[1] = s /\ ses'[id].status = "scheduled"
             /\ ses'[id].sched = s /\ ses'[id].date = id[2]
    BY <1>2 DEF Settled, PlacedNext
  <1> QED BY <1>1, <1>2, Inserted DEF Alike

\* Sessions that appear are those of the schedule on the days to fill.
LEMMA InsertedFresh ==
  ASSUME NEW table, Alike(table), NEW s \in Schedules, NEW row \in Schedule,
         NEW days \in SUBSET Days, ses' = InsertSessions(table, s, row, days),
         NEW o \in Schedules, NEW d \in Days
  PROVE  /\ Made(o, d) => ses'[<<o, d>>].status # "none"
         /\ Fresh(o, d) => o = s /\ d \in days
  <1> DEFINE id == <<o, d>>
  <1>1. id \in SessionIds /\ id[1] = o /\ id[2] = d
    BY Ids
  <1>2. CASE ses'[id] = table[id]
    BY <1>1, <1>2 DEF Alike, Made, Fresh
  <1>3. CASE id[1] = s /\ id[2] \in days /\ ses'[id].status = "scheduled"
    BY <1>1, <1>3 DEF Made, Fresh
  <1> QED BY <1>1, <1>2, <1>3, Inserted DEF Alike

\* The worker fills the window of its pass beyond the watermark.
LEMMA GenerateStep ==
  ASSUME SessionsInvariant, NEW r \in Replicas, NEW s \in Schedules, GenerateSessions(r, s)
  PROVE  SessionsInvariant'
  <1> USE DEF SessionsInvariant
  <1> DEFINE end == pass[r].end
             days == sessionsForScheduleBetween(sched[s], FirstMissing(sched[s], pass[r].start), end)
             row == [sched[s] EXCEPT !.gen = end]
             w == [pass[r] EXCEPT !.cursor = s]
  <1>0. /\ sched[s] \in Schedule /\ pass[r] \in Pass
        /\ Live(s) /\ (sched[s].gen = NoDate \/ sched[s].gen < end)
    BY DEF TypeOK, GenerateSessions, NextDue, Due
  <1>i. /\ \A t \in Schedules : /\ sched[t].from \in Int /\ sched[t].until \in Int
                                /\ sched[t].gen \in Int
        /\ Days \subseteq Int /\ LastDate \in Int /\ today \in Int
    <2>1. today \in 0 .. LastDay
      BY SessionConstants DEF TypeOK
    <2> QED BY <2>1, Dates, Horizon DEF TypeOK
  <1>1. end \in Days /\ end \in Int /\ pass[r].start \in Int /\ sched[s].gen <= end
    BY <1>0, <1>i DEF Pass, NoDate, Days
  <1>2. /\ row \in Schedule /\ row.state = "live" /\ row.from = sched[s].from
        /\ row.until = sched[s].until /\ row.gen = end /\ row.dow = sched[s].dow
        /\ row.tutor = sched[s].tutor
    BY <1>0, <1>1 DEF Schedule, Live
  <1>3. sched' = [sched EXCEPT ![s] = row] /\ ses' = InsertSessions(ses, s, sched[s], days)
    BY DEF GenerateSessions, TypeOK
  <1>4. w \in Pass /\ w.start = pass[r].start /\ pass' = [pass EXCEPT ![r] = w]
    BY <1>0 DEF GenerateSessions, TypeOK, Pass
  <1>5. /\ \A d \in days : /\ d \in Days /\ sched[s].from <= d /\ Ends(sched[s], d) /\ d <= end
                           /\ sched[s].gen < d
        /\ \A d \in today .. LastDate : Meets(sched[s], d) /\ d <= end /\ sched[s].gen < d =>
              d \in days
    <2>1. sched[s].from \in Days
      BY <1>0 DEF Schedule
    <2>2. pass[r].start <= today
      BY DEF WindowsOpen
    <2>3. ASSUME NEW d \in days
          PROVE  /\ d \in Days /\ sched[s].from <= d /\ Ends(sched[s], d) /\ d <= end
                 /\ sched[s].gen < d
      <3>1. d \in Int /\ FirstMissing(sched[s], pass[r].start) <= d /\ d <= end
            /\ sched[s].from <= d /\ Ends(sched[s], d)
        BY <1>1, <1>i DEF sessionsForScheduleBetween, FirstMissing
      <3>2. sched[s].gen < d
        BY <1>1, <1>i, <3>1 DEF FirstMissing
      <3> QED BY <1>1, <1>i, <2>1, <3>1, <3>2 DEF Days
    <2>4. ASSUME NEW d \in today .. LastDate, Meets(sched[s], d), d <= end, sched[s].gen < d
          PROVE  d \in days
      BY <1>1, <1>i, <2>2, <2>4 DEF sessionsForScheduleBetween, FirstMissing, Meets
    <2> QED BY <2>3, <2>4
  <1>u. UNCHANGED <<today, type, class, enrolled, requests, marked, left, history>>
    BY DEF GenerateSessions
  <1> HIDE DEF end, days, row, w
  <1>6. Alike(ses) /\ days \in SUBSET Days
    BY <1>5 DEF Alike, TypeOK
  <1>7. \A t \in Schedules : sched'[t] = IF t = s THEN row ELSE sched[t]
    BY <1>3 DEF TypeOK
  <1>8. TypeOK'
    <2>1. ses' \in [SessionIds -> Session]
      BY <1>0, <1>3, <1>6, Inserted DEF Alike
    <2>2. sched' \in [Schedules -> Schedule] /\ pass' \in [Replicas -> Pass]
      BY <1>2, <1>3, <1>4 DEF TypeOK
    <2> QED BY <1>u, <2>1, <2>2 DEF TypeOK, requests, history
  <1>9. Advances
    <2>1. \A t \in Schedules : Grows(t)
      BY <1>1, <1>2, <1>7, <1>i, <1>u DEF Grows, InUse, history
    <2>2. ASSUME NEW o \in Schedules, NEW d \in Days PROVE Appears(o, d)
      <3>1. /\ Made(o, d) => ses'[<<o, d>>].status # "none"
            /\ Fresh(o, d) => o = s /\ d \in days
        BY <1>0, <1>3, <1>6, InsertedFresh
      <3> QED BY <1>2, <1>5, <1>7, <3>1 DEF Appears
    <2> QED BY <1>u, <2>1, <2>2 DEF Advances, history
  <1>10. ASSUME NEW t \in Schedules PROVE Continues(t)
    <2>1. CASE t = s
      <3>1. ASSUME NEW d \in today .. LastDate, Meets(sched'[s], d), d <= sched'[s].gen,
                   sched[s].gen < d
            PROVE  \E o \in inherits'[s] \cup {s} : ses'[<<o, d>>].status # "none"
        <4>1. d \in days
          BY <1>2, <1>5, <1>7, <3>1 DEF Meets, Ends
        <4> QED BY <1>0, <1>3, <1>6, <1>u, <4>1, InsertedFills DEF history
      <3>2. Fills(s)
        BY <1>0, <3>1 DEF Fills, InUse, Live
      <3> QED BY <1>0, <1>2, <1>7, <2>1, <3>2 DEF Continues
    <2>2. CASE t # s
      BY <1>7, <1>i, <2>2 DEF Continues, Fills, Live, InUse
    <2> QED BY <2>1, <2>2
  <1>11. \A id \in SessionIds : Settled(id)
    BY <1>0, <1>2, <1>3, <1>6, <1>7, InsertedSettles
  <1>12. ASSUME NEW id \in (Schedules \X Days) \ edited', Held(id) PROVE Obeys(id) \/ Stays(id)
    <2>1. id \in SessionIds
      BY Ids
    <2>2. CASE ses'[id] = ses[id]
      <3>1. ses[id].sched \in Schedules
        BY <1>12, <2>2, RowFacts DEF Held
      <3> QED BY <1>2, <1>7, <2>2, <3>1 DEF Stays, Live, GenerateSessions
    <2>3. CASE /\ id[2] \in days /\ ses'[id].sched = s /\ ses'[id].date = id[2]
               /\ ses'[id].tutor = sched[s].tutor
      BY <1>2, <1>5, <1>7, <2>3 DEF Obeys, Ends
    <2> QED BY <1>0, <1>3, <1>6, <2>1, <2>2, <2>3, Inserted DEF Alike
  <1>13. Copies /\ WindowsOpen' /\ today' >= today /\ edited \subseteq edited'
    <2>1. \A q \in Replicas : pass'[q] = IF q = r THEN w ELSE pass[q]
      BY <1>4 DEF TypeOK
    <2> QED BY <1>4, <1>i, <1>u, <2>1 DEF Copies, WindowsOpen, requests, history
  <1> QED BY <1>8, <1>9, <1>10, <1>11, <1>12, <1>13, SoundStep

\* The schedule keeps everything but its end, which may come nearer, and tutor.
EndsSooner(t) ==
  /\ sched'[t].state = sched[t].state /\ sched'[t].from = sched[t].from
  /\ sched'[t].gen = sched[t].gen /\ sched'[t].dow = sched[t].dow
  /\ \/ sched'[t].until = sched[t].until
     \/ sched'[t].until # NoDate /\ Ends(sched[t], sched'[t].until)

\* A schedule that starts with the sessions of its first month, as the others go
\* on or end sooner.
LEMMA NewSchedule ==
  ASSUME SessionsInvariant, UNCHANGED inherits,
         NEW table, Alike(table), NEW n \in Schedules, ~InUse(n),
         NEW row \in Schedule, row.state = "live", row.gen = endOfMonth(row.from),
         row.from \in RequestDates, sched'[n] = row,
         NEW days, days = sessionsForScheduleBetween(row, row.from, endOfMonth(row.from)),
         ses' = InsertSessions(table, n, row, days),
         \A t \in Schedules \ {n} : EndsSooner(t)
  PROVE  /\ days \in SUBSET Days /\ Advances /\ \A t \in Schedules : Continues(t)
         /\ \A id \in SessionIds : Settled(id)
         /\ \A d \in days : row.from <= d /\ Ends(row, d)
  <1> USE DEF SessionsInvariant
  <1>0. row.from \in 0 .. LastDay /\ row.from \in Nat /\ today \in 0 .. LastDay
    BY SessionConstants DEF RequestDates, TypeOK
  <1>1. row.gen \in Days /\ LastDate \in Int /\ today \in Int
    BY <1>0, Horizon
  <1>i. /\ \A t \in Schedules : /\ sched[t].from \in Int /\ sched[t].until \in Int
                                /\ sched[t].gen \in Int
        /\ Days \subseteq Int
    BY Dates DEF TypeOK
  <1>2. \A d \in days : /\ d \in Days /\ row.from <= d /\ Ends(row, d) /\ d <= row.gen
    BY <1>0, <1>1, <1>i DEF sessionsForScheduleBetween, Days
  <1>3. \A d \in Int : Meets(row, d) /\ d <= row.gen => d \in days
    BY <1>0, <1>1, <1>i DEF sessionsForScheduleBetween, Meets
  <1>4. days \in SUBSET Days
    BY <1>2
  <1>5. Advances
    <2>1. \A t \in Schedules : Grows(t)
      BY <1>i DEF Grows, InUse, EndsSooner
    <2>2. ASSUME NEW o \in Schedules, NEW d \in Days PROVE Appears(o, d)
      <3>1. /\ Made(o, d) => ses'[<<o, d>>].status # "none"
            /\ Fresh(o, d) => o = n /\ d \in days
        BY <1>4, InsertedFresh
      <3> QED BY <1>2, <3>1 DEF Appears
    <2> QED BY <2>1, <2>2 DEF Advances
  <1>6. ASSUME NEW t \in Schedules PROVE Continues(t)
    <2>1. CASE t = n
      <3>1. ASSUME NEW d \in today .. LastDate, Meets(row, d), d <= row.gen
            PROVE  \E o \in inherits'[n] \cup {n} : ses'[<<o, d>>].status # "none"
        <4>1. d \in days
          BY <1>1, <1>3, <3>1
        <4> QED BY <1>4, <4>1, InsertedFills
      <3>2. Fills(n)
        BY <3>1 DEF Fills
      <3> QED BY <2>1, <3>2 DEF Continues
    <2>2. CASE t # n
      <3>1. Live(t) => Fills(t)
        BY <1>1, <1>i, <2>2 DEF Fills, Live, InUse, EndsSooner
      <3> QED BY <2>2, <3>1 DEF Continues, Live, EndsSooner
    <2> QED BY <2>1, <2>2
  <1>7. \A id \in SessionIds : Settled(id)
    BY <1>4, InsertedSettles
  <1> QED BY <1>2, <1>4, <1>5, <1>6, <1>7

\* A schedule is added to the class.
LEMMA CreateStep ==
  ASSUME SessionsInvariant, NEW s \in Schedules, NEW item \in Offers,
         CreateInitialSchedules(s, item)
  PROVE  SessionsInvariant'
  <1> USE DEF SessionsInvariant
  <1> DEFINE last == endOfMonth(item.from)
             row == [state |-> "live", dow |-> item.dow, from |-> item.from,
                     until |-> item.until, gen |-> last, tutor |-> item.tutor]
             days == sessionsForScheduleBetween(row, item.from, last)
  <1>0. item \in [dow : Weekdays, from : RequestDates, tutor : Tutors \cup {Null},
                  until : RequestDates \cup {NoDate}]
    BY SessionConstants
  <1>d. \A d \in RequestDates : d \in Days /\ endOfMonth(d) \in Days
    BY Horizon, SessionConstants DEF RequestDates
  <1>1. /\ row \in Schedule /\ row.from = item.from /\ row.gen = last /\ row.state = "live"
        /\ row.from \in RequestDates
    BY <1>0, <1>d DEF Schedule
  <1>2. /\ sched' = [sched EXCEPT ![s] = row] /\ ses' = InsertSessions(ses, s, row, days)
        /\ ~InUse(s) /\ creating' = FALSE
        /\ UNCHANGED <<today, type, class, enrolled, pass, edit, doomed, marking, marked,
                       left, history>>
    BY DEF CreateInitialSchedules, Unused, InUse
  <1> HIDE DEF row
  <1>3. \A t \in Schedules : sched'[t] = IF t = s THEN row ELSE sched[t]
    BY <1>2 DEF TypeOK
  <1>4. Alike(ses) /\ \A t \in Schedules \ {s} : EndsSooner(t)
    BY <1>3 DEF Alike, TypeOK, EndsSooner
  <1>5. /\ days \in SUBSET Days /\ Advances /\ \A t \in Schedules : Continues(t)
        /\ \A id \in SessionIds : Settled(id)
        /\ \A d \in days : row.from <= d /\ Ends(row, d)
    <2>1. UNCHANGED inherits
      BY <1>2 DEF history
    <2> QED BY <1>1, <1>2, <1>3, <1>4, <2>1, NewSchedule
  <1> HIDE DEF days
  <1>6. TypeOK'
    <2>1. ses' \in [SessionIds -> Session]
      BY <1>1, <1>2, <1>4, <1>5, Inserted DEF Alike
    <2>2. sched' \in [Schedules -> Schedule]
      BY <1>1, <1>2 DEF TypeOK
    <2> QED BY <1>2, <2>1, <2>2 DEF TypeOK, history
  <1>7. ASSUME NEW id \in (Schedules \X Days) \ edited', Held(id) PROVE Obeys(id) \/ Stays(id)
    <2>1. id \in SessionIds
      BY Ids
    <2>2. CASE ses'[id] = ses[id]
      <3>1. ses[id].sched \in Schedules /\ ses[id].sched # s
        BY <1>2, <1>7, <2>2, RowFacts DEF Held
      <3> QED BY <1>3, <2>2, <3>1 DEF Stays
    <2>3. CASE /\ id[2] \in days /\ ses'[id].sched = s /\ ses'[id].date = id[2]
               /\ ses'[id].tutor = row.tutor
      BY <1>1, <1>3, <1>5, <2>3 DEF Obeys, Ends
    <2> QED BY <1>1, <1>2, <1>4, <1>5, <2>1, <2>2, <2>3, Inserted DEF Alike
  <1>8. Copies /\ WindowsOpen' /\ today' >= today /\ edited \subseteq edited'
    BY <1>2, RequestFrame DEF history
  <1> QED BY <1>5, <1>6, <1>7, <1>8, SoundStep

\* The row of a schedule that ends the day before.
LEMMA EndedRow ==
  ASSUME NEW x \in Schedule, NEW eff \in Days \ {0}, NEW y, y = [x EXCEPT !.until = eff - 1]
  PROVE  /\ y \in Schedule /\ y.state = x.state /\ y.dow = x.dow /\ y.from = x.from
         /\ y.gen = x.gen /\ y.tutor = x.tutor /\ y.until = eff - 1
  <1>1. eff - 1 \in Days
    <2>1. LastDate \in Nat
      BY Horizon, SessionConstants
    <2> QED BY <2>1 DEF Days
  <1> QED BY <1>1 DEF Schedule

\* What Succeed does to the schedules.
LEMMA Succeeded ==
  ASSUME TypeOK, NEW s \in Schedules, NEW n \in Schedules, s # n, NEW eff \in RequestDates,
         validateReplacementDate(sched[s], eff), NEW row \in Schedule, Succeed(s, n, eff, row)
  PROVE  /\ sched' \in [Schedules -> Schedule] /\ sched'[n] = row
         /\ \A t \in Schedules \ {s, n} : sched'[t] = sched[t]
         /\ \A t \in Schedules \ {n} : EndsSooner(t)
         /\ sched'[s].tutor = sched[s].tutor /\ sched'[s].until = eff - 1
         /\ sched'[s].until # NoDate /\ eff \in Int
  <1> DEFINE old == [sched[s] EXCEPT !.until = eff - 1]
  <1>0. eff \in Days /\ eff # 0 /\ eff \in Nat /\ sched[s] \in Schedule
    BY Horizon, SessionConstants DEF RequestDates, TypeOK
  <1>1. /\ old.state = sched[s].state /\ old.dow = sched[s].dow /\ old.from = sched[s].from
        /\ old.gen = sched[s].gen /\ old.tutor = sched[s].tutor /\ old.until = eff - 1
        /\ old \in Schedule
    BY <1>0, EndedRow
  <1>2. sched' = [sched EXCEPT ![s] = old, ![n] = row]
    BY DEF Succeed, TypeOK
  <1> HIDE DEF old
  <1>3. \A t \in Schedules : sched'[t] = IF t = n THEN row ELSE IF t = s THEN old ELSE sched[t]
    BY <1>2 DEF TypeOK
  <1>4. sched' \in [Schedules -> Schedule]
    BY <1>1, <1>2 DEF TypeOK
  <1>5. EndsSooner(s)
    <2>1. sched[s].until \in Int
      BY Dates DEF TypeOK
    <2>2. Ends(sched[s], eff - 1) /\ eff - 1 # NoDate
      BY <1>0, <2>1 DEF validateReplacementDate, Ends, NoDate
    <2> QED BY <1>1, <1>3, <2>2 DEF EndsSooner
  <1>6. \A t \in Schedules \ {s, n} : EndsSooner(t)
    BY <1>3 DEF EndsSooner
  <1> QED BY <1>0, <1>1, <1>3, <1>4, <1>5, <1>6 DEF NoDate

\* A permanent change: the old schedule ends, its sessions from then on are
\* cancelled, and its successor starts with those of its first month.
LEMMA ChangeScheduleStep ==
  ASSUME SessionsInvariant, NEW s \in Schedules, NEW n \in Schedules, NEW req \in Changes,
         ChangeSchedulePermanent(s, n, req)
  PROVE  SessionsInvariant'
  <1> USE DEF SessionsInvariant
  <1> DEFINE eff == req.from
             last == endOfMonth(eff)
             row == [sched[s] EXCEPT !.dow = req.dow, !.from = eff, !.gen = last,
                                     !.tutor = req.tutor]
             days == sessionsForScheduleBetween(row, eff, last)
             table == CancelFutureSessionsBySchedule(s, eff)
  <1>0. /\ req.dow \in Weekdays /\ eff \in RequestDates /\ req.tutor \in Tutors \cup {Null}
        /\ sched[s] \in Schedule
    BY SessionConstants DEF TypeOK
  <1>d. eff \in Days /\ last \in Days
    BY <1>0, Horizon, SessionConstants DEF RequestDates
  <1>l. /\ Live(s) /\ InUse(s) /\ ~InUse(n) /\ s # n /\ validateReplacementDate(sched[s], eff)
    BY DEF ChangeSchedulePermanent, Unused, Live, InUse
  <1>1. /\ row \in Schedule /\ row.state = "live" /\ row.from = eff /\ row.gen = last
        /\ row.tutor = req.tutor
    <2>1. /\ row \in Schedule /\ row.state = sched[s].state /\ row.from = eff
          /\ row.gen = last /\ row.tutor = req.tutor
      <3> DEFINE x == sched[s]
                 dow == req.dow
                 tutor == req.tutor
      <3>1. x \in Schedule /\ dow \in Weekdays /\ tutor \in Tutors \cup {Null}
        BY <1>0
      <3>2. row = [x EXCEPT !.dow = dow, !.from = eff, !.gen = last, !.tutor = tutor]
        OBVIOUS
      <3> HIDE DEF x, dow, tutor, row, eff, last
      <3>3. /\ row \in Schedule /\ row.state = x.state /\ row.from = eff
            /\ row.gen = last /\ row.tutor = tutor
        BY <1>d, <3>1, <3>2 DEF Schedule
      <3> QED BY <3>3 DEF x, tutor
    <2> QED BY <1>l, <2>1 DEF Live
  <1>2. /\ Succeed(s, n, eff, row) /\ ses' = InsertSessions(table, n, row, days) /\ Request
        /\ UNCHANGED <<today, type, class, enrolled, pass, requests, marked, history>>
    BY DEF ChangeSchedulePermanent
  <1>c. Cancels(table, FutureSessions(s, eff))
    BY Cancelled DEF CancelFutureSessionsBySchedule, TypeOK
  <1> HIDE DEF row, table
  <1>3. /\ sched' \in [Schedules -> Schedule] /\ sched'[n] = row
        /\ \A t \in Schedules \ {s, n} : sched'[t] = sched[t]
        /\ \A t \in Schedules \ {n} : EndsSooner(t)
        /\ sched'[s].tutor = sched[s].tutor /\ sched'[s].until = eff - 1
        /\ sched'[s].until # NoDate /\ eff \in Int
    BY <1>0, <1>1, <1>2, <1>l, Succeeded
  <1>4. Alike(table)
    BY <1>c DEF Cancels, Alike, FutureSessions
  <1>u. UNCHANGED inherits
    BY <1>2 DEF history
  <1>5. /\ days \in SUBSET Days /\ Advances /\ \A t \in Schedules : Continues(t)
        /\ \A id \in SessionIds : Settled(id)
        /\ \A d \in days : row.from <= d /\ Ends(row, d)
    BY <1>0, <1>1, <1>2, <1>3, <1>4, <1>l, <1>u, NewSchedule
  <1> HIDE DEF days
  <1>6. TypeOK'
    <2>1. ses' \in [SessionIds -> Session]
      BY <1>1, <1>2, <1>4, <1>5, Inserted DEF Alike
    <2>2. left' \in 0 .. MaxRequests
      BY <1>2, RequestsBounded
    <2> QED BY <1>2, <1>3, <2>1, <2>2 DEF TypeOK, requests, history
  <1>7. ASSUME NEW id \in (Schedules \X Days) \ edited', Held(id) PROVE Obeys(id) \/ Stays(id)
    <2>1. id \in SessionIds /\ id \notin edited
      BY <1>2, Ids DEF history
    <2>2. CASE ses'[id] = table[id]
      <3>1. ses'[id] = ses[id] /\ id \notin FutureSessions(s, eff)
        BY <1>7, <1>c, <2>1, <2>2 DEF Held, Cancels
      <3>2. ses[id].status = "scheduled" /\ ~ses[id].deleted
        BY <1>7, <3>1 DEF Held
      <3>3. ses[id].sched \in Schedules /\ ses[id].sched # n /\ ses[id].date \in Int
        BY <1>l, <3>2, RowFacts
      <3>4. CASE ses[id].sched = s
        <4>1. ses[id].date <= eff - 1
          BY <1>3, <2>1, <3>1, <3>2, <3>3, <3>4 DEF FutureSessions
        <4>2. /\ sched[s].from <= ses[id].date
              /\ ses[id].tutor = sched[s].tutor \/ ses[id].tutor = Null
          BY <2>1, <3>2, <3>4, HeldFacts
        <4>3. sched'[s].state = "live" /\ sched'[s].from = sched[s].from
          BY <1>3, <1>l DEF EndsSooner, Live
        <4> QED BY <1>3, <3>1, <3>4, <4>1, <4>2, <4>3 DEF Obeys, Ends
      <3>5. CASE ses[id].sched # s
        BY <1>3, <3>1, <3>3, <3>5 DEF Stays
      <3> QED BY <3>4, <3>5
    <2>3. CASE /\ id[2] \in days /\ ses'[id].sched = n /\ ses'[id].date = id[2]
               /\ ses'[id].tutor = row.tutor
      BY <1>1, <1>3, <1>5, <2>3 DEF Obeys, Ends
    <2> QED BY <1>1, <1>2, <1>4, <1>5, <2>1, <2>2, <2>3, Inserted DEF Alike
  <1>8. Copies /\ WindowsOpen' /\ today' >= today /\ edited \subseteq edited'
    BY <1>2, RequestFrame DEF requests, history
  <1> QED BY <1>5, <1>6, <1>7, <1>8, SoundStep

\* A permanent change of the tutor: the successor takes the sessions from then
\* on, and the range that was generated.
LEMMA ChangeTutorStep ==
  ASSUME SessionsInvariant, NEW s \in Schedules, NEW n \in Schedules, NEW eff \in RequestDates,
         NEW tutor \in Tutors, ChangeTutorPermanent(s, n, eff, tutor)
  PROVE  SessionsInvariant'
  <1> USE DEF SessionsInvariant
  <1> DEFINE row == [sched[s] EXCEPT !.from = eff, !.tutor = tutor, !.gen = sched[s].gen]
             moved == FutureSessions(s, eff)
  <1>0. sched[s] \in Schedule /\ eff \in Days /\ eff \in Int
    BY Horizon, SessionConstants DEF TypeOK, RequestDates
  <1>l. /\ Live(s) /\ InUse(s) /\ ~InUse(n) /\ s # n /\ validateReplacementDate(sched[s], eff)
    BY DEF ChangeTutorPermanent, Unused, Live, InUse
  <1>i. /\ \A t \in Schedules : /\ sched[t].from \in Int /\ sched[t].until \in Int
                                /\ sched[t].gen \in Int
        /\ LastDate \in Int /\ today \in Int
    <2>1. today \in 0 .. LastDay
      BY SessionConstants DEF TypeOK
    <2> QED BY <2>1, Dates, Horizon DEF TypeOK
  <1>1. /\ row \in Schedule /\ row.state = "live" /\ row.from = eff /\ row.gen = sched[s].gen
        /\ row.tutor = tutor /\ row.dow = sched[s].dow /\ row.until = sched[s].until
    <2>1. sched[s].gen \in Days \cup {NoDate}
      BY <1>0 DEF Schedule
    <2>2. /\ row \in Schedule /\ row.state = sched[s].state /\ row.until = sched[s].until
          /\ row.dow = sched[s].dow /\ row.from = eff /\ row.gen = sched[s].gen
          /\ row.tutor = tutor
      <3> DEFINE x == sched[s]
                 gen == sched[s].gen
      <3>1. row = [x EXCEPT !.from = eff, !.tutor = tutor, !.gen = gen]
        OBVIOUS
      <3>2. x \in Schedule /\ gen \in Days \cup {NoDate}
        BY <1>0, <2>1
      <3> HIDE DEF x, gen, row
      <3>3. /\ row \in Schedule /\ row.state = x.state /\ row.until = x.until
            /\ row.dow = x.dow /\ row.from = eff /\ row.gen = gen /\ row.tutor = tutor
        BY <1>0, <3>1, <3>2 DEF Schedule
      <3> QED BY <3>3 DEF x, gen
    <2> QED BY <1>l, <2>2 DEF Live
  <1>2. /\ Succeed(s, n, eff, row) /\ Request
        /\ ses' = UpdateFutureSessionsTutor(s, tutor, n, eff)
        /\ inherits' = [inherits EXCEPT ![n] = inherits[s] \cup {s}]
        /\ UNCHANGED <<today, type, class, enrolled, pass, requests, marked, edited>>
    BY DEF ChangeTutorPermanent, InheritedRange
  <1> HIDE DEF row
  <1>3. /\ sched' \in [Schedules -> Schedule] /\ sched'[n] = row
        /\ \A t \in Schedules \ {s, n} : sched'[t] = sched[t]
        /\ \A t \in Schedules \ {n} : EndsSooner(t)
        /\ sched'[s].tutor = sched[s].tutor /\ sched'[s].until = eff - 1
        /\ sched'[s].until # NoDate
    BY <1>0, <1>1, <1>2, <1>l, Succeeded
  <1>4. /\ ses' \in [SessionIds -> Session]
        /\ \A id \in SessionIds :
              IF id \in moved
              THEN /\ ses'[id].status = ses[id].status /\ ses'[id].deleted = ses[id].deleted
                   /\ ses'[id].sched = n /\ ses'[id].date = ses[id].date /\ ses'[id].tutor = tutor
              ELSE ses'[id] = ses[id]
    BY <1>0, <1>2, TutorUpdated DEF TypeOK
  <1> HIDE DEF moved
  <1>5. \A t \in Schedules : inherits'[t] = IF t = n THEN inherits[s] \cup {s} ELSE inherits[t]
    BY <1>2 DEF TypeOK
  <1>6. TypeOK'
    <2>1. inherits' \in [Schedules -> SUBSET Schedules]
      BY <1>2 DEF TypeOK
    <2>2. left' \in 0 .. MaxRequests
      BY <1>2, RequestsBounded
    <2> QED BY <1>2, <1>3, <1>4, <2>1, <2>2 DEF TypeOK, requests
  <1>7. \A o \in Schedules, d \in Days : ses'[<<o, d>>].status # "none" <=> Made(o, d)
    BY <1>4, Ids DEF Made
  <1>8. Took(n, s)
    <2>1. sched[s].from <= eff
      BY <1>l DEF validateReplacementDate
    <2> QED BY <1>0, <1>1, <1>3, <1>5, <1>7, <1>l, <2>1 DEF Took, Fresh
  <1>9. Advances
    <2>1. \A t \in Schedules : Grows(t)
      BY <1>3, <1>5, <1>i, <1>l DEF Grows, InUse, EndsSooner
    <2>2. \A o \in Schedules, d \in Days : Appears(o, d)
      BY <1>7 DEF Appears, Fresh
    <2> QED BY <1>5, <1>8, <2>1, <2>2 DEF Advances
  <1>10. ASSUME NEW t \in Schedules PROVE Continues(t)
    <2>1. CASE t = n
      BY <1>1, <1>3, <1>8, <1>l, <2>1 DEF Continues
    <2>2. CASE t # n
      <3>1. Live(t) => Fills(t)
        BY <1>3, <1>i, <2>2 DEF Fills, Live, InUse, EndsSooner
      <3> QED BY <1>3, <2>2, <3>1 DEF Continues, Live, EndsSooner
    <2> QED BY <2>1, <2>2
  <1>11. ASSUME NEW id \in SessionIds PROVE Settled(id)
    <2>1. CASE id \in moved
      <3>1. ses[id].status = "scheduled" /\ ses[id].sched = s
        BY <2>1 DEF moved, FutureSessions
      <3>2. Placed(id, ses[id]) /\ s # Null
        BY <3>1, Ids DEF RowsPlaced
      <3>3. id \notin Editors /\ ses[id].date = id[2] /\ id[1] \in inherits[s] \cup {s}
        BY <3>1, <3>2 DEF Placed
      <3> QED BY <1>1, <1>3, <1>4, <1>5, <2>1, <3>1, <3>3 DEF Settled, PlacedNext
    <2>2. CASE id \notin moved
      BY <1>4, <2>2 DEF Settled
    <2> QED BY <2>1, <2>2
  <1>12. ASSUME NEW id \in (Schedules \X Days) \ edited', Held(id) PROVE Obeys(id) \/ Stays(id)
    <2>1. id \in SessionIds /\ id \notin edited
      BY <1>2, Ids
    <2>2. ses[id].status = "scheduled" /\ ~ses[id].deleted
      BY <1>4, <1>12, <2>1 DEF Held
    <2>3. ses[id].sched \in Schedules /\ ses[id].sched # n /\ ses[id].date \in Int
      BY <1>l, <2>2, RowFacts
    <2>4. /\ sched[ses[id].sched].from <= ses[id].date /\ Ends(sched[ses[id].sched], ses[id].date)
          /\ ses[id].tutor = sched[ses[id].sched].tutor \/ ses[id].tutor = Null
      BY <2>1, <2>2, HeldFacts
    <2>5. CASE id \in moved
      <3>1. ses[id].sched = s /\ ses[id].date >= eff
        BY <2>5 DEF moved, FutureSessions
      <3>2. eff <= ses[id].date
        BY <1>0, <2>3, <3>1
      <3> QED BY <1>1, <1>3, <1>4, <2>1, <2>4, <2>5, <3>1, <3>2 DEF Obeys, Ends
    <2>6. CASE id \notin moved /\ ses[id].sched = s
      <3>1. ses[id].date <= eff - 1
        BY <1>0, <2>1, <2>2, <2>3, <2>6 DEF moved, FutureSessions
      <3>2. sched'[s].state = "live" /\ sched'[s].from = sched[s].from
        BY <1>3, <1>l DEF EndsSooner, Live
      <3> QED BY <1>3, <1>4, <2>1, <2>4, <2>6, <3>1, <3>2 DEF Obeys, Ends
    <2>7. CASE id \notin moved /\ ses[id].sched # s
      BY <1>3, <1>4, <2>1, <2>3, <2>7 DEF Stays
    <2> QED BY <2>5, <2>6, <2>7
  <1>13. Copies /\ WindowsOpen' /\ today' >= today /\ edited \subseteq edited'
    BY <1>2, RequestFrame DEF requests
  <1> QED BY <1>6, <1>9, <1>10, <1>11, <1>12, <1>13, SoundStep

-----------------------------------------------------------------------------
(* The edits of single sessions. *)

\* A step that saves an edited row, and a replacement if there is one.
LEMMA EditStep ==
  ASSUME SessionsInvariant, NEW e \in Editors, Editing(e),
         NEW row \in Session, row.sched = edit[e].row.sched, row.date = edit[e].row.date,
         row.status # "none",
         ses' \in [SessionIds -> Session],
         ses[e].status # "none" => ses'[e].status # "none",
         ses'[e] = ses[e] \/ (ses'[e].status # "none" /\ ses'[e].sched = Null),
         edit[e].id # e => ses'[edit[e].id] = row,
         \A id \in SessionIds \ {e, edit[e].id} : ses'[id] = ses[id],
         edited' = edited \cup {edit[e].id},
         edit' = [edit EXCEPT ![e] = [NoEdit EXCEPT !.kind = "done"]],
         UNCHANGED <<today, type, class, enrolled, sched, pass, creating, doomed,
                     marking, marked, left, inherits>>
  PROVE  SessionsInvariant'
  <1> USE DEF SessionsInvariant
  <1> DEFINE x == edit[e].id
             done == [NoEdit EXCEPT !.kind = "done"]
  <1>1. /\ x \in SessionIds /\ ses[x].status # "none" /\ Placed(x, edit[e].row)
    BY DEF EditsPlaced
  <1>2. done \in Edit /\ done.kind = "done"
    BY DEF NoEdit, NoSession, Edit, Session
  <1>3. \A o \in Editors : edit'[o] = IF o = e THEN done ELSE edit[o]
    BY DEF TypeOK
  <1>4. TypeOK'
    <2>1. edited' \subseteq SessionIds /\ edit' \in [Editors -> Edit]
      BY <1>1, <1>2 DEF TypeOK
    <2> QED BY <2>1 DEF TypeOK
  <1> HIDE DEF done, x
  <1>5. \A id \in Schedules \X Days : ses[id].status = "none" <=> ses'[id].status = "none"
    <2> SUFFICES ASSUME NEW id \in Schedules \X Days
                 PROVE  ses[id].status = "none" <=> ses'[id].status = "none"
      OBVIOUS
    <2>1. id \in SessionIds /\ id # e
      BY Ids
    <2> QED BY <1>1, <2>1 DEF x
  <1>6. Advances /\ \A t \in Schedules : Continues(t)
    BY <1>5, QuietSchedules
  <1>7. ASSUME NEW id \in SessionIds PROVE Settled(id)
    <2>1. CASE id = e
      BY <2>1 DEF Settled, PlacedNext
    <2>2. CASE id # e /\ id = x
      <3>1. PlacedNext(x, edit[e].row)
        BY <1>1, <1>6, PlacedStays
      <3>2. ses'[id] = row
        BY <2>2 DEF x
      <3> QED BY <2>2, <3>1, <3>2 DEF Settled, PlacedNext
    <2>3. CASE id # e /\ id # x
      BY <2>3 DEF Settled, x
    <2> QED BY <2>1, <2>2, <2>3
  <1>8. ASSUME NEW id \in (Schedules \X Days) \ edited' PROVE Stays(id)
    <2>1. id \in SessionIds /\ id # e /\ id # edit[e].id
      BY Ids
    <2> QED BY <2>1 DEF Stays
  <1>9. Copies /\ WindowsOpen' /\ today' >= today /\ edited \subseteq edited'
    BY <1>2, <1>3 DEF Copies, WindowsOpen, TypeOK
  <1> QED BY <1>4, <1>6, <1>7, <1>8, <1>9, SoundStep

\* The row an editor has read is a row.
LEMMA EditTyped ==
  ASSUME SessionsInvariant, NEW e \in Editors
  PROVE  edit[e].row \in Session
  BY DEF SessionsInvariant, TypeOK, Edit

\* A session is moved: its row is closed and a replacement written.
LEMMA RescheduleStep ==
  ASSUME SessionsInvariant, NEW e \in Editors, NEW d \in RequestDates, RescheduleSession(e, d)
  PROVE  SessionsInvariant'
  <1> DEFINE old == edit[e].row
             x == edit[e].id
             row == [old EXCEPT !.status = "rescheduled"]
             new == [row EXCEPT !.status = "scheduled", !.sched = Null, !.date = d, !.origin = x]
  <1>1. Editing(e)
    BY DEF RescheduleSession, Editing
  <1>2. old \in Session /\ x \in SessionIds /\ d \in Days /\ ses \in [SessionIds -> Session]
    BY <1>1, EditTyped, Horizon, SessionConstants
       DEF SessionsInvariant, EditsPlaced, RequestDates, TypeOK
  <1>3. /\ ses' = [ses EXCEPT ![x] = row, ![e] = new]
        /\ edited' = edited \cup {x}
        /\ edit' = [edit EXCEPT ![e] = [NoEdit EXCEPT !.kind = "done"]]
        /\ UNCHANGED <<today, type, class, enrolled, sched, pass, creating, doomed,
                       marking, marked, left, inherits>>
    BY DEF RescheduleSession, Save
  <1> HIDE DEF old, x
  <1>4. row \in Session /\ row.sched = old.sched /\ row.date = old.date /\ row.status # "none"
    BY <1>2 DEF Session
  <1>5. new \in Session /\ new.sched = Null /\ new.status # "none"
    <2> HIDE DEF row
    <2> QED BY <1>2, <1>4 DEF Session
  <1> HIDE DEF row, new
  <1>6. e \in SessionIds
    BY Ids
  <1>7. /\ ses' \in [SessionIds -> Session] /\ ses'[e] = new /\ (x # e => ses'[x] = row)
        /\ \A id \in SessionIds \ {e, x} : ses'[id] = ses[id]
    BY <1>2, <1>3, <1>4, <1>5, <1>6
  <1> QED BY <1>1, <1>3, <1>4, <1>5, <1>7, EditStep DEF x, old

\* A session gets a substitute.
LEMMA SubstituteStep ==
  ASSUME SessionsInvariant, NEW e \in Editors, NEW tutor \in Tutors, ChangeTutorTemporary(e, tutor)
  PROVE  SessionsInvariant'
  <1> DEFINE old == edit[e].row
             x == edit[e].id
             row == [old EXCEPT !.tutor = tutor]
  <1>1. Editing(e)
    BY DEF ChangeTutorTemporary, Editing
  <1>2. /\ old \in Session /\ x \in SessionIds /\ ses \in [SessionIds -> Session]
        /\ old.status # "none" /\ ses[x].status # "none" /\ Placed(x, old)
    BY <1>1, EditTyped DEF SessionsInvariant, EditsPlaced, TypeOK
  <1>3. /\ ses' = [ses EXCEPT ![x] = row]
        /\ edited' = edited \cup {x}
        /\ edit' = [edit EXCEPT ![e] = [NoEdit EXCEPT !.kind = "done"]]
        /\ UNCHANGED <<today, type, class, enrolled, sched, pass, creating, doomed,
                       marking, marked, left, inherits>>
    BY DEF ChangeTutorTemporary, Save
  <1> HIDE DEF old, x
  <1>4. row \in Session /\ row.sched = old.sched /\ row.date = old.date /\ row.status # "none"
    BY <1>2 DEF Session
  <1> HIDE DEF row
  <1>5. x = e => row.sched = Null
    BY <1>2, <1>4 DEF Placed
  <1>6. e \in SessionIds
    BY Ids
  <1>7. /\ ses' \in [SessionIds -> Session] /\ ses'[x] = row
        /\ \A id \in SessionIds \ {x} : ses'[id] = ses[id]
    BY <1>2, <1>3, <1>4
  <1>8. ses'[e] = ses[e] \/ (ses'[e].status # "none" /\ ses'[e].sched = Null)
    BY <1>4, <1>5, <1>6, <1>7
  <1>9. ses[e].status # "none" => ses'[e].status # "none"
    BY <1>8
  <1> QED BY <1>1, <1>3, <1>4, <1>6, <1>7, <1>8, <1>9, EditStep DEF x, old

-----------------------------------------------------------------------------
(* Theorems. *)

\* No step of the worker, of a change, of a deletion or of an edit breaks the
\* invariant, in whatever order they come.
LEMMA SessionsStep == SessionsInvariant /\ [Next]_vars => SessionsInvariant'
  <1> SUFFICES ASSUME SessionsInvariant, [Next]_vars PROVE SessionsInvariant'
    OBVIOUS
  <1>1. CASE Midnight
    BY <1>1, MidnightStep
  <1>2. CASE \/ EnrollmentMoves \/ FindClass \/ DeleteClassStart \/ RecordAttendance
             \/ \E id \in SessionIds : AcceptAttendance(id)
             \/ UNCHANGED vars
    BY <1>2, ReadingStep
  <1>3. CASE DeleteClassCommit
    BY <1>3, DeleteClassStep
  <1>4. ASSUME NEW r \in Replicas, StartPass(r) \/ EndPass(r) PROVE SessionsInvariant'
    BY <1>4, StartPassStep, PassStep
  <1>5. ASSUME NEW r \in Replicas, NEW s \in Schedules,
               GenerateSessions(r, s) \/ GenerationFails(r, s)
        PROVE  SessionsInvariant'
    BY <1>5, GenerateStep, PassStep
  <1>6. ASSUME NEW s \in Schedules, DeleteSchedule(s) PROVE SessionsInvariant'
    BY <1>6, DeleteScheduleStep
  <1>7. ASSUME NEW s \in Schedules, NEW item \in Offers, CreateInitialSchedules(s, item)
        PROVE  SessionsInvariant'
    BY <1>7, CreateStep
  <1>8. ASSUME NEW s \in Schedules, NEW n \in Schedules, NEW req \in Changes,
               ChangeSchedulePermanent(s, n, req)
        PROVE  SessionsInvariant'
    BY <1>8, ChangeScheduleStep
  <1>9. ASSUME NEW s \in Schedules, NEW n \in Schedules, NEW eff \in RequestDates,
               NEW tutor \in Tutors, ChangeTutorPermanent(s, n, eff, tutor)
        PROVE  SessionsInvariant'
    BY <1>9, ChangeTutorStep
  <1>10. ASSUME NEW s \in Schedules, NEW eff \in RequestDates, NEW tutor \in Tutors,
                AssignFirstTutor(s, eff, tutor)
         PROVE  SessionsInvariant'
    BY <1>10, FirstTutorStep
  <1>11. ASSUME NEW id \in SessionIds, DeleteSession(id) PROVE SessionsInvariant'
    BY <1>11, DeleteSessionStep
  <1>12. ASSUME NEW e \in Editors, NEW id \in SessionIds,
                NEW kind \in {"reschedule", "substitute"}, ReadSession(e, id, kind)
         PROVE  SessionsInvariant'
    BY <1>12, ReadSessionStep
  <1>13. ASSUME NEW e \in Editors, NEW d \in RequestDates, RescheduleSession(e, d)
         PROVE  SessionsInvariant'
    BY <1>13, RescheduleStep
  <1>14. ASSUME NEW e \in Editors, NEW tutor \in Tutors, ChangeTutorTemporary(e, tutor)
         PROVE  SessionsInvariant'
    BY <1>14, SubstituteStep
  <1> QED BY <1>1, <1>2, <1>3, <1>4, <1>5, <1>6, <1>7, <1>8, <1>9, <1>10, <1>11, <1>12,
             <1>13, <1>14 DEF Next

\* At the start nothing is generated.
LEMMA SessionsInit == Init => SessionsInvariant
  <1> SUFFICES ASSUME Init PROVE SessionsInvariant
    OBVIOUS
  <1>0. 0 \in Days /\ LastDay \in Nat \ {0} /\ MaxRequests \in Nat
    BY Horizon, SessionConstants
  <1>1. /\ NoSession \in Session /\ NoSession.status = "none" /\ NoSession.sched = Null
        /\ NoPass \in Pass /\ NoPass.start = 0 /\ NoEdit \in Edit /\ NoEdit.kind = "idle"
    BY <1>0 DEF NoSession, Session, NoPass, Pass, NoEdit, Edit
  <1>2. TypeOK
    <2>1. today \in 1 .. LastDay /\ left \in 0 .. MaxRequests
      BY <1>0 DEF Init
    <2>2. sched \in [Schedules -> Schedule]
      BY SessionConstants DEF Init
    <2>3. /\ ses \in [SessionIds -> Session] /\ pass \in [Replicas -> Pass]
          /\ edit \in [Editors -> Edit] /\ inherits \in [Schedules -> SUBSET Schedules]
      BY <1>1 DEF Init
    <2> QED BY <2>1, <2>2, <2>3 DEF Init, TypeOK
  <1>3. /\ \A id \in SessionIds : ses[id] = NoSession
        /\ \A e \in Editors : edit[e] = NoEdit
        /\ \A r \in Replicas : pass[r] = NoPass
        /\ \A s \in Schedules : inherits[s] = {} /\ sched[s].gen = NoDate
        /\ today = 1
    BY SessionConstants DEF Init
  <1>4. \A s \in Schedules, d \in Days : ~Made(s, d) /\ ses[<<s, d>>].status = "none"
    BY <1>1, <1>3, Ids DEF Made
  <1>5. RowsPlaced /\ EditsPlaced /\ WindowsOpen
    BY <1>1, <1>3 DEF RowsPlaced, EditsPlaced, Editing, WindowsOpen
  <1>6. WithinRange /\ Lineage /\ NeverGeneratedTwice
    BY <1>3, <1>4 DEF WithinRange, Lineage, NeverGeneratedTwice
  <1>7. NoMissingSession
    BY <1>0, <1>3, Horizon DEF NoMissingSession, NoDate
  <1>8. SessionsFollowSchedule /\ SessionsHaveTutor
    BY <1>1, <1>3, Ids DEF SessionsFollowSchedule, SessionsHaveTutor
  <1> QED BY <1>2, <1>5, <1>6, <1>7, <1>8 DEF SessionsInvariant

\* Types, places and ranges of sessions hold throughout: the invariant from
\* which the properties below follow.
THEOREM SessionsInvariantHolds == Spec => []SessionsInvariant
  <1> QED BY SessionsInit, SessionsStep, PTL DEF Spec

\* No date is left behind the watermark sessions_generated_until.
THEOREM NoSessionMissing == Spec => []NoMissingSession
  <1>1. SessionsInvariant => NoMissingSession
    BY DEF SessionsInvariant
  <1> QED BY <1>1, SessionsInvariantHolds, PTL

\* A date is generated once for a schedule and those that follow it, whatever
\* the tenant has done with the session since.
THEOREM GeneratedOnce == Spec => []NeverGeneratedTwice
  <1>1. SessionsInvariant => NeverGeneratedTwice
    BY DEF SessionsInvariant
  <1> QED BY <1>1, SessionsInvariantHolds, PTL

\* Permanent changes and deletions leave no session outside its schedule.
THEOREM SchedulesFollowed == Spec => []SessionsFollowSchedule
  <1>1. SessionsInvariant => SessionsFollowSchedule
    BY DEF SessionsInvariant
  <1> QED BY <1>1, SessionsInvariantHolds, PTL

\* Nor one with the tutor of another.
THEOREM TutorsFollowed == Spec => []SessionsHaveTutor
  <1>1. SessionsInvariant => SessionsHaveTutor
    BY DEF SessionsInvariant
  <1> QED BY <1>1, SessionsInvariantHolds, PTL

=============================================================================
