---------------------------- MODULE NoticeOutbox ----------------------------
(***************************************************************************)
(* Delivery of parent notifications from the outbox: workers claim due     *)
(* rows under a lease, send them to the chat service or the mail provider  *)
(* and record the result.  Time is counted in ticks.                       *)
(***************************************************************************)
EXTENDS Integers, FiniteSets

CONSTANTS
    Rows,           \* outbox rows: one event, one parent, one channel
    Reminders,      \* the rows of session reminders
    Workers,        \* goroutines of the replicas
    MaxAttempts,    \* sends per row
    Lease,          \* a claim's lease
    Timeout,        \* the transport's timeout
    Cutoff,         \* no mail is sent this long after a row's first attempt
    Memory,         \* how long the mail provider remembers an idempotency key
    MaxDelay,       \* the longest wait before a retry
    LastTick,       \* bound: the clock stops; see Due
    MaxCrashes      \* bound: crashes in a behaviour

ASSUME OutboxConstants ==
    /\ Reminders \subseteq Rows
    /\ MaxAttempts \in Nat \ {0} /\ MaxDelay \in Nat \ {0}
    /\ Timeout \in Nat \ {0} /\ Lease \in Nat /\ Timeout < Lease
    /\ Cutoff \in Nat /\ Memory \in Nat /\ Cutoff + Timeout <= Memory
    /\ LastTick \in Nat /\ MaxCrashes \in Nat

Open == {"pending", "sending"}

Row == [status : Open \cup {"none", "sent", "failed"}, attempts : Nat,
        token : Nat, at : Int, first : 0 .. LastTick]

NoRow == [status |-> "none", attempts |-> 0, token |-> 0, at |-> 0, first |-> 0]

\* What a worker holds in memory: the claimed row and, later, the result.
NoCall == [step |-> "idle"]
Call == {NoCall} \cup
        [step : {"send"}, id : Rows, n : Row, since : 0 .. LastTick] \cup
        [step : {"finish"}, id : Rows, n : Row, result : {"pending", "sent", "failed"}]

VARIABLES
    now,
    channel,    \* where each row goes: the parent's mail or the chat service
    row,        \* table parent_notification_outbox
    eligible,   \* reminders some enrollment is still to receive
    call,       \* what every worker is doing
    seen,       \* when the receiver first took the row's idempotency key
    delivered,  \* how many messages the parent got from a row
    crashes

world == <<now, channel, eligible>>
deliveryVars == <<now, channel, row, eligible, call, seen, delivered, crashes>>

Never == -1

-----------------------------------------------------------------------------
DeliveryInit ==
    /\ now = 0 /\ channel \in [Rows -> {"email", "chat"}]
    /\ row = [o \in Rows |-> NoRow]
    /\ eligible = Reminders
    /\ call = [w \in Workers |-> NoCall]
    /\ seen = [o \in Rows |-> Never]
    /\ delivered = [o \in Rows |-> 0]
    /\ crashes = 0

Tick ==
    /\ now < LastTick
    /\ now' = now + 1
    /\ UNCHANGED <<channel, row, eligible, call, seen, delivered, crashes>>

\* A trigger or the reminder worker inserts the row (modules Notices, Sessions).
Capture(o) ==
    /\ row[o].status = "none"
    /\ row' = [row EXCEPT ![o].status = "pending", ![o].at = now]
    /\ UNCHANGED <<world, call, seen, delivered, crashes>>

\* The session of a reminder is cancelled or moved, or its students leave.
NoLongerEligible(o) ==
    /\ o \in eligible
    /\ eligible' = eligible \ {o}
    /\ UNCHANGED <<now, channel, row, call, seen, delivered, crashes>>

-----------------------------------------------------------------------------
(* Claim: one statement. *)

Later(d) == IF now + d > LastTick THEN LastTick + 1 ELSE now + d

Holds(w, o) ==
    call[w] # NoCall /\ call[w].id = o /\ call[w].n.token = row[o].token

\* When the clock has stopped, what is due later counts as due, except that a
\* lease does not run out under a worker that will still report its result.
Due(o) ==
    /\ row[o].status \in Open
    /\ \/ row[o].at <= now
       \/ now = LastTick /\ \A w \in Workers : ~Holds(w, o)

StaleReminders == {o \in Reminders \ eligible : Due(o)}

\* Mutant of Candidates: a row whose lease ran out is not taken again.
Candidates_PendingOnly ==
    {o \in Rows \ StaleReminders :
        /\ Due(o) /\ row[o].status = "pending"
        /\ \A p \in Rows \ StaleReminders :
               Due(p) /\ row[p].status = "pending" => row[o].at <= row[p].at}

\* The oldest due rows; rows of the same age come in the order of their ids.
Candidates ==
    {o \in Rows \ StaleReminders :
        Due(o) /\ \A p \in Rows \ StaleReminders : Due(p) => row[o].at <= row[p].at}

FailStale ==
    [o \in Rows |-> IF o \in StaleReminders
                    THEN [row[o] EXCEPT !.status = "failed", !.token = 0]
                    ELSE row[o]]

\* The lease token is a fresh uuid; the count of claims names it.
Claimed(o) ==
    LET n == row[o].attempts + 1
    IN  [status |-> "sending", attempts |-> n, token |-> n, at |-> Later(Lease),
         first |-> IF n = 1 THEN now ELSE row[o].first]

Claim(w, o) ==
    /\ call[w] = NoCall /\ o \in Candidates
    /\ row' = [FailStale EXCEPT ![o] = Claimed(o)]
    /\ call' = [call EXCEPT ![w] =
                   [step |-> "send", id |-> o, n |-> Claimed(o), since |-> now]]
    /\ UNCHANGED <<world, seen, delivered, crashes>>

\* Nothing is due but stale reminders: the pass ends.
ClaimNothing(w) ==
    /\ call[w] = NoCall /\ Candidates = {} /\ StaleReminders # {}
    /\ row' = FailStale
    /\ UNCHANGED <<world, call, seen, delivered, crashes>>

-----------------------------------------------------------------------------
(* RunOnce after the claim. *)

\* Mutant of Exhausted: mail is retried as long as chat.
Exhausted_NoCutoff(c) == c.n.attempts > MaxAttempts

Exhausted(c) ==
    c.n.attempts > MaxAttempts \/ (channel[c.id] = "email" /\ c.since - c.n.first >= Cutoff)

Result(w, result) ==
    call' = [call EXCEPT ![w] = [step |-> "finish", id |-> call[w].id,
                                 n |-> call[w].n, result |-> result]]

\* Attempts or time are used up: the row is given up without a send.
GiveUp(w) ==
    /\ call[w].step = "send" /\ Exhausted(call[w])
    /\ Result(w, "failed")
    /\ UNCHANGED <<world, row, seen, delivered, crashes>>

\* The receiver drops a message whose idempotency key it remembers: the chat
\* service for good, the mail provider for a while.
Remembers(o) ==
    seen[o] # Never /\ (channel[o] = "email" => now - seen[o] < Memory)

Receive(o) ==
    IF Remembers(o) THEN UNCHANGED <<seen, delivered>>
    ELSE /\ seen' = [seen EXCEPT ![o] = now]
         /\ delivered' = [delivered EXCEPT ![o] = @ + 1]

\* Send reaches the receiver before the transport times out; its answer, if it
\* arrives, carries the message's id.
Send(w, answered) ==
    /\ call[w].step = "send" /\ ~Exhausted(call[w])
    /\ now <= call[w].since + Timeout
    /\ Receive(call[w].id)
    /\ Result(w, IF answered THEN "sent"
                 ELSE IF call[w].n.attempts >= MaxAttempts THEN "failed" ELSE "pending")
    /\ UNCHANGED <<world, row, crashes>>

\* The receiver is not configured, refuses, or is not reached in time.
SendFails(w) ==
    /\ call[w].step = "send" /\ ~Exhausted(call[w])
    /\ Result(w, IF call[w].n.attempts >= MaxAttempts THEN "failed" ELSE "pending")
    /\ UNCHANGED <<world, row, seen, delivered, crashes>>

backoff(n) == IF 2 ^ (n - 1) > MaxDelay THEN MaxDelay ELSE 2 ^ (n - 1)

Finished(n, c) ==
    [status |-> c.result, attempts |-> n.attempts, token |-> 0, first |-> n.first,
     at |-> IF c.result = "pending" THEN Later(backoff(c.n.attempts)) ELSE now]

\* Mutant of Finish: any late result is recorded.
Finish_NoFence(w) ==
    LET c == call[w]
    IN  /\ c.step = "finish"
        /\ row' = [row EXCEPT ![c.id] = Finished(@, c)]
        /\ call' = [call EXCEPT ![w] = NoCall]
        /\ UNCHANGED <<world, seen, delivered, crashes>>

\* Finish records the result unless the lease was lost meanwhile.
Finish(w) ==
    LET c == call[w]
    IN  /\ c.step = "finish"
        /\ row' = IF row[c.id].status = "sending" /\ row[c.id].token = c.n.token
                  THEN [row EXCEPT ![c.id] = Finished(@, c)]
                  ELSE row
        /\ call' = [call EXCEPT ![w] = NoCall]
        /\ UNCHANGED <<world, seen, delivered, crashes>>

\* The process stops before the result is recorded.
Crash(w) ==
    /\ call[w] # NoCall /\ crashes < MaxCrashes
    /\ call' = [call EXCEPT ![w] = NoCall]
    /\ crashes' = crashes + 1
    /\ UNCHANGED <<world, row, seen, delivered>>

-----------------------------------------------------------------------------
DeliveryNext ==
    \/ Tick
    \/ \E o \in Rows : Capture(o) \/ NoLongerEligible(o)
    \/ \E w \in Workers, o \in Rows : Claim(w, o)
    \/ \E w \in Workers, answered \in BOOLEAN : Send(w, answered)
    \/ \E w \in Workers : \/ ClaimNothing(w) \/ GiveUp(w) \/ SendFails(w)
                          \/ Finish(w) \/ Crash(w)

DeliverySpec == DeliveryInit /\ [][DeliveryNext]_deliveryVars

-----------------------------------------------------------------------------
(* Properties. *)

TypeOK ==
    /\ now \in 0 .. LastTick /\ channel \in [Rows -> {"email", "chat"}] /\ eligible \subseteq Reminders
    /\ row \in [Rows -> Row] /\ call \in [Workers -> Call]
    /\ seen \in [Rows -> {Never} \cup (0 .. LastTick)]
    /\ delivered \in [Rows -> Nat] /\ crashes \in 0 .. MaxCrashes

\* A parent gets a notification at most once, however often it is sent again
\* after lost answers, crashes and expired leases: the retries of mail stop
\* before the provider forgets the idempotency key.
DeliveredOnce == \A o \in Rows : delivered[o] <= 1

\* A row recorded as sent was delivered, and no late result of a worker that
\* lost its lease changes what is recorded as sent or failed.
ResultsHold ==
    /\ [](\A o \in Rows : row[o].status = "sent" => delivered[o] > 0)
    /\ [][\A o \in Rows : row[o].status \in {"sent", "failed"} =>
              row'[o] = row[o]]_deliveryVars

\* No row is sent for ever or forgotten: each is recorded as sent or failed,
\* also after the worker that claimed it died.
NoticesResolve ==
    \A o \in Rows : row[o].status \in Open ~> row[o].status \in {"sent", "failed"}

-----------------------------------------------------------------------------
(* The inductive invariant behind the safety properties. *)

Taken(o) == seen[o] # Never

\* The receiver took a row's key no earlier than the row's first attempt, and
\* delivered the message then and only then.
TakenOnce ==
    \A o \in Rows :
        /\ delivered[o] = IF Taken(o) THEN 1 ELSE 0
        /\ row[o].first <= now
        /\ Taken(o) => row[o].attempts > 0 /\ row[o].first <= seen[o]
        /\ row[o].status = "sent" => Taken(o)

\* A worker's copy of a row is of an earlier or of the present attempt, with
\* the row's first one, and it reports as sent only what was taken.
CopiesOfRows ==
    \A w \in Workers : call[w] # NoCall =>
        LET c == call[w]
        IN  /\ 0 < c.n.attempts /\ c.n.attempts <= row[c.id].attempts
            /\ c.n.first = row[c.id].first
            /\ (c.step = "finish" => (c.result = "sent" => Taken(c.id)))

OutboxInvariant == TypeOK /\ TakenOnce /\ CopiesOfRows

=============================================================================
