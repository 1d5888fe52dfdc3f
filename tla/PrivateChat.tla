---------------------------- MODULE PrivateChat ----------------------------
(***************************************************************************)
(* Announcing the decisions on private requests in the chat service.       *)
(*                                                                         *)
(* This module composes PrivateRequest with the chat outbox.  The          *)
(* transaction that decides on a request also writes an event with the     *)
(* next version of the request and a row of the outbox.  Workers claim a   *)
(* row with a lease, ask the chat service to announce the event and record *)
(* the result if the lease is still theirs.  The chat service calls back   *)
(* for the contents of the event before it posts the message.              *)
(***************************************************************************)
EXTENDS PrivateRequest

CONSTANTS
    Workers,      \* replicas of PrivateChatWorker
    MaxVersion,   \* bound on chat_version
    MaxAttempts,  \* attempts before an event is given up (12 in the code)
    MaxMishaps    \* bound on workers that stop or outlive their lease

Versions == 0 .. MaxVersion

ASSUME PrivateChatConstants ==
    /\ MaxVersion \in Nat /\ MaxAttempts \in Nat \ {0} /\ MaxMishaps \in Nat
    /\ Null \notin Workers

\* "approved" stands for recommendation_accepted too.
Kinds == {"none", "created", "rejected", "approved"}

\* An event with its row of the outbox.  The lease token of a claim is the worker
\* that made it, since a worker has one delivery at a time.  due is available_at
\* against the clock; attempts beyond the limit are not told apart.
Entry == [kind : Kinds,
          status : {"none", "pending", "sending", "sent", "failed", "superseded"},
          attempts : 0 .. MaxAttempts + 1, lease : Workers \cup {Null}, due : BOOLEAN]

NoEntry == [kind |-> "none", status |-> "none", attempts |-> 0, lease |-> Null,
            due |-> FALSE]

\* A call of the chat service: made, the event read, the enrollment read, done.
Calls == {"none", "asked", "began", "ready", "posted"}

NoDelivery == [id |-> Null, version |-> 0, attempts |-> 0, ok |-> FALSE]

VARIABLES
    version,   \* chat_version of every request
    outbox,    \* events and outbox rows by request and version
    call,      \* how far the chat service is with announcing a version
    wpc, wjob, \* the next step of every worker and its delivery
    mishaps    \* how often a worker stopped, or its lease ran out under it

workers == <<wpc, wjob>>
chat == <<version, outbox, call, workers, mishaps>>
chatVars == <<vars, chat>>

-----------------------------------------------------------------------------
(* Capture: part of the transaction that decides. *)

Put(r, v, entry) == outbox' = [outbox EXCEPT ![r] = [@ EXCEPT ![v] = entry]]

capture(r, kind, bump) ==
    LET v == IF bump THEN version[r] + 1 ELSE version[r]
    IN  /\ v \in Versions
        /\ version' = [version EXCEPT ![r] = v]
        /\ Put(r, v, [NoEntry EXCEPT !.kind = kind, !.status = "pending", !.due = TRUE])
        /\ UNCHANGED <<call, workers, mishaps>>

\* Mutant of Reopen: only a row that no worker has claimed is superseded.
Reopen_PendingOnly(r) ==
    /\ version[r] + 1 \in Versions
    /\ version' = [version EXCEPT ![r] = @ + 1]
    /\ IF outbox[r][version[r]].status # "pending" THEN UNCHANGED outbox
       ELSE Put(r, version[r],
                [outbox[r][version[r]] EXCEPT !.status = "superseded", !.lease = Null])
    /\ UNCHANGED <<call, workers, mishaps>>

\* A refusal reopens an approved request: unless it was sent, the event of the
\* approval is superseded, and the version moves on without an event.
Reopen(r) ==
    /\ version[r] + 1 \in Versions
    /\ version' = [version EXCEPT ![r] = @ + 1]
    /\ IF outbox[r][version[r]].status \in {"none", "sent"} THEN UNCHANGED outbox
       ELSE Put(r, version[r],
                [outbox[r][version[r]] EXCEPT !.status = "superseded", !.lease = Null])
    /\ UNCHANGED <<call, workers, mishaps>>

CapturedDecision(r) ==
    \/ \E slots \in SUBSET Slots : Create(r, slots) /\ capture(r, "created", FALSE)
    \/ \E slots \in SUBSET Slots :
          RejectWithRecommendation(r, slots) /\ capture(r, "rejected", TRUE)
    \/ Reject(r) /\ capture(r, "rejected", TRUE)
    \/ (DeclineRecommendation(r) \/ Cancel(r)) /\ UNCHANGED chat

\* SetStatus records a change to approved, and a change from it.
CapturedPurchase(p, r, accept, a) ==
    /\ Purchase(p, r, accept, a)
    /\ IF req[r].status = "approved" THEN UNCHANGED chat
       ELSE capture(r, "approved", TRUE)

CapturedReset(p) ==
    /\ ResetRejected(p)
    /\ LET r == job[p].id
       IN  IF req[r].status = "approved" /\ req'[r].status # "approved"
           THEN Reopen(r) ELSE UNCHANGED chat

-----------------------------------------------------------------------------
(* The worker. *)

\* Older events that are not announced hold a newer one of the request back.
Blocked(r, v) ==
    \E u \in Versions : u < v /\ outbox[r][u].status \in {"pending", "sending", "failed"}

\* Mutant of Candidate: the events of a request may overtake each other.
Candidate_AnyOrder(r, v) ==
    outbox[r][v].status \in {"pending", "sending"} /\ outbox[r][v].due

\* Due rows, whether new, retried or claimed by a worker that did not report.
Candidate(r, v) ==
    /\ outbox[r][v].status \in {"pending", "sending"} /\ outbox[r][v].due
    /\ ~Blocked(r, v)

\* Mutant of Claim: a row whose worker stopped is not claimed again.
Claim_PendingOnly(w, r, v) ==
    LET e == outbox[r][v]
        n == IF e.attempts > MaxAttempts THEN e.attempts ELSE e.attempts + 1
    IN  /\ wpc[w] = "idle" /\ Candidate(r, v) /\ e.status = "pending"
        /\ Put(r, v, [e EXCEPT !.status = "sending", !.attempts = n, !.lease = w,
                               !.due = FALSE])
        /\ wpc' = [wpc EXCEPT ![w] = "event"]
        /\ wjob' = [wjob EXCEPT ![w] =
              [id |-> r, version |-> v, attempts |-> n, ok |-> FALSE]]
        /\ UNCHANGED <<vars, version, call, mishaps>>

\* One statement.  The oldest candidate of all requests is taken; which request
\* that is depends on the clocks of the transactions that decided.
Claim(w, r, v) ==
    LET e == outbox[r][v]
        n == IF e.attempts > MaxAttempts THEN e.attempts ELSE e.attempts + 1
    IN  /\ wpc[w] = "idle" /\ Candidate(r, v)
        /\ Put(r, v, [e EXCEPT !.status = "sending", !.attempts = n, !.lease = w,
                               !.due = FALSE])
        /\ wpc' = [wpc EXCEPT ![w] = "event"]
        /\ wjob' = [wjob EXCEPT ![w] =
              [id |-> r, version |-> v, attempts |-> n, ok |-> FALSE]]
        /\ UNCHANGED <<vars, version, call, mishaps>>

\* The event of an approval counts while it is the request's current version.
EventReady(r, v) ==
    outbox[r][v].kind = "approved" => req[r].status = "approved" /\ version[r] = v

\* An approval is shown with its invoice only.
InvoiceReady(r, v) == outbox[r][v].kind = "approved" => Live(enr[r]) /\ enr[r].tx

WorkerGoto(w, step) == wpc' = [wpc EXCEPT ![w] = step] /\ UNCHANGED wjob

Advance(r, v, stage) == call' = [call EXCEPT ![r] = [@ EXCEPT ![v] = stage]]

\* The worker reads the event, which may be gone with its class or student or be
\* outdated, and asks the chat service unless the attempts are used up.  Calls for
\* one event are told apart by the furthest of them only.
Event(w) ==
    LET d == wjob[w]
    IN  /\ wpc[w] = "event"
        /\ \/ WorkerGoto(w, "finish") /\ UNCHANGED call
           \/ /\ d.attempts <= MaxAttempts /\ EventReady(d.id, d.version)
              /\ WorkerGoto(w, "deliver")
              /\ IF call[d.id][d.version] = "none"
                 THEN Advance(d.id, d.version, "asked") ELSE UNCHANGED call
        /\ UNCHANGED <<vars, version, outbox, mishaps>>

\* The chat service asks for the projection of the event: the event is read, then
\* the enrollment and its invoice, and the message is posted, once per event.  It
\* may do so when the worker has given up waiting, or never; a call that fails on
\* what it reads may be followed by another one.
Projection(r, v) ==
    /\ call[r][v] = "asked" /\ EventReady(r, v)
    /\ Advance(r, v, "began")
    /\ UNCHANGED <<vars, version, outbox, workers, mishaps>>

ProjectInvoice(r, v) ==
    /\ call[r][v] = "began"
    /\ Advance(r, v, IF InvoiceReady(r, v) THEN "ready" ELSE "asked")
    /\ UNCHANGED <<vars, version, outbox, workers, mishaps>>

Post(r, v) ==
    /\ call[r][v] = "ready"
    /\ Advance(r, v, "posted")
    /\ UNCHANGED <<vars, version, outbox, workers, mishaps>>

\* The worker has an answer, or an error or none within the client's timeout.
Deliver(w) ==
    /\ wpc[w] = "deliver"
    /\ wpc' = [wpc EXCEPT ![w] = "finish"]
    /\ \/ UNCHANGED wjob
       \/ /\ call[wjob[w].id][wjob[w].version] = "posted"
          /\ wjob' = [wjob EXCEPT ![w] = [@ EXCEPT !.ok = TRUE]]
    /\ UNCHANGED <<vars, version, outbox, call, mishaps>>

\* Mutant of Result: a refused or unanswered delivery is recorded as sent.
Result_AlwaysSent(delivery) == "sent"

\* What RunOnce makes of the outcome of a delivery.
Result(delivery) ==
    IF delivery.ok THEN "sent"
    ELSE IF delivery.attempts >= MaxAttempts THEN "failed" ELSE "pending"

WorkerIdle(w) ==
    /\ wpc' = [wpc EXCEPT ![w] = "idle"]
    /\ wjob' = [wjob EXCEPT ![w] = NoDelivery]

\* Mutant of FinishDelivery: a result is recorded whoever holds the lease by now.
FinishDelivery_NoFence(w) ==
    LET d == wjob[w]
        e == outbox[d.id][d.version]
    IN  /\ wpc[w] = "finish"
        /\ Put(d.id, d.version, [e EXCEPT !.status = Result(d), !.lease = Null,
                                          !.due = FALSE])
        /\ WorkerIdle(w)
        /\ UNCHANGED <<vars, version, call, mishaps>>

\* The result counts only while the row is being sent under this claim's lease.
FinishDelivery(w) ==
    LET d == wjob[w]
        e == outbox[d.id][d.version]
    IN  /\ wpc[w] = "finish"
        /\ IF e.status = "sending" /\ e.lease = w
           THEN Put(d.id, d.version, [e EXCEPT !.status = Result(d), !.lease = Null,
                                               !.due = FALSE])
           ELSE UNCHANGED outbox
        /\ WorkerIdle(w)
        /\ UNCHANGED <<vars, version, call, mishaps>>

\* The replica stops in the middle of a delivery.
WorkerStops(w) ==
    /\ wpc[w] # "idle"
    /\ mishaps < MaxMishaps /\ mishaps' = mishaps + 1
    /\ WorkerIdle(w)
    /\ UNCHANGED <<vars, version, outbox, call>>

\* Time passes: a retry becomes due, or a lease runs out.  A lease is three times
\* as long as the slowest call, so a worker outlives it only now and then.
BecomesDue(r, v) ==
    LET e == outbox[r][v]
        overrun == \E w \in Workers :
                      wpc[w] # "idle" /\ wjob[w].id = r /\ wjob[w].version = v
    IN  /\ e.status \in {"pending", "sending"} /\ ~e.due
        /\ Put(r, v, [e EXCEPT !.due = TRUE])
        /\ IF e.status = "sending" /\ overrun
           THEN mishaps < MaxMishaps /\ mishaps' = mishaps + 1
           ELSE UNCHANGED mishaps
        /\ UNCHANGED <<vars, version, call, workers>>

\* An operator re-drives an event that was given up.
Requeue(r, v) ==
    LET e == outbox[r][v]
    IN  /\ e.status = "failed"
        /\ Put(r, v, [e EXCEPT !.status = "pending", !.attempts = 0, !.lease = Null,
                               !.due = TRUE])
        /\ UNCHANGED <<vars, version, call, workers, mishaps>>

-----------------------------------------------------------------------------
(* The specification. *)

ChatInit ==
    /\ Init
    /\ version = [r \in Requests |-> 0]
    /\ outbox = [r \in Requests |-> [v \in Versions |-> NoEntry]]
    /\ call = [r \in Requests |-> [v \in Versions |-> "none"]]
    /\ wpc = [w \in Workers |-> "idle"]
    /\ wjob = [w \in Workers |-> NoDelivery]
    /\ mishaps = 0

\* Steps of PrivateRequest that change no request's status.
UncapturedStep ==
    /\ \/ \E r \in Requests : EnrollmentStep(r)
       \/ \E p \in Procs : \/ GenerateInvoice(p) \/ RefuseInvoice(p)
                           \/ DropInvoiceRejected(p) \/ UpdatePaymentDetails(p)
                           \/ PurchaseFails(p) \/ CancelStep(p)
       \/ OutsideStep
    /\ UNCHANGED chat

CapturedStep ==
    \/ \E r \in Requests : CapturedDecision(r)
    \/ \E p \in Procs, r \in Requests, accept \in BOOLEAN, a \in Approval :
          CapturedPurchase(p, r, accept, a)
    \/ \E p \in Procs : CapturedReset(p)

DeliveryStep(w) == Event(w) \/ Deliver(w) \/ FinishDelivery(w)

ServiceStep(r) == \E v \in Versions : Projection(r, v) \/ ProjectInvoice(r, v) \/ Post(r, v)

ClaimStep(w, r) == \E v \in Versions : Claim(w, r, v)

TimeStep(r) == \E v \in Versions : BecomesDue(r, v)

ChatNext ==
    \/ UncapturedStep \/ CapturedStep
    \/ \E w \in Workers : \/ \E r \in Requests : ClaimStep(w, r)
                          \/ DeliveryStep(w) \/ WorkerStops(w)
    \/ \E r \in Requests : \/ ServiceStep(r) \/ TimeStep(r)
                           \/ \E v \in Versions : Requeue(r, v)

ChatSpec == ChatInit /\ [][ChatNext]_chatVars

\* Clocks run; the workers poll for ever, take the oldest due row first and bound
\* every call they make with a timeout.  Nothing is assumed of the operator, of
\* the chat service or of those who decide.
ChatFairness ==
    /\ \A r \in Requests : /\ SF_chatVars(\E w \in Workers : ClaimStep(w, r))
                           /\ WF_chatVars(TimeStep(r))
    /\ \A w \in Workers : WF_chatVars(DeliveryStep(w))

FairChatSpec == ChatSpec /\ ChatFairness

-----------------------------------------------------------------------------
(* Properties. *)

\* Every variable has its type.
ChatTypeOK ==
    /\ version \in [Requests -> Versions]
    /\ outbox \in [Requests -> [Versions -> Entry]]
    /\ call \in [Requests -> [Versions -> Calls]]
    /\ wpc \in [Workers -> {"idle", "event", "deliver", "finish"}]
    /\ wjob \in [Workers -> [id : Requests \cup {Null}, version : Versions,
                             attempts : 0 .. MaxAttempts + 1, ok : BOOLEAN]]
    /\ mishaps \in 0 .. MaxMishaps

\* The parent reads the history of a request without gaps: when an event has been
\* posted, every older one was posted before, or taken back.  Retries, expired
\* leases, late calls, lost answers and several workers on one request do not change that.
NoGaps ==
    \A r \in Requests, v \in Versions, u \in Versions :
        call[r][v] = "posted" /\ u < v /\ outbox[r][u].kind # "none"
            => call[r][u] = "posted" \/ outbox[r][u].status = "superseded"

\* An approval that may still be announced is the request's current state: a
\* refusal that reopens the request leaves no event of the approval behind, even
\* one that a worker has claimed or that an operator may requeue.
NoOutdatedApproval ==
    \A r \in Requests, v \in Versions :
        outbox[r][v].kind = "approved"
            /\ outbox[r][v].status \in {"pending", "sending", "failed"}
            => req[r].status = "approved" /\ version[r] = v

Abstract(status) ==
    CASE status \in {"pending", "sending", "failed"} -> "open"
      [] status = "sent" -> "announced"
      [] status = "superseded" -> "withdrawn"
      [] OTHER -> "none"

abstractEntry == [r \in Requests |-> [v \in Versions |-> Abstract(outbox[r][v].status)]]

OD == INSTANCE OrderedDelivery WITH Streams <- Requests, entry <- abstractEntry

\* The outbox delivers in order: rows are added as the newest of their request,
\* marked as sent oldest first, withdrawn only while they are the newest, and
\* never change again; a worker whose lease ran out cannot undo any of it.
ImplementsOrderedDelivery == OD!Spec

\* An event that is waiting or being sent is sent, superseded or given up, unless
\* an older event of the request was given up and holds it back.
EventsResolve ==
    \A r \in Requests, v \in Versions :
        outbox[r][v].status \in {"pending", "sending"}
            ~> \/ outbox[r][v].status \in {"sent", "superseded", "failed"}
               \/ \E u \in Versions : u < v /\ outbox[r][u].status = "failed"

-----------------------------------------------------------------------------
(* The inductive invariant behind the safety properties. *)

Open(r, v) == outbox[r][v].status \in {"pending", "sending", "failed"}

\* Every event has a row, and none is newer than the request's version; a request
\* that is not there yet has none.
Versioned ==
    \A r \in Requests, v \in Versions :
        /\ outbox[r][v].kind = "none" <=> outbox[r][v].status = "none"
        /\ outbox[r][v].kind # "none" => v <= version[r] /\ req[r].status # "none"
        /\ req[r].status = "none" => version[r] = 0

Begun(r, v) == outbox[r][v].status \in {"sending", "sent"} \/ call[r][v] # "none"

\* Whatever was claimed once has nothing older left to announce, and keeps that
\* when its lease is gone: a late call is not handled out of turn.
InTurn ==
    /\ \A r \in Requests, v \in Versions :
          Begun(r, v) => v <= version[r] /\ ~Blocked(r, v)
    /\ \A w \in Workers : wpc[w] # "idle" =>
          /\ wjob[w].id \in Requests
          /\ wjob[w].version <= version[wjob[w].id]
          /\ ~Blocked(wjob[w].id, wjob[w].version)

\* Sent means posted; a confirmed delivery was posted.
SentIsPosted ==
    /\ \A r \in Requests, v \in Versions :
          outbox[r][v].status = "sent" => call[r][v] = "posted"
    /\ \A w \in Workers :
          wpc[w] # "idle" /\ wjob[w].ok => call[wjob[w].id][wjob[w].version] = "posted"

ChatInvariant ==
    /\ ChatTypeOK /\ Versioned /\ InTurn /\ SentIsPosted /\ NoOutdatedApproval

=============================================================================
