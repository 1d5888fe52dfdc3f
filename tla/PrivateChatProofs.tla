------------------------- MODULE PrivateChatProofs -------------------------
(***************************************************************************)
(* Proofs about PrivateChat for any number of requests, HTTP requests and  *)
(* workers, and any bounds.                                                *)
(*                                                                         *)
(* Every step of the composition is a step of PrivateRequest, so its       *)
(* invariant is kept.  What a step means for the outbox falls into a few   *)
(* shapes: nothing, a capture, a reopening, and the steps of the workers.  *)
(***************************************************************************)
EXTENDS PrivateChat, PrivateRequestProofs

\* Neither the outbox nor its workers change anything about a purchase: every
\* step of the composition is one of PrivateRequest, or leaves it alone.
THEOREM ChatAddsNothing == ChatSpec => Spec
<1>1. ChatInit => Init
  BY DEF ChatInit
<1>2. ASSUME [ChatNext]_chatVars PROVE [Next]_vars
  <2>1. CASE UNCHANGED chatVars
    BY <2>1 DEF chatVars, chat
  <2>2. CASE UncapturedStep
    BY <2>2 DEF UncapturedStep, Next, PurchaseStep
  <2>3. CASE CapturedStep
    <3>1. CASE \E r \in Requests : CapturedDecision(r)
      BY <3>1 DEF CapturedDecision, Next, Decision
    <3>2. CASE \E p \in Procs, r \in Requests, accept \in BOOLEAN, a \in Approval :
                  CapturedPurchase(p, r, accept, a)
      BY <3>2 DEF CapturedPurchase, Next, PurchaseStart
    <3>3. CASE \E p \in Procs : CapturedReset(p)
      BY <3>3 DEF CapturedReset, Next, PurchaseStep
    <3> QED BY <2>3, <3>1, <3>2, <3>3 DEF CapturedStep
  <2>4. ASSUME NEW w \in Workers,
               (\E r \in Requests : ClaimStep(w, r)) \/ DeliveryStep(w) \/ WorkerStops(w)
        PROVE  UNCHANGED vars
    BY <2>4 DEF ClaimStep, Claim, DeliveryStep, Event, Deliver, FinishDelivery, WorkerStops
  <2>5. ASSUME NEW r \in Requests,
               ServiceStep(r) \/ TimeStep(r) \/ \E v \in Versions : Requeue(r, v)
        PROVE  UNCHANGED vars
    BY <2>5 DEF ServiceStep, Projection, ProjectInvoice, Post, TimeStep, BecomesDue, Requeue
  <2> QED BY <1>2, <2>1, <2>2, <2>3, <2>4, <2>5 DEF ChatNext
<1> QED BY <1>1, <1>2, PTL DEF ChatSpec, Spec

\* The purchase invariant holds in the composition too.
LEMMA ChatPurchases == ChatSpec => []PurchaseInvariant
  BY ChatAddsNothing, PurchaseInvariantHolds, PTL

-----------------------------------------------------------------------------
(* Writing the outbox. *)

\* Put writes one entry.
LEMMA PutFacts ==
  ASSUME ChatTypeOK, NEW r \in Requests, NEW v \in Versions, NEW e \in Entry, Put(r, v, e)
  PROVE  /\ outbox' \in [Requests -> [Versions -> Entry]]
         /\ outbox'[r][v] = e
         /\ \A q \in Requests, u \in Versions : q # r \/ u # v => outbox'[q][u] = outbox[q][u]
  <1>1. outbox \in [Requests -> [Versions -> Entry]]
    BY DEF ChatTypeOK
  <1>2. [outbox[r] EXCEPT ![v] = e] \in [Versions -> Entry]
    BY <1>1
  <1>3. outbox' = [outbox EXCEPT ![r] = [outbox[r] EXCEPT ![v] = e]]
    BY DEF Put
  <1> QED
    BY <1>1, <1>2, <1>3

\* What the proofs need of the entries.
LEMMA EntryFacts ==
  ASSUME NEW e \in Entry
  PROVE  /\ e.status \in {"none", "pending", "sending", "sent", "failed", "superseded"}
         /\ e.kind \in Kinds
         /\ e.attempts \in 0 .. MaxAttempts + 1
         /\ NoEntry \in Entry
  BY PrivateChatConstants DEF Entry, NoEntry, Kinds

-----------------------------------------------------------------------------
(* The shapes of a step. *)

\* A step that writes one row: a final status stays, only a row whose turn it is
\* is claimed or sent, and requests, versions and the chat service are left alone.
Rewrites(r, v, e) ==
    /\ Put(r, v, e)
    /\ e.kind = outbox[r][v].kind
    /\ outbox[r][v].status # "none" /\ e.status # "none"
    /\ outbox[r][v].status \in {"sent", "superseded"} => e.status = outbox[r][v].status
    /\ e.status \in {"sending", "sent"} => ~Blocked(r, v)
    /\ UNCHANGED <<req, version, call>>

\* Such a step holds nothing back that went ahead before.
LEMMA RewriteKeepsTurns ==
  ASSUME ChatTypeOK, NEW r \in Requests, NEW v \in Versions, NEW e \in Entry,
         Rewrites(r, v, e)
  PROVE  \A q \in Requests, u \in Versions : Blocked(q, u)' => Blocked(q, u)
  <1> SUFFICES ASSUME NEW q \in Requests, NEW u \in Versions, Blocked(q, u)'
               PROVE  Blocked(q, u)
    OBVIOUS
  <1>1. PICK t \in Versions : t < u /\ outbox'[q][t].status \in {"pending", "sending", "failed"}
    BY DEF Blocked
  <1>2. outbox[r][v] \in Entry
    BY DEF ChatTypeOK
  <1>3. outbox[q][t].status \in {"pending", "sending", "failed"}
    <2>1. CASE q = r /\ t = v
      BY <1>1, <1>2, <2>1, PutFacts, EntryFacts DEF Rewrites
    <2>2. CASE q # r \/ t # v
      BY <1>1, <2>2, PutFacts DEF Rewrites
    <2> QED BY <2>1, <2>2
  <1> QED BY <1>1, <1>3 DEF Blocked

\* The workers go on with what they have, end it, or begin with an event whose
\* turn it is; a confirmed delivery was posted.
WorkersGoOn ==
    /\ wpc' \in [Workers -> {"idle", "event", "deliver", "finish"}]
    /\ wjob' \in [Workers -> [id : Requests \cup {Null}, version : Versions,
                              attempts : 0 .. MaxAttempts + 1, ok : BOOLEAN]]
    /\ mishaps' \in 0 .. MaxMishaps
    /\ \A w \in Workers : wpc'[w] # "idle" =>
          /\ wjob'[w].id \in Requests
          /\ wjob'[w].version <= version[wjob'[w].id]
          /\ ~Blocked(wjob'[w].id, wjob'[w].version)
          /\ wjob'[w].ok => call'[wjob'[w].id][wjob'[w].version] = "posted"

\* A step that rewrites a row, and records only what was posted as sent.
LEMMA RewriteStep ==
  ASSUME ChatInvariant, NEW r \in Requests, NEW v \in Versions, NEW e \in Entry,
         Rewrites(r, v, e), e.status = "sent" => call[r][v] = "posted", WorkersGoOn
  PROVE  ChatInvariant'
  <1> USE DEF ChatInvariant
  <1>1. /\ \A q \in Requests, u \in Versions : Blocked(q, u)' => Blocked(q, u)
        /\ req' = req /\ version' = version /\ call' = call
    BY RewriteKeepsTurns DEF Rewrites
  <1>2. /\ outbox' \in [Requests -> [Versions -> Entry]]
        /\ outbox'[r][v] = e
        /\ \A q \in Requests, u \in Versions : q # r \/ u # v => outbox'[q][u] = outbox[q][u]
    BY PutFacts DEF Rewrites
  <1>3. ChatTypeOK'
    BY <1>1, <1>2 DEF ChatTypeOK, WorkersGoOn
  <1>4. /\ e.kind = outbox[r][v].kind /\ e.status # "none" /\ outbox[r][v].status # "none"
        /\ outbox[r][v].status \in {"sent", "superseded"} => e.status = outbox[r][v].status
        /\ e.status \in {"sending", "sent"} => ~Blocked(r, v)
        /\ outbox[r][v].status \in {"none", "pending", "sending", "sent", "failed", "superseded"}
    BY EntryFacts DEF Rewrites, ChatTypeOK
  <1>5. Versioned'
    BY <1>1, <1>2, <1>4 DEF Versioned
  <1>6. InTurn'
    <2>1. ASSUME NEW q \in Requests, NEW u \in Versions,
                 Begun(q, u)'
          PROVE  u <= version'[q] /\ ~Blocked(q, u)'
      BY <1>1, <1>2, <1>4, <1>5, <2>1 DEF InTurn, Begun, Versioned
    <2>2. ASSUME NEW w \in Workers, wpc'[w] # "idle"
          PROVE  /\ wjob'[w].id \in Requests
                 /\ wjob'[w].version <= version'[wjob'[w].id]
                 /\ ~Blocked(wjob[w].id, wjob[w].version)'
      <3>1. wjob'[w].version \in Versions
        BY <1>3 DEF ChatTypeOK
      <3>2. PICK q \in Requests, u \in Versions : q = wjob'[w].id /\ u = wjob'[w].version
        BY <2>2, <3>1 DEF WorkersGoOn
      <3>3. ~Blocked(q, u)
        BY <2>2, <3>2 DEF WorkersGoOn
      <3>4. ~\E t \in Versions : t < u /\ outbox'[q][t].status \in {"pending", "sending", "failed"}
        BY <1>1, <3>3 DEF Blocked
      <3> QED BY <1>1, <2>2, <3>2, <3>4 DEF WorkersGoOn, Blocked
    <2> QED BY <2>1, <2>2 DEF InTurn
  <1>7. SentIsPosted'
    BY <1>1, <1>2 DEF SentIsPosted, WorkersGoOn
  <1>8. NoOutdatedApproval'
    BY <1>1, <1>2, <1>4 DEF NoOutdatedApproval
  <1> QED BY <1>3, <1>5, <1>6, <1>7, <1>8

\* A step that leaves the outbox and the requests alone; the chat service goes on
\* with events whose turn it is.
LEMMA CallStep ==
  ASSUME ChatInvariant, UNCHANGED <<req, version, outbox>>, WorkersGoOn,
         call' \in [Requests -> [Versions -> Calls]],
         \A r \in Requests, v \in Versions :
             /\ call[r][v] = "posted" => call'[r][v] = "posted"
             /\ call'[r][v] # "none" =>
                   call[r][v] # "none" \/ (v <= version[r] /\ ~Blocked(r, v))
  PROVE  ChatInvariant'
  <1> USE DEF ChatInvariant
  <1>1. \A q \in Requests, u \in Versions : Blocked(q, u)' <=> Blocked(q, u)
    BY DEF Blocked
  <1>2. ChatTypeOK'
    BY DEF ChatTypeOK, WorkersGoOn
  <1>3. Versioned'
    BY DEF Versioned
  <1>4. InTurn'
    <2>1. ASSUME NEW q \in Requests, NEW u \in Versions,
                 Begun(q, u)'
          PROVE  u <= version'[q] /\ ~Blocked(q, u)'
      BY <1>1, <2>1 DEF InTurn, Begun
    <2>2. ASSUME NEW w \in Workers, wpc'[w] # "idle"
          PROVE  /\ wjob'[w].id \in Requests
                 /\ wjob'[w].version <= version'[wjob'[w].id]
                 /\ ~Blocked(wjob[w].id, wjob[w].version)'
      BY <2>2 DEF WorkersGoOn, Blocked
    <2> QED BY <2>1, <2>2 DEF InTurn
  <1>5. SentIsPosted'
    BY DEF SentIsPosted, WorkersGoOn
  <1>6. NoOutdatedApproval'
    BY DEF NoOutdatedApproval
  <1> QED BY <1>2, <1>3, <1>4, <1>5, <1>6

\* A step that does not touch the outbox, nor what it depends on.
LEMMA QuietStep ==
  ASSUME ChatInvariant, UNCHANGED chat,
         \A r \in Requests : /\ req'[r].status = "none" <=> req[r].status = "none"
                             /\ req[r].status = "approved" => req'[r].status = "approved"
  PROVE  ChatInvariant'
  <1> USE DEF ChatInvariant
  <1>1. UNCHANGED <<version, outbox, call, wpc, wjob, mishaps>>
    BY DEF chat, workers
  <1>2. ChatTypeOK'
    BY <1>1 DEF ChatTypeOK
  <1>3. Versioned' /\ NoOutdatedApproval'
    BY <1>1 DEF Versioned, NoOutdatedApproval
  <1>4. InTurn' /\ SentIsPosted'
    BY <1>1 DEF InTurn, Begun, SentIsPosted, Blocked
  <1> QED BY <1>2, <1>3, <1>4

\* The transaction of a decision appends the newest event of its request.
LEMMA CaptureStep ==
  ASSUME ChatInvariant, NEW r \in Requests, NEW kind \in Kinds \ {"none"},
         NEW bump \in BOOLEAN, capture(r, kind, bump),
         \A q \in Requests \ {r} : req'[q] = req[q],
         req[r].status # "approved", req'[r].status # "none",
         kind = "approved" => req'[r].status = "approved",
         ~bump => req[r].status = "none"
  PROVE  ChatInvariant'
  <1> USE DEF ChatInvariant
  <1>1. PICK v \in Versions :
           /\ v = IF bump THEN version[r] + 1 ELSE version[r]
           /\ version' = [version EXCEPT ![r] = v]
           /\ Put(r, v, [NoEntry EXCEPT !.kind = kind, !.status = "pending", !.due = TRUE])
           /\ UNCHANGED <<call, wpc, wjob, mishaps>>
    BY DEF capture, workers
  <1>2. PICK e \in Entry : /\ e.kind = kind /\ e.status = "pending"
                           /\ Put(r, v, e)
    <2>1. [NoEntry EXCEPT !.kind = kind, !.status = "pending", !.due = TRUE] \in Entry
      <3>1. NoEntry \in Entry
        BY PrivateChatConstants DEF NoEntry, Entry, Kinds
      <3> QED BY <3>1 DEF Entry, Kinds
    <2>2. /\ [NoEntry EXCEPT !.kind = kind, !.status = "pending", !.due = TRUE].kind = kind
          /\ [NoEntry EXCEPT !.kind = kind, !.status = "pending", !.due = TRUE].status = "pending"
      BY DEF NoEntry
    <2> QED BY <1>1, <2>1, <2>2
  <1>3. /\ outbox' \in [Requests -> [Versions -> Entry]]
        /\ outbox'[r][v] = e
        /\ \A q \in Requests, u \in Versions : q # r \/ u # v => outbox'[q][u] = outbox[q][u]
    BY <1>2, PutFacts
  <1>4. version \in [Requests -> Versions] /\ Versions \subseteq Int
    BY PrivateChatConstants DEF ChatTypeOK, Versions
  <1>5. /\ version' \in [Requests -> Versions] /\ version'[r] = v
        /\ \A q \in Requests \ {r} : version'[q] = version[q]
        /\ version[r] <= v
    BY <1>1, <1>4
  <1>6. ChatTypeOK'
    BY <1>1, <1>3, <1>5 DEF ChatTypeOK
  \* The events before it are older, and it is the first one to use v.
  <1>7. \A u \in Versions : outbox[r][u].kind # "none" => u < v
    <2>1. CASE bump
      BY <1>1, <1>4, <2>1 DEF Versioned
    <2>2. CASE ~bump
      BY <2>2 DEF Versioned
    <2> QED BY <2>1, <2>2
  <1>8. Versioned'
    <2> SUFFICES ASSUME NEW q \in Requests, NEW u \in Versions
                 PROVE  /\ outbox'[q][u].kind = "none" <=> outbox'[q][u].status = "none"
                        /\ outbox'[q][u].kind # "none" => u <= version'[q] /\ req'[q].status # "none"
                        /\ req'[q].status = "none" => version'[q] = 0
      BY DEF Versioned
    <2>1. CASE q # r
      BY <1>3, <1>5, <2>1 DEF Versioned
    <2>2. CASE q = r /\ u = v
      BY <1>2, <1>3, <1>4, <1>5, <2>2
    <2>3. CASE q = r /\ u # v
      BY <1>3, <1>4, <1>5, <1>7, <2>3 DEF Versioned
    <2> QED BY <2>1, <2>2, <2>3
  \* Nothing that has been claimed is newer than v.
  <1>9. ASSUME NEW q \in Requests, NEW u \in Versions, ~Blocked(q, u),
               q # r \/ u <= v
        PROVE  ~Blocked(q, u)'
    BY <1>3, <1>4, <1>9 DEF Blocked
  <1>10. InTurn'
    <2>1. ASSUME NEW q \in Requests, NEW u \in Versions,
                 Begun(q, u)'
          PROVE  u <= version'[q] /\ ~Blocked(q, u)'
      <3>1. Begun(q, u)
        BY <1>1, <1>2, <1>3, <2>1 DEF Begun
      <3>2. u <= version[q] /\ ~Blocked(q, u)
        BY <3>1 DEF InTurn
      <3>3. q = r => u <= v
        <4>1. u \in Int /\ v \in Int /\ version[q] \in Int
          BY <1>4
        <4> QED BY <1>5, <3>2, <4>1
      <3> QED BY <1>5, <1>9, <3>2, <3>3
    <2>2. ASSUME NEW w \in Workers, wpc'[w] # "idle"
          PROVE  /\ wjob'[w].id \in Requests
                 /\ wjob'[w].version <= version'[wjob'[w].id]
                 /\ ~Blocked(wjob[w].id, wjob[w].version)'
      <3>1. PICK q \in Requests, u \in Versions :
               /\ q = wjob[w].id /\ u = wjob[w].version /\ u <= version[q] /\ ~Blocked(q, u)
        BY <1>1, <2>2 DEF InTurn, ChatTypeOK
      <3>2. q = r => u <= v
        <4>1. u \in Int /\ v \in Int /\ version[q] \in Int
          BY <1>4
        <4> QED BY <1>5, <3>1, <4>1
      <3>3. ~Blocked(q, u)' /\ u <= version'[q]
        BY <1>5, <1>9, <3>1, <3>2
      <3> QED BY <1>1, <3>1, <3>3 DEF Blocked
    <2> QED BY <2>1, <2>2 DEF InTurn
  <1>11. SentIsPosted'
    BY <1>1, <1>2, <1>3 DEF SentIsPosted
  <1>12. NoOutdatedApproval'
    <2> SUFFICES ASSUME NEW q \in Requests, NEW u \in Versions,
                        outbox'[q][u].kind = "approved",
                        outbox'[q][u].status \in {"pending", "sending", "failed"}
                 PROVE  req'[q].status = "approved" /\ version'[q] = u
      BY DEF NoOutdatedApproval
    <2>1. CASE q # r
      BY <1>3, <1>5, <2>1 DEF NoOutdatedApproval
    <2>2. CASE q = r /\ u = v
      BY <1>2, <1>3, <1>5, <2>2
    <2>3. CASE q = r /\ u # v
      BY <1>3, <2>3 DEF NoOutdatedApproval
    <2> QED BY <2>1, <2>2, <2>3
  <1> QED BY <1>6, <1>8, <1>10, <1>11, <1>12

\* Reopening a request withdraws its newest event and leaves a version without.
LEMMA ReopenStep ==
  ASSUME ChatInvariant, NEW r \in Requests, Reopen(r),
         \A q \in Requests \ {r} : req'[q] = req[q],
         req'[r].status \notin {"none", "approved"}
  PROVE  ChatInvariant'
  <1> USE DEF ChatInvariant
  <1>1. version \in [Requests -> Versions] /\ Versions \subseteq Int
    BY PrivateChatConstants DEF ChatTypeOK, Versions
  <1>2. PICK v \in Versions : v = version[r]
    BY <1>1
  <1>3. /\ version' \in [Requests -> Versions] /\ version'[r] = v + 1
        /\ \A q \in Requests \ {r} : version'[q] = version[q]
        /\ UNCHANGED <<call, wpc, wjob, mishaps>>
    BY <1>1, <1>2 DEF Reopen, workers
  <1>4. outbox[r][v] \in Entry
    BY DEF ChatTypeOK
  \* The entry at v is closed or has never been; all others are left alone.
  <1>5. /\ outbox' \in [Requests -> [Versions -> Entry]]
        /\ outbox'[r][v].kind = outbox[r][v].kind
        /\ outbox'[r][v].status = IF outbox[r][v].status \in {"none", "sent"}
                                  THEN outbox[r][v].status ELSE "superseded"
        /\ \A q \in Requests, u \in Versions : q # r \/ u # v => outbox'[q][u] = outbox[q][u]
    <2>1. CASE outbox[r][v].status \in {"none", "sent"}
      BY <1>2, <2>1 DEF Reopen, ChatTypeOK
    <2>2. CASE outbox[r][v].status \notin {"none", "sent"}
      <3>1. PICK e \in Entry : /\ e.kind = outbox[r][v].kind /\ e.status = "superseded"
                               /\ Put(r, v, e)
        <4>1. [outbox[r][v] EXCEPT !.status = "superseded", !.lease = Null] \in Entry
          BY <1>4 DEF Entry
        <4>2. /\ [outbox[r][v] EXCEPT !.status = "superseded", !.lease = Null].kind
                    = outbox[r][v].kind
              /\ [outbox[r][v] EXCEPT !.status = "superseded", !.lease = Null].status
                    = "superseded"
          BY <1>4 DEF Entry
        <4> QED BY <1>2, <2>2, <4>1, <4>2 DEF Reopen
      <3> QED BY <2>2, <3>1, PutFacts
    <2> QED BY <2>1, <2>2
  <1>6. ChatTypeOK'
    BY <1>3, <1>5 DEF ChatTypeOK
  <1>7. \A q \in Requests, u \in Versions : Blocked(q, u)' => Blocked(q, u)
    BY <1>5 DEF Blocked
  <1>8. \A q \in Requests : /\ version[q] \in Int /\ version'[q] \in Int
                            /\ version[q] <= version'[q]
    <2>1. \A q \in Requests : version[q] \in Int /\ version'[q] \in Int
      BY <1>1, <1>3
    <2> QED BY <1>2, <1>3, <2>1
  <1>9. Versioned'
    <2> SUFFICES ASSUME NEW q \in Requests, NEW u \in Versions
                 PROVE  /\ outbox'[q][u].kind = "none" <=> outbox'[q][u].status = "none"
                        /\ outbox'[q][u].kind # "none" => u <= version'[q] /\ req'[q].status # "none"
                        /\ req'[q].status = "none" => version'[q] = 0
      BY DEF Versioned
    <2>1. /\ outbox'[q][u].kind = outbox[q][u].kind
          /\ outbox'[q][u].status = "none" <=> outbox[q][u].status = "none"
      BY <1>5
    <2>2. outbox[q][u].kind # "none" => u <= version'[q]
      BY <1>1, <1>3, <1>8 DEF Versioned
    <2> QED BY <1>3, <2>1, <2>2 DEF Versioned
  <1>10. InTurn'
    <2>1. ASSUME NEW q \in Requests, NEW u \in Versions,
                 Begun(q, u)'
          PROVE  u <= version'[q] /\ ~Blocked(q, u)'
      <3>1. Begun(q, u)
        BY <1>3, <1>5, <2>1 DEF Begun
      <3>2. u <= version[q] /\ ~Blocked(q, u)
        BY <3>1 DEF InTurn
      <3>3. u \in Int
        BY <1>1
      <3> QED BY <1>7, <1>8, <3>2, <3>3
    <2>2. ASSUME NEW w \in Workers, wpc'[w] # "idle"
          PROVE  /\ wjob'[w].id \in Requests
                 /\ wjob'[w].version <= version'[wjob'[w].id]
                 /\ ~Blocked(wjob[w].id, wjob[w].version)'
      <3>1. PICK q \in Requests, u \in Versions :
               /\ q = wjob[w].id /\ u = wjob[w].version /\ u <= version[q] /\ ~Blocked(q, u)
        BY <1>3, <2>2 DEF InTurn, ChatTypeOK
      <3>2. ~Blocked(q, u)' /\ u <= version'[q]
        <4>1. u \in Int
          BY <1>1
        <4> QED BY <1>7, <1>8, <3>1, <4>1
      <3> QED BY <1>3, <3>1, <3>2 DEF Blocked
    <2> QED BY <2>1, <2>2 DEF InTurn
  <1>11. SentIsPosted'
    BY <1>3, <1>5 DEF SentIsPosted
  <1>12. NoOutdatedApproval'
    <2> SUFFICES ASSUME NEW q \in Requests, NEW u \in Versions,
                        outbox'[q][u].kind = "approved",
                        outbox'[q][u].status \in {"pending", "sending", "failed"}
                 PROVE  req'[q].status = "approved" /\ version'[q] = u
      BY DEF NoOutdatedApproval
    <2>1. CASE q # r
      BY <1>3, <1>5, <2>1 DEF NoOutdatedApproval
    <2>2. CASE q = r /\ u = v
      BY <1>5, <2>2
    <2>3. CASE q = r /\ u # v
      BY <1>2, <1>5, <2>3 DEF NoOutdatedApproval
    <2> QED BY <2>1, <2>2, <2>3
  <1> QED BY <1>6, <1>9, <1>10, <1>11, <1>12

-----------------------------------------------------------------------------
(* The steps of the specification have these shapes. *)

\* Decisions.
LEMMA DecisionKeepsChat ==
  ASSUME PurchaseInvariant, ChatInvariant, NEW r \in Requests, CapturedDecision(r)
  PROVE  ChatInvariant'
  <1>1. req \in [Requests -> RequestRow]
    BY DEF PurchaseInvariant, TypeOK
  <1>2. ASSUME NEW slots \in SUBSET Slots, Create(r, slots), capture(r, "created", FALSE)
        PROVE  ChatInvariant'
    <2>1. /\ req[r].status = "none" /\ req'[r].status = "pending"
          /\ \A q \in Requests \ {r} : req'[q] = req[q]
      BY <1>1, <1>2 DEF Create, NoRequest
    <2> QED BY <1>2, <2>1, CaptureStep DEF Kinds
  <1>3. ASSUME capture(r, "rejected", TRUE),
               Reject(r) \/ \E slots \in SUBSET Slots : RejectWithRecommendation(r, slots)
        PROVE  ChatInvariant'
    <2>1. /\ req[r].status = "pending" /\ req'[r].status = "rejected"
          /\ \A q \in Requests \ {r} : req'[q] = req[q]
      BY <1>1, <1>3 DEF Reject, RejectWithRecommendation, Become, RequestRow
    <2> QED BY <1>3, <2>1, CaptureStep DEF Kinds
  <1>4. ASSUME DeclineRecommendation(r) \/ Cancel(r), UNCHANGED chat
        PROVE  ChatInvariant'
    <2>1. /\ req[r].status \in {"rejected", "pending"}
          /\ req'[r].status \in {"declined", "cancelled"}
          /\ \A q \in Requests \ {r} : req'[q] = req[q]
      BY <1>1, <1>4 DEF DeclineRecommendation, Cancel, Become, RequestRow
    <2> QED BY <1>4, <2>1, QuietStep
  <1>5. CASE \E slots \in SUBSET Slots : Create(r, slots) /\ capture(r, "created", FALSE)
    BY <1>2, <1>5
  <1>6. CASE \E slots \in SUBSET Slots :
                RejectWithRecommendation(r, slots) /\ capture(r, "rejected", TRUE)
    BY <1>3, <1>6
  <1>7. CASE Reject(r) /\ capture(r, "rejected", TRUE)
    BY <1>3, <1>7
  <1>8. CASE (DeclineRecommendation(r) \/ Cancel(r)) /\ UNCHANGED chat
    BY <1>4, <1>8
  <1> QED BY <1>5, <1>6, <1>7, <1>8 DEF CapturedDecision

\* Purchases.
LEMMA PurchaseKeepsChat ==
  ASSUME PurchaseInvariant, ChatInvariant, NEW p \in Procs, NEW r \in Requests,
         NEW accept \in BOOLEAN, NEW a \in Approval, CapturedPurchase(p, r, accept, a)
  PROVE  ChatInvariant'
  <1>1. req \in [Requests -> RequestRow]
    BY DEF PurchaseInvariant, TypeOK
  <1>2. CASE req[r].status = "approved"
    <2>1. req' = req
      BY <1>2 DEF CapturedPurchase, Purchase, PurchaseAgain, PurchaseRestored, PurchaseNew
    <2> QED BY <1>2, <2>1, QuietStep DEF CapturedPurchase
  <1>3. CASE req[r].status # "approved"
    <2>1. req'[r].status = "approved" /\ \A q \in Requests \ {r} : req'[q] = req[q]
      <3>1. CASE PurchaseRestored(p, r, accept)
        BY <1>1, <3>1 DEF PurchaseRestored, Become, RequestRow
      <3>2. CASE PurchaseNew(p, r, accept, a)
        BY <1>1, <3>2 DEF PurchaseNew, RequestRow
      <3> QED BY <1>3, <3>1, <3>2 DEF CapturedPurchase, Purchase, PurchaseAgain
    <2> QED BY <1>3, <2>1, CaptureStep DEF CapturedPurchase, Kinds
  <1> QED BY <1>2, <1>3

\* The clean-up after a refusal.
LEMMA ResetKeepsChat ==
  ASSUME PurchaseInvariant, ChatInvariant, NEW p \in Procs, CapturedReset(p)
  PROVE  ChatInvariant'
  <1>1. req \in [Requests -> RequestRow] /\ job[p].id \in Requests
    BY DEF PurchaseInvariant, TypeOK, JobsNamed, CapturedReset, ResetRejected
  <1>2. PICK r \in Requests : r = job[p].id
    BY <1>1
  <1>3. CASE req' = req
    BY <1>2, <1>3, QuietStep DEF CapturedReset
  <1>4. CASE req' # req
    <2>1. /\ platformFeeRejected(enr[r])
          /\ Become(r, IF job[p].accept THEN "rejected" ELSE "pending")
      BY <1>2, <1>4 DEF CapturedReset, ResetRejected
    <2>2. /\ req'[r].status \in {"rejected", "pending"}
          /\ \A q \in Requests \ {r} : req'[q] = req[q]
      BY <1>1, <2>1 DEF Become, RequestRow
    <2>3. req[r].status # "none"
      BY <2>1 DEF platformFeeRejected, PurchaseInvariant, Sales, Sale
    <2>4. CASE req[r].status = "approved"
      BY <1>2, <2>2, <2>4, ReopenStep DEF CapturedReset
    <2>5. CASE req[r].status # "approved"
      BY <1>2, <2>2, <2>3, <2>5, QuietStep DEF CapturedReset
    <2> QED BY <2>4, <2>5
  <1> QED BY <1>3, <1>4

\* A worker claims an event whose turn it is.
LEMMA ClaimKeepsChat ==
  ASSUME ChatInvariant, NEW w \in Workers, NEW r \in Requests, NEW v \in Versions,
         Claim(w, r, v)
  PROVE  ChatInvariant'
  <1> USE DEF ChatInvariant
  <1>1. outbox[r][v] \in Entry
    BY DEF ChatTypeOK
  <1>2. PICK n \in 0 .. MaxAttempts + 1 :
           n = IF outbox[r][v].attempts > MaxAttempts THEN outbox[r][v].attempts
               ELSE outbox[r][v].attempts + 1
    <2>1. outbox[r][v].attempts \in 0 .. MaxAttempts + 1
      BY <1>1, EntryFacts
    <2> QED BY <2>1, PrivateChatConstants
  <1>3. /\ outbox[r][v].status \in {"pending", "sending"} /\ ~Blocked(r, v)
        /\ Put(r, v, [outbox[r][v] EXCEPT !.status = "sending", !.attempts = n,
                                          !.lease = w, !.due = FALSE])
        /\ wpc' = [wpc EXCEPT ![w] = "event"]
        /\ wjob' = [wjob EXCEPT ![w] =
              [id |-> r, version |-> v, attempts |-> n, ok |-> FALSE]]
        /\ UNCHANGED <<vars, version, call, mishaps>>
    BY <1>2 DEF Claim, Candidate
  <1>4. PICK e \in Entry : e.kind = outbox[r][v].kind /\ e.status = "sending" /\ Put(r, v, e)
    <2>1. [outbox[r][v] EXCEPT !.status = "sending", !.attempts = n, !.lease = w,
                               !.due = FALSE] \in Entry
      BY <1>1 DEF Entry
    <2>2. /\ [outbox[r][v] EXCEPT !.status = "sending", !.attempts = n, !.lease = w,
                                  !.due = FALSE].kind = outbox[r][v].kind
          /\ [outbox[r][v] EXCEPT !.status = "sending", !.attempts = n, !.lease = w,
                                  !.due = FALSE].status = "sending"
      BY <1>1 DEF Entry
    <2> QED BY <1>3, <2>1, <2>2
  <1>5. Rewrites(r, v, e)
    BY <1>3, <1>4 DEF Rewrites, vars
  <1>6. v <= version[r]
    BY <1>3 DEF Versioned
  <1>7. WorkersGoOn
    BY <1>3, <1>6 DEF WorkersGoOn, ChatTypeOK, InTurn, SentIsPosted
  <1> QED BY <1>4, <1>5, <1>7, RewriteStep

\* Advance moves one call.
LEMMA AdvanceFacts ==
  ASSUME ChatTypeOK, NEW r \in Requests, NEW v \in Versions, NEW c \in Calls,
         Advance(r, v, c)
  PROVE  /\ call' \in [Requests -> [Versions -> Calls]]
         /\ call'[r][v] = c
         /\ \A q \in Requests, u \in Versions : q # r \/ u # v => call'[q][u] = call[q][u]
  <1>1. call \in [Requests -> [Versions -> Calls]]
    BY DEF ChatTypeOK
  <1>2. [call[r] EXCEPT ![v] = c] \in [Versions -> Calls]
    BY <1>1
  <1>3. call' = [call EXCEPT ![r] = [call[r] EXCEPT ![v] = c]]
    BY DEF Advance
  <1> QED BY <1>1, <1>2, <1>3

\* The chat service goes on with an event it was asked for.
LEMMA ServiceKeepsChat ==
  ASSUME ChatInvariant, NEW r \in Requests, NEW v \in Versions,
         Projection(r, v) \/ ProjectInvoice(r, v) \/ Post(r, v)
  PROVE  ChatInvariant'
  <1> USE DEF ChatInvariant
  <1>1. /\ UNCHANGED <<vars, version, outbox, wpc, wjob, mishaps>>
        /\ call[r][v] \notin {"none", "posted"}
        /\ \E c \in Calls : Advance(r, v, c)
    BY DEF Projection, ProjectInvoice, Post, workers, Calls
  <1>2. /\ call' \in [Requests -> [Versions -> Calls]]
        /\ \A q \in Requests, u \in Versions : q # r \/ u # v => call'[q][u] = call[q][u]
    BY <1>1, AdvanceFacts
  <1>3. \A q \in Requests, u \in Versions :
           /\ call[q][u] = "posted" => call'[q][u] = "posted"
           /\ call'[q][u] # "none" => call[q][u] # "none"
    BY <1>1, <1>2
  <1>4. WorkersGoOn
    <2>1. ASSUME NEW w \in Workers, wpc'[w] # "idle"
          PROVE  /\ wjob'[w].id \in Requests
                 /\ wjob'[w].version <= version[wjob'[w].id]
                 /\ ~Blocked(wjob'[w].id, wjob'[w].version)
                 /\ wjob'[w].ok => call'[wjob'[w].id][wjob'[w].version] = "posted"
      BY <1>1, <1>3, <2>1 DEF InTurn, SentIsPosted, ChatTypeOK
    <2> QED BY <1>1, <2>1 DEF WorkersGoOn, ChatTypeOK
  <1> QED BY <1>1, <1>2, <1>3, <1>4, CallStep DEF vars

\* Delivering: the steps that leave the outbox alone, and the result.
LEMMA DeliveryKeepsChat ==
  ASSUME ChatInvariant, NEW w \in Workers, DeliveryStep(w) \/ WorkerStops(w)
  PROVE  ChatInvariant'
  <1> USE DEF ChatInvariant
  <1>1. /\ wpc \in [Workers -> {"idle", "event", "deliver", "finish"}]
        /\ wjob \in [Workers -> [id : Requests \cup {Null}, version : Versions,
                                 attempts : 0 .. MaxAttempts + 1, ok : BOOLEAN]]
        /\ call \in [Requests -> [Versions -> Calls]]
        /\ mishaps \in 0 .. MaxMishaps
    BY DEF ChatTypeOK
  <1>2. ASSUME WorkerIdle(w), call' = call, mishaps' \in 0 .. MaxMishaps
        PROVE  WorkersGoOn
    <2>1. NoDelivery \in [id : Requests \cup {Null}, version : Versions,
                          attempts : 0 .. MaxAttempts + 1, ok : BOOLEAN]
      BY PrivateChatConstants DEF NoDelivery, Versions
    <2> QED BY <1>1, <1>2, <2>1 DEF WorkerIdle, WorkersGoOn, InTurn, SentIsPosted
  <1>3. CASE Event(w)
    <2>1. PICK r \in Requests, v \in Versions :
             r = wjob[w].id /\ v = wjob[w].version /\ v <= version[r] /\ ~Blocked(r, v)
      BY <1>1, <1>3 DEF Event, InTurn
    <2>2. /\ wpc[w] # "idle" /\ wjob' = wjob
          /\ \E c \in {"finish", "deliver"} : wpc' = [wpc EXCEPT ![w] = c]
          /\ \/ call' = call
             \/ call[r][v] = "none" /\ Advance(r, v, "asked")
          /\ UNCHANGED <<vars, version, outbox, mishaps>>
      BY <1>3, <2>1 DEF Event, WorkerGoto
    <2>3. /\ call' \in [Requests -> [Versions -> Calls]]
          /\ \A q \in Requests, u \in Versions :
                \/ call'[q][u] = call[q][u]
                \/ q = r /\ u = v /\ call[q][u] = "none"
      <3>1. CASE call' = call
        BY <1>1, <3>1
      <3>2. CASE call[r][v] = "none" /\ Advance(r, v, "asked")
        BY <3>2, AdvanceFacts DEF Calls
      <3> QED BY <2>2, <3>1, <3>2
    <2>4. WorkersGoOn
      <3>1. ASSUME NEW x \in Workers, wpc'[x] # "idle"
            PROVE  /\ wjob'[x].id \in Requests
                   /\ wjob'[x].version <= version[wjob'[x].id]
                   /\ ~Blocked(wjob'[x].id, wjob'[x].version)
                   /\ wjob'[x].ok => call'[wjob'[x].id][wjob'[x].version] = "posted"
        <4>1. wpc[x] # "idle"
          BY <1>1, <2>2, <3>1
        <4> QED BY <1>1, <2>2, <2>3, <4>1 DEF InTurn, SentIsPosted
      <3> QED BY <1>1, <2>2, <3>1 DEF WorkersGoOn
    <2> QED BY <2>1, <2>2, <2>3, <2>4, CallStep DEF vars
  <1>4. CASE Deliver(w)
    <2>1. wpc[w] # "idle" /\ UNCHANGED <<vars, version, outbox, call, mishaps>>
      BY <1>4 DEF Deliver
    <2>2. WorkersGoOn
      <3>1. /\ wjob' \in [Workers -> [id : Requests \cup {Null}, version : Versions,
                                      attempts : 0 .. MaxAttempts + 1, ok : BOOLEAN]]
            /\ wjob'[w].id = wjob[w].id /\ wjob'[w].version = wjob[w].version
            /\ wjob'[w].ok => wjob[w].ok \/ call[wjob[w].id][wjob[w].version] = "posted"
            /\ \A x \in Workers \ {w} : wjob'[x] = wjob[x] /\ wpc'[x] = wpc[x]
        BY <1>1, <1>4 DEF Deliver
      <3>2. ASSUME NEW x \in Workers, wpc'[x] # "idle"
            PROVE  /\ wjob'[x].id \in Requests
                   /\ wjob'[x].version <= version[wjob'[x].id]
                   /\ ~Blocked(wjob'[x].id, wjob'[x].version)
                   /\ wjob'[x].ok => call'[wjob'[x].id][wjob'[x].version] = "posted"
        <4>1. CASE x = w
          BY <2>1, <3>1, <4>1 DEF InTurn, SentIsPosted
        <4>2. CASE x # w
          BY <2>1, <3>1, <3>2, <4>2 DEF InTurn, SentIsPosted
        <4> QED BY <4>1, <4>2
      <3>3. wpc' \in [Workers -> {"idle", "event", "deliver", "finish"}]
        BY <1>1, <1>4 DEF Deliver
      <3> QED BY <1>1, <2>1, <3>1, <3>2, <3>3 DEF WorkersGoOn
    <2> QED BY <1>1, <2>1, <2>2, CallStep DEF vars
  <1>5. CASE WorkerStops(w)
    <2>1. WorkersGoOn
      BY <1>1, <1>2, <1>5, PrivateChatConstants DEF WorkerStops
    <2> QED BY <1>1, <1>5, <2>1, CallStep DEF WorkerStops, vars
  <1>6. CASE FinishDelivery(w)
    <2>1. WorkersGoOn
      BY <1>1, <1>2, <1>6 DEF FinishDelivery
    <2>2. PICK r \in Requests, v \in Versions : r = wjob[w].id /\ v = wjob[w].version
      BY <1>1, <1>6 DEF FinishDelivery, InTurn
    <2>3. CASE UNCHANGED outbox
      BY <1>1, <1>6, <2>1, <2>3, CallStep DEF FinishDelivery, vars
    <2>4. CASE ~UNCHANGED outbox
      <3>1. outbox[r][v] \in Entry
        BY DEF ChatTypeOK
      <3>2. PICK s \in {"sent", "failed", "pending"} :
               s = Result(wjob[w]) /\ (s = "sent" => wjob[w].ok)
        BY DEF Result
      <3>3. /\ outbox[r][v].status = "sending"
            /\ Put(r, v, [outbox[r][v] EXCEPT !.status = s, !.lease = Null, !.due = FALSE])
            /\ UNCHANGED <<vars, version, call, mishaps>>
            /\ wpc[w] # "idle"
        BY <1>6, <2>2, <2>4, <3>2 DEF FinishDelivery
      <3>4. PICK e \in Entry : e.kind = outbox[r][v].kind /\ e.status = s /\ Put(r, v, e)
        <4>1. [outbox[r][v] EXCEPT !.status = s, !.lease = Null, !.due = FALSE] \in Entry
          BY <3>1 DEF Entry
        <4>2. /\ [outbox[r][v] EXCEPT !.status = s, !.lease = Null, !.due = FALSE].kind
                    = outbox[r][v].kind
              /\ [outbox[r][v] EXCEPT !.status = s, !.lease = Null, !.due = FALSE].status = s
          BY <3>1 DEF Entry
        <4> QED BY <3>3, <4>1, <4>2
      <3>5. Rewrites(r, v, e)
        BY <3>3, <3>4 DEF Rewrites, vars, InTurn, Begun
      <3>6. e.status = "sent" => call[r][v] = "posted"
        BY <2>2, <3>2, <3>3, <3>4 DEF SentIsPosted
      <3> QED BY <2>1, <3>4, <3>5, <3>6, RewriteStep
    <2> QED BY <2>3, <2>4
  <1> QED BY <1>3, <1>4, <1>5, <1>6 DEF DeliveryStep

\* Time and the operator.
LEMMA OutboxKeepsChat ==
  ASSUME ChatInvariant, NEW r \in Requests, NEW v \in Versions,
         BecomesDue(r, v) \/ Requeue(r, v)
  PROVE  ChatInvariant'
  <1> USE DEF ChatInvariant
  <1>1. outbox[r][v] \in Entry /\ 0 \in 0 .. MaxAttempts + 1
    BY PrivateChatConstants DEF ChatTypeOK
  <1>2. /\ UNCHANGED <<vars, version, call, wpc, wjob>>
        /\ mishaps' \in 0 .. MaxMishaps
    BY PrivateChatConstants DEF BecomesDue, Requeue, workers, ChatTypeOK
  <1>3. WorkersGoOn
    BY <1>2 DEF WorkersGoOn, ChatTypeOK, InTurn, SentIsPosted
  <1>4. PICK e \in Entry :
           /\ e.kind = outbox[r][v].kind /\ Put(r, v, e)
           /\ \/ /\ outbox[r][v].status \in {"pending", "sending"}
                 /\ e.status = outbox[r][v].status
              \/ outbox[r][v].status = "failed" /\ e.status = "pending"
    <2>1. CASE BecomesDue(r, v)
      <3>1. /\ [outbox[r][v] EXCEPT !.due = TRUE] \in Entry
            /\ [outbox[r][v] EXCEPT !.due = TRUE].kind = outbox[r][v].kind
            /\ [outbox[r][v] EXCEPT !.due = TRUE].status = outbox[r][v].status
        BY <1>1 DEF Entry
      <3> QED BY <2>1, <3>1 DEF BecomesDue
    <2>2. CASE Requeue(r, v)
      <3>1. /\ [outbox[r][v] EXCEPT !.status = "pending", !.attempts = 0, !.lease = Null,
                                    !.due = TRUE] \in Entry
            /\ [outbox[r][v] EXCEPT !.status = "pending", !.attempts = 0, !.lease = Null,
                                    !.due = TRUE].kind = outbox[r][v].kind
            /\ [outbox[r][v] EXCEPT !.status = "pending", !.attempts = 0, !.lease = Null,
                                    !.due = TRUE].status = "pending"
        BY <1>1 DEF Entry
      <3> QED BY <2>2, <3>1 DEF Requeue
    <2> QED BY <2>1, <2>2
  <1>5. Rewrites(r, v, e)
    BY <1>2, <1>4 DEF Rewrites, vars, InTurn, Begun
  <1> QED BY <1>3, <1>4, <1>5, RewriteStep

-----------------------------------------------------------------------------
(* The theorems. *)

\* Nothing has been decided, captured or claimed at the start.
LEMMA ChatInitially == ChatInit => ChatInvariant
  <1> SUFFICES ASSUME ChatInit PROVE ChatInvariant
    OBVIOUS
  <1>1. 0 \in Versions /\ NoEntry \in Entry
    BY PrivateChatConstants DEF Versions, NoEntry, Entry, Kinds
  <1>2. NoDelivery \in [id : Requests \cup {Null}, version : Versions,
                        attempts : 0 .. MaxAttempts + 1, ok : BOOLEAN]
    BY <1>1, PrivateChatConstants DEF NoDelivery
  <1>3. ChatTypeOK
    BY <1>1, <1>2, PrivateChatConstants DEF ChatInit, ChatTypeOK, Calls
  <1>4. /\ \A r \in Requests, v \in Versions :
              outbox[r][v].kind = "none" /\ outbox[r][v].status = "none"
        /\ \A r \in Requests : version[r] = 0 /\ req[r].status = "none"
        /\ \A r \in Requests, v \in Versions : call[r][v] = "none"
        /\ \A w \in Workers : wpc[w] = "idle"
    BY DEF ChatInit, Init, NoEntry, NoRequest
  <1>5. Versioned /\ InTurn /\ SentIsPosted /\ NoOutdatedApproval
    BY <1>4 DEF Versioned, InTurn, Begun, SentIsPosted, NoOutdatedApproval
  <1> QED BY <1>3, <1>5 DEF ChatInvariant

\* Every step keeps the invariant.
LEMMA ChatInductive ==
  ASSUME PurchaseInvariant, ChatInvariant, [ChatNext]_chatVars
  PROVE  ChatInvariant'
  <1>1. CASE UNCHANGED chatVars
    BY <1>1, QuietStep DEF chatVars, vars
  <1>2. CASE UncapturedStep
    <2>1. req' = req
      <3>1. ASSUME NEW r \in Requests, EnrollmentStep(r) PROVE req' = req
        BY <3>1 DEF EnrollmentStep, Pay, PaymentFails, ActivateEnrollment,
                    ReleaseEnrollment, SuspendEnrollment, ResumeEnrollment, EndEnrollment
      <3>2. ASSUME NEW p \in Procs,
                   \/ GenerateInvoice(p) \/ RefuseInvoice(p) \/ DropInvoiceRejected(p)
                   \/ UpdatePaymentDetails(p) \/ PurchaseFails(p) \/ CancelStep(p)
            PROVE  req' = req
        BY <3>2 DEF GenerateInvoice, RefuseInvoice, DropInvoiceRejected,
                    UpdatePaymentDetails, PurchaseFails, CancelStep,
                    CancelPendingEnrollment, WithdrawPayment, DropPending
      <3>3. OutsideStep => req' = req
        BY DEF OutsideStep, ChangePolicy, UpdateClass
      <3> QED BY <1>2, <3>1, <3>2, <3>3 DEF UncapturedStep
    <2> QED BY <1>2, <2>1, QuietStep DEF UncapturedStep
  <1>3. CASE CapturedStep
    BY <1>3, DecisionKeepsChat, PurchaseKeepsChat, ResetKeepsChat DEF CapturedStep
  <1>4. ASSUME NEW w \in Workers, NEW r \in Requests, ClaimStep(w, r)
        PROVE  ChatInvariant'
    BY <1>4, ClaimKeepsChat DEF ClaimStep
  <1>5. ASSUME NEW w \in Workers, DeliveryStep(w) \/ WorkerStops(w)
        PROVE  ChatInvariant'
    BY <1>5, DeliveryKeepsChat
  <1>6. ASSUME NEW r \in Requests,
               ServiceStep(r) \/ TimeStep(r) \/ \E v \in Versions : Requeue(r, v)
        PROVE  ChatInvariant'
    BY <1>6, ServiceKeepsChat, OutboxKeepsChat DEF ServiceStep, TimeStep
  <1> QED BY <1>1, <1>2, <1>3, <1>4, <1>5, <1>6 DEF ChatNext

\* The chat outbox keeps its invariant whatever is decided, refused and reopened
\* and however the workers that announce it are interleaved.
THEOREM ChatInvariantHolds == ChatSpec => []ChatInvariant
  BY ChatInitially, ChatInductive, ChatPurchases, PTL DEF ChatSpec

\* A reopened request leaves no approval behind that could still be announced.
THEOREM ApprovalsAreCurrent == ChatSpec => []NoOutdatedApproval
  <1>1. ChatInvariant => NoOutdatedApproval
    BY DEF ChatInvariant
  <1> QED BY <1>1, ChatInvariantHolds, PTL

\* The chat service never posts an event before the older ones of its request.
THEOREM PostedWithoutGaps == ChatSpec => []NoGaps
  <1>1. ASSUME ChatInvariant PROVE NoGaps
    <2> USE <1>1 DEF ChatInvariant
    <2> SUFFICES ASSUME NEW r \in Requests, NEW v \in Versions, NEW u \in Versions,
                        call[r][v] = "posted", u < v, outbox[r][u].kind # "none"
                 PROVE  call[r][u] = "posted" \/ outbox[r][u].status = "superseded"
      BY DEF NoGaps
    <2>1. v \in Versions /\ outbox[r][u] \in Entry
      BY DEF ChatTypeOK
    <2>2. outbox[r][u].status \notin {"pending", "sending", "failed", "none"}
      BY <2>1 DEF InTurn, Begun, Blocked, Versioned
    <2>3. outbox[r][u].status \in {"sent", "superseded"}
      BY <2>1, <2>2, EntryFacts
    <2> QED BY <2>3 DEF SentIsPosted
  <1> QED BY <1>1, ChatInvariantHolds, PTL

-----------------------------------------------------------------------------
(* The outbox implements OrderedDelivery. *)

\* Writing an entry is a change of the abstract entry.
LEMMA PutAbstract ==
  ASSUME ChatTypeOK, NEW r \in Requests, NEW v \in Versions, NEW e \in Entry, Put(r, v, e)
  PROVE  OD!Become(r, v, Abstract(e.status))
  <1>1. /\ outbox'[r][v] = e
        /\ \A q \in Requests, u \in Versions : q # r \/ u # v => outbox'[q][u] = outbox[q][u]
    BY PutFacts
  <1>2. \A q \in Requests \ {r} : abstractEntry'[q] = abstractEntry[q]
    BY <1>1 DEF abstractEntry
  <1>3. abstractEntry'[r] = [abstractEntry[r] EXCEPT ![v] = Abstract(e.status)]
    BY <1>1 DEF abstractEntry
  <1>4. abstractEntry' = [abstractEntry EXCEPT ![r] = [abstractEntry[r] EXCEPT ![v] = Abstract(e.status)]]
    BY <1>2, <1>3 DEF abstractEntry
  <1> QED BY <1>4 DEF OD!Become

\* The abstract entry of a row.
LEMMA AbstractFacts ==
  ASSUME NEW r \in Requests, NEW v \in Versions
  PROVE  /\ abstractEntry[r][v] = Abstract(outbox[r][v].status)
         /\ abstractEntry[r][v] = "open" <=> Open(r, v)
         /\ outbox[r][v].status = "none" => abstractEntry[r][v] = "none"
  BY DEF abstractEntry, Abstract, Open

\* A row may be written without a change of its abstract entry.
LEMMA SameAbstract ==
  ASSUME ChatTypeOK, NEW r \in Requests, NEW v \in Versions, NEW e \in Entry, Put(r, v, e),
         Abstract(e.status) = Abstract(outbox[r][v].status)
  PROVE  UNCHANGED abstractEntry
  <1>1. /\ outbox'[r][v] = e
        /\ \A q \in Requests, u \in Versions : q # r \/ u # v => outbox'[q][u] = outbox[q][u]
    BY PutFacts
  <1>2. \A q \in Requests, u \in Versions :
           Abstract(outbox'[q][u].status) = Abstract(outbox[q][u].status)
    BY <1>1
  <1> QED BY <1>2 DEF abstractEntry

\* A captured event is the newest entry of its stream.
LEMMA CaptureAppends ==
  ASSUME ChatInvariant, NEW r \in Requests, NEW kind \in Kinds \ {"none"},
         NEW bump \in BOOLEAN, capture(r, kind, bump), ~bump => req[r].status = "none"
  PROVE  OD!Next
  <1> USE DEF ChatInvariant
  <1>1. PICK v \in Versions :
           /\ v = IF bump THEN version[r] + 1 ELSE version[r]
           /\ Put(r, v, [NoEntry EXCEPT !.kind = kind, !.status = "pending", !.due = TRUE])
    BY DEF capture
  <1>2. PICK e \in Entry : e.status = "pending" /\ Put(r, v, e)
    <2>1. NoEntry \in Entry
      BY PrivateChatConstants DEF NoEntry, Entry, Kinds
    <2>2. /\ [NoEntry EXCEPT !.kind = kind, !.status = "pending", !.due = TRUE] \in Entry
          /\ [NoEntry EXCEPT !.kind = kind, !.status = "pending", !.due = TRUE].status
                = "pending"
      BY <2>1 DEF Entry, Kinds
    <2> QED BY <1>1, <2>2
  <1>3. \A u \in Versions : u >= v => outbox[r][u].status = "none"
    <2>1. CASE bump
      <3>1. version[r] \in Int /\ \A u \in Versions : u \in Int
        BY PrivateChatConstants DEF ChatTypeOK, Versions
      <3> QED BY <1>1, <2>1, <3>1 DEF Versioned
    <2>2. CASE ~bump
      BY <2>2 DEF Versioned
    <2> QED BY <2>1, <2>2
  <1>4. \A u \in Versions : u >= v => abstractEntry[r][u] = "none"
    BY <1>3, AbstractFacts
  <1>5. abstractEntry[r][v] = "none" /\ \A u \in Versions : u > v => abstractEntry[r][u] = "none"
    <2>1. \A u \in Versions : u \in Int
      BY PrivateChatConstants DEF Versions
    <2> QED BY <1>4, <2>1
  <1>6. OD!Become(r, v, "open")
    BY <1>2, PutAbstract DEF Abstract
  <1>7. OD!Append(r, v)
    BY <1>5, <1>6 DEF OD!Append, OD!Newest
  <1> QED BY <1>7 DEF OD!Next

\* A reopened request withdraws the newest entry, or leaves a final one alone.
LEMMA ReopenWithdraws ==
  ASSUME ChatInvariant, NEW r \in Requests, Reopen(r)
  PROVE  [OD!Next]_abstractEntry
  <1> USE DEF ChatInvariant
  <1>1. PICK v \in Versions : v = version[r]
    BY DEF ChatTypeOK
  <1>2. CASE UNCHANGED outbox
    BY <1>2 DEF abstractEntry
  <1>3. CASE ~UNCHANGED outbox
    <2>1. outbox[r][v] \in Entry
      BY DEF ChatTypeOK
    <2>2. PICK e \in Entry : e.status = "superseded" /\ Put(r, v, e)
      <3>1. /\ [outbox[r][v] EXCEPT !.status = "superseded", !.lease = Null] \in Entry
            /\ [outbox[r][v] EXCEPT !.status = "superseded", !.lease = Null].status
                  = "superseded"
        BY <2>1 DEF Entry
      <3> QED BY <1>1, <1>3, <3>1 DEF Reopen
    <2>3. outbox[r][v].status \in {"pending", "sending", "failed", "superseded"}
      BY <1>1, <1>3, <2>1, EntryFacts DEF Reopen
    <2>4. CASE outbox[r][v].status = "superseded"
      BY <2>2, <2>4, SameAbstract
    <2>5. CASE outbox[r][v].status # "superseded"
      <3>1. abstractEntry[r][v] = "open"
        BY <2>3, <2>5, AbstractFacts DEF Open
      <3>2. \A u \in Versions : u > v => outbox[r][u].status = "none"
        <4>1. v \in Int /\ \A u \in Versions : u \in Int
          BY PrivateChatConstants DEF Versions
        <4>2. ASSUME NEW u \in Versions, u > v PROVE outbox[r][u].kind = "none"
          <5>1. outbox[r][u].kind # "none" => u <= v
            BY <1>1 DEF Versioned
          <5> QED BY <4>1, <4>2, <5>1
        <4> QED BY <4>2 DEF Versioned
      <3>3. \A u \in Versions : u > v => abstractEntry[r][u] = "none"
        BY <3>2, AbstractFacts
      <3>4. OD!Become(r, v, "withdrawn")
        BY <2>2, PutAbstract DEF Abstract
      <3>5. OD!Withdraw(r, v)
        BY <3>1, <3>3, <3>4 DEF OD!Withdraw, OD!Newest
      <3> QED BY <3>5 DEF OD!Next
    <2> QED BY <2>4, <2>5
  <1> QED BY <1>2, <1>3

\* A result that counts announces the entry, or leaves it open.
LEMMA FinishAnnounces ==
  ASSUME ChatInvariant, NEW w \in Workers, FinishDelivery(w)
  PROVE  [OD!Next]_abstractEntry
  <1> USE DEF ChatInvariant
  <1>1. PICK r \in Requests, v \in Versions : r = wjob[w].id /\ v = wjob[w].version
    BY DEF FinishDelivery, InTurn, ChatTypeOK
  <1>2. CASE UNCHANGED outbox
    BY <1>2 DEF abstractEntry
  <1>3. CASE ~UNCHANGED outbox
    <2>1. outbox[r][v] \in Entry
      BY DEF ChatTypeOK
    <2>2. PICK s \in {"sent", "failed", "pending"} : s = Result(wjob[w])
      BY DEF Result
    <2>3. PICK e \in Entry : e.status = s /\ Put(r, v, e)
      <3>1. /\ [outbox[r][v] EXCEPT !.status = s, !.lease = Null, !.due = FALSE] \in Entry
            /\ [outbox[r][v] EXCEPT !.status = s, !.lease = Null, !.due = FALSE].status = s
        BY <2>1 DEF Entry
      <3> QED BY <1>1, <1>3, <2>2, <3>1 DEF FinishDelivery
    <2>4. outbox[r][v].status = "sending"
      BY <1>1, <1>3 DEF FinishDelivery
    <2>5. CASE s # "sent"
      <3>1. Abstract(s) = Abstract("sending")
        BY <2>5 DEF Abstract
      <3> QED BY <2>3, <2>4, <3>1, SameAbstract
    <2>6. CASE s = "sent"
      <3>1. abstractEntry[r][v] = "open"
        BY <2>4, AbstractFacts DEF Open
      <3>2. \A u \in Versions : u < v => ~Open(r, u)
        BY <2>4 DEF InTurn, Begun, Blocked, Open
      <3>3. \A u \in Versions : u < v => abstractEntry[r][u] # "open"
        BY <3>2, AbstractFacts
      <3>4. OD!Become(r, v, "announced")
        BY <2>3, <2>6, PutAbstract DEF Abstract
      <3>5. OD!Announce(r, v)
        BY <3>1, <3>3, <3>4 DEF OD!Announce
      <3> QED BY <3>5 DEF OD!Next
    <2> QED BY <2>5, <2>6
  <1> QED BY <1>2, <1>3

\* Claiming, waiting and re-driving do not resolve anything.
LEMMA RowStaysOpen ==
  ASSUME ChatInvariant, NEW r \in Requests, NEW v \in Versions,
         (\E w \in Workers : Claim(w, r, v)) \/ BecomesDue(r, v) \/ Requeue(r, v)
  PROVE  UNCHANGED abstractEntry
  <1> USE DEF ChatInvariant
  <1>1. outbox[r][v] \in Entry /\ 0 \in 0 .. MaxAttempts + 1
    BY PrivateChatConstants DEF ChatTypeOK
  <1>2. PICK e \in Entry :
           /\ Put(r, v, e)
           /\ e.status \in {"pending", "sending"}
           /\ outbox[r][v].status \in {"pending", "sending", "failed"}
    <2>1. ASSUME NEW w \in Workers, Claim(w, r, v)
          PROVE  \E e \in Entry : /\ Put(r, v, e)
                                  /\ e.status \in {"pending", "sending"}
                                  /\ outbox[r][v].status \in {"pending", "sending", "failed"}
      <3>1. PICK n \in 0 .. MaxAttempts + 1 :
               n = IF outbox[r][v].attempts > MaxAttempts THEN outbox[r][v].attempts
                   ELSE outbox[r][v].attempts + 1
        <4>1. outbox[r][v].attempts \in 0 .. MaxAttempts + 1
          BY <1>1, EntryFacts
        <4> QED BY <4>1, PrivateChatConstants
      <3>2. /\ [outbox[r][v] EXCEPT !.status = "sending", !.attempts = n, !.lease = w,
                                    !.due = FALSE] \in Entry
            /\ [outbox[r][v] EXCEPT !.status = "sending", !.attempts = n, !.lease = w,
                                    !.due = FALSE].status = "sending"
        BY <1>1 DEF Entry
      <3>3. /\ outbox[r][v].status \in {"pending", "sending"}
            /\ Put(r, v, [outbox[r][v] EXCEPT !.status = "sending", !.attempts = n,
                                              !.lease = w, !.due = FALSE])
        BY <2>1, <3>1 DEF Claim, Candidate
      <3> QED BY <3>2, <3>3
    <2>2. CASE BecomesDue(r, v)
      <3>1. /\ [outbox[r][v] EXCEPT !.due = TRUE] \in Entry
            /\ [outbox[r][v] EXCEPT !.due = TRUE].status = outbox[r][v].status
        BY <1>1 DEF Entry
      <3> QED BY <2>2, <3>1 DEF BecomesDue
    <2>3. CASE Requeue(r, v)
      <3>1. /\ [outbox[r][v] EXCEPT !.status = "pending", !.attempts = 0, !.lease = Null,
                                    !.due = TRUE] \in Entry
            /\ [outbox[r][v] EXCEPT !.status = "pending", !.attempts = 0, !.lease = Null,
                                    !.due = TRUE].status = "pending"
        BY <1>1 DEF Entry
      <3> QED BY <2>3, <3>1 DEF Requeue
    <2> QED BY <2>1, <2>2, <2>3
  <1>3. Abstract(e.status) = "open" /\ Abstract(outbox[r][v].status) = "open"
    BY <1>2 DEF Abstract
  <1> QED BY <1>2, <1>3, SameAbstract

\* The chat outbox implements ordered delivery.
THEOREM OutboxDeliversInOrder == ChatSpec => ImplementsOrderedDelivery
<1>1. ASSUME ChatInit PROVE OD!Init
  BY <1>1 DEF ChatInit, OD!Init, abstractEntry, Abstract, NoEntry
<1>2. ASSUME PurchaseInvariant, ChatInvariant, [ChatNext]_chatVars
      PROVE  [OD!Next]_abstractEntry
  <2>1. ASSUME UNCHANGED outbox PROVE [OD!Next]_abstractEntry
    BY <2>1 DEF abstractEntry
  <2>2. CASE UNCHANGED chatVars \/ UncapturedStep
    BY <2>1, <2>2 DEF chatVars, chat, UncapturedStep
  <2>3. CASE CapturedStep
    <3>1. ASSUME NEW r \in Requests, CapturedDecision(r) PROVE [OD!Next]_abstractEntry
      <4>1. CASE \E slots \in SUBSET Slots :
                    Create(r, slots) /\ capture(r, "created", FALSE)
        BY <1>2, <4>1, CaptureAppends DEF Create, Kinds
      <4>2. CASE capture(r, "rejected", TRUE)
        BY <1>2, <4>2, CaptureAppends DEF Kinds
      <4>3. CASE UNCHANGED chat
        BY <2>1, <4>3 DEF chat
      <4> QED BY <3>1, <4>1, <4>2, <4>3 DEF CapturedDecision
    <3>2. ASSUME NEW p \in Procs, NEW r \in Requests, NEW accept \in BOOLEAN,
                 NEW a \in Approval, CapturedPurchase(p, r, accept, a)
          PROVE  [OD!Next]_abstractEntry
      <4>1. CASE capture(r, "approved", TRUE)
        BY <1>2, <4>1, CaptureAppends DEF Kinds
      <4>2. CASE UNCHANGED chat
        BY <2>1, <4>2 DEF chat
      <4> QED BY <3>2, <4>1, <4>2 DEF CapturedPurchase
    <3>3. ASSUME NEW p \in Procs, CapturedReset(p) PROVE [OD!Next]_abstractEntry
      <4>1. job[p].id \in Requests
        BY <1>2, <3>3 DEF PurchaseInvariant, JobsNamed, CapturedReset, ResetRejected
      <4>2. CASE Reopen(job[p].id)
        BY <1>2, <4>1, <4>2, ReopenWithdraws
      <4>3. CASE UNCHANGED chat
        BY <2>1, <4>3 DEF chat
      <4> QED BY <3>3, <4>2, <4>3 DEF CapturedReset
    <3> QED BY <2>3, <3>1, <3>2, <3>3 DEF CapturedStep
  <2>4. ASSUME NEW w \in Workers, NEW r \in Requests, ClaimStep(w, r)
        PROVE  UNCHANGED abstractEntry
    BY <1>2, <2>4, RowStaysOpen DEF ClaimStep
  <2>5. ASSUME NEW w \in Workers, DeliveryStep(w) \/ WorkerStops(w)
        PROVE  [OD!Next]_abstractEntry
    <3>1. CASE FinishDelivery(w)
      BY <1>2, <3>1, FinishAnnounces
    <3>2. CASE Event(w) \/ Deliver(w) \/ WorkerStops(w)
      BY <2>1, <3>2 DEF Event, Deliver, WorkerStops
    <3> QED BY <2>5, <3>1, <3>2 DEF DeliveryStep
  <2>6. ASSUME NEW r \in Requests,
               ServiceStep(r) \/ TimeStep(r) \/ \E v \in Versions : Requeue(r, v)
        PROVE  UNCHANGED abstractEntry
    <3>1. CASE ServiceStep(r)
      BY <3>1 DEF ServiceStep, Projection, ProjectInvoice, Post, abstractEntry
    <3> QED BY <1>2, <2>6, <3>1, RowStaysOpen DEF TimeStep
  <2> QED BY <1>2, <2>2, <2>3, <2>4, <2>5, <2>6 DEF ChatNext
<1> QED BY <1>1, <1>2, ChatInvariantHolds, ChatPurchases, PTL
     DEF ChatSpec, ImplementsOrderedDelivery, OD!Spec

=============================================================================
