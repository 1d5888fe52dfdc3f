------------------------ MODULE PrivateRequestProofs ------------------------
(***************************************************************************)
(* Theorems about PrivateRequest for every set of requests, students,      *)
(* slots and HTTP requests.                                                *)
(*                                                                         *)
(* Every action writes the rows of at most one request, so the proof that  *)
(* an action preserves PurchaseInvariant says what it does to that request *)
(* (OneRow), and the lemma OneRowStep does the rest once for all actions.  *)
(***************************************************************************)
EXTENDS PrivateRequest, TLAPS

EnrollmentStatuses == {"none", "pending", "active", "suspended", "dropped"}

\* The part of PurchaseInvariant that speaks of one request.
RowInvariant(r) ==
    /\ Sale(r)
    /\ enr[r].status \in {"pending", "active", "suspended"} => req[r].status = "approved"
    /\ "activated" \in log[r] =>
          enr[r].status \in {"active", "suspended"} \/ "ended" \in log[r]

\* A step writes the rows of r only, keeps their invariant, and makes its
\* enrollment live only when the unique index lets it.
OneRow(r) ==
    /\ \A q \in Requests \ {r} : /\ req'[q] = req[q] /\ enr'[q] = enr[q]
                                 /\ sold'[q] = sold[q] /\ log'[q] = log[q]
    /\ RowInvariant(r)'
    /\ Live(enr'[r]) => Live(enr[r]) \/ UniqueLive(r)

-----------------------------------------------------------------------------
(* Types. *)

\* A request row keeps its type when its columns are written.
LEMMA RequestTyped ==
  ASSUME TypeOK, NEW r \in Requests, NEW s \in RequestStatuses, NEW sl \in SUBSET Slots
  PROVE  /\ [req EXCEPT ![r] = [@ EXCEPT !.status = s]] \in [Requests -> RequestRow]
         /\ [req EXCEPT ![r] = [@ EXCEPT !.status = s, !.recommended = sl]]
               \in [Requests -> RequestRow]
         /\ [req EXCEPT ![r] = [@ EXCEPT !.status = s, !.approved = sl]]
               \in [Requests -> RequestRow]
  <1>1. req[r] \in RequestRow
    BY DEF TypeOK
  <1>2. /\ [req[r] EXCEPT !.status = s] \in RequestRow
        /\ [req[r] EXCEPT !.status = s, !.recommended = sl] \in RequestRow
        /\ [req[r] EXCEPT !.status = s, !.approved = sl] \in RequestRow
    BY <1>1 DEF RequestRow, RequestStatuses
  <1> QED
    BY <1>2 DEF TypeOK

\* An enrollment row keeps its type when its columns are written.
LEMMA EnrollmentTyped ==
  ASSUME TypeOK, NEW r \in Requests, NEW s \in EnrollmentStatuses, NEW f \in BOOLEAN
  PROVE  /\ [enr EXCEPT ![r] = [@ EXCEPT !.status = s]] \in [Requests -> EnrollmentRow]
         /\ [enr EXCEPT ![r] = [@ EXCEPT !.status = s, !.fee = f]]
               \in [Requests -> EnrollmentRow]
         /\ [enr EXCEPT ![r] = [@ EXCEPT !.tx = TRUE]] \in [Requests -> EnrollmentRow]
         /\ [enr EXCEPT ![r] = [NoEnrollment EXCEPT !.status = s]]
               \in [Requests -> EnrollmentRow]
  <1>1. enr[r] \in EnrollmentRow /\ NoEnrollment \in EnrollmentRow
    BY DEF TypeOK, EnrollmentRow, NoEnrollment
  <1>2. /\ [enr[r] EXCEPT !.status = s] \in EnrollmentRow
        /\ [enr[r] EXCEPT !.status = s, !.fee = f] \in EnrollmentRow
        /\ [enr[r] EXCEPT !.tx = TRUE] \in EnrollmentRow
        /\ [NoEnrollment EXCEPT !.status = s] \in EnrollmentRow
    BY <1>1 DEF EnrollmentRow, EnrollmentStatuses
  <1> QED
    BY <1>2 DEF TypeOK

\* Starting, continuing and ending an HTTP request keep the types of its state
\* and the fact that a running one works on a request that exists.
LEMMA ProcsTyped ==
  ASSUME TypeOK, JobsNamed,
         \/ UNCHANGED procs
         \/ \E p \in Procs :
               \/ Finish(p)
               \/ pc[p] # "idle" /\ \E s \in Steps : Goto(p, s)
               \/ \E s \in Steps, r \in Requests, b \in BOOLEAN : Start(p, s, r, b)
  PROVE  /\ pc' \in [Procs -> Steps]
         /\ job' \in [Procs -> [id : Requests \cup {Null}, accept : BOOLEAN]]
         /\ JobsNamed'
  <1>1. CASE UNCHANGED procs
    BY <1>1 DEF procs, TypeOK, JobsNamed
  <1>2. CASE \E p \in Procs : Finish(p)
    BY <1>2 DEF TypeOK, JobsNamed, Finish, NoJob, Steps
  <1>3. CASE \E p \in Procs : pc[p] # "idle" /\ \E s \in Steps : Goto(p, s)
    BY <1>3 DEF TypeOK, JobsNamed, Goto, Steps
  <1>4. CASE \E p \in Procs : \E s \in Steps, r \in Requests, b \in BOOLEAN :
                Start(p, s, r, b)
    BY <1>4 DEF TypeOK, JobsNamed, Start, Steps
  <1> QED
    BY <1>1, <1>2, <1>3, <1>4

\* A step that writes the rows of one request preserves the whole invariant.
LEMMA OneRowStep ==
  ASSUME PurchaseInvariant, TypeOK', JobsNamed', NEW r \in Requests, OneRow(r)
  PROVE  PurchaseInvariant'
  <1>1. \A q \in Requests : RowInvariant(q)'
    <2> SUFFICES ASSUME NEW q \in Requests, q # r PROVE RowInvariant(q)'
      BY DEF OneRow
    <2>1. /\ req'[q] = req[q] /\ enr'[q] = enr[q]
          /\ sold'[q] = sold[q] /\ log'[q] = log[q]
      BY DEF OneRow
    <2>2. RowInvariant(q)
      BY DEF PurchaseInvariant, Sales, PurchaseImpliesApproval, ActivationKept,
             RowInvariant
    <2> QED
      BY <2>1, <2>2 DEF RowInvariant, Sale
  <1>2. OneLivePurchase'
    <2> SUFFICES ASSUME NEW a \in Requests, NEW b \in Requests,
                        a # b, StudentOf[a] = StudentOf[b]
                 PROVE  ~(Live(enr'[a]) /\ Live(enr'[b]))
      BY DEF OneLivePurchase
    <2>1. ~(Live(enr[a]) /\ Live(enr[b]))
      BY DEF PurchaseInvariant, OneLivePurchase
    <2>2. CASE a # r /\ b # r
      BY <2>1, <2>2 DEF OneRow
    <2>3. CASE a = r
      BY <2>1, <2>3 DEF OneRow, UniqueLive, SameStudent
    <2>4. CASE b = r
      BY <2>1, <2>4 DEF OneRow, UniqueLive, SameStudent
    <2> QED
      BY <2>2, <2>3, <2>4
  <1> QED
    BY <1>1, <1>2 DEF PurchaseInvariant, RowInvariant, Sales, PurchaseImpliesApproval,
                      ActivationKept

\* A step that writes none of these rows preserves it too.
LEMMA NoRowStep ==
  ASSUME PurchaseInvariant, TypeOK', JobsNamed', UNCHANGED <<req, enr, sold, log>>
  PROVE  PurchaseInvariant'
  BY DEF PurchaseInvariant, Sales, Sale, PurchaseImpliesApproval, OneLivePurchase,
         ActivationKept

-----------------------------------------------------------------------------
(* One lemma per group of actions. *)

\* Staff's and the parent's decisions change a request without a live purchase.
LEMMA DecisionStep ==
  ASSUME PurchaseInvariant, NEW r \in Requests, Decision(r)
  PROVE  PurchaseInvariant'
  <1> USE DEF PurchaseInvariant
  <1>0. UNCHANGED <<enr, sold, outside, billing, procs, log>>
    BY DEF Decision, Create, Reject, RejectWithRecommendation, DeclineRecommendation,
           Cancel
  <1>1. JobsNamed' /\ pc' \in [Procs -> Steps]
        /\ job' \in [Procs -> [id : Requests \cup {Null}, accept : BOOLEAN]]
    BY <1>0, ProcsTyped
  <1>2. /\ RowInvariant(r) /\ req[r] \in RequestRow /\ enr[r] \in EnrollmentRow
        /\ DOMAIN req = Requests
    BY DEF RowInvariant, Sales, PurchaseImpliesApproval, ActivationKept, TypeOK
  <1>3. ASSUME req' \in [Requests -> RequestRow], OneRow(r)
        PROVE  PurchaseInvariant'
    <2>1. TypeOK'
      BY <1>0, <1>1, <1>3 DEF TypeOK, outside, billing
    <2> QED
      BY <2>1, <1>1, <1>3, OneRowStep
  <1>4. ASSUME NEW slots \in SUBSET Slots, Create(r, slots)
        PROVE  PurchaseInvariant'
    <2>1. req' = [req EXCEPT ![r] = [NoRequest EXCEPT !.status = "pending",
                                                      !.slots = slots]]
      BY <1>4 DEF Create
    <2>2. [NoRequest EXCEPT !.status = "pending", !.slots = slots] \in RequestRow
      BY DEF NoRequest, RequestRow, RequestStatuses
    <2>3. req' \in [Requests -> RequestRow]
      BY <2>1, <2>2 DEF TypeOK
    <2>4. OneRow(r)
      BY <1>0, <1>2, <1>4, <2>1 DEF Create, OneRow, RowInvariant, Sale, NoRequest
    <2> QED
      BY <1>3, <2>3, <2>4
  <1>5. ASSUME NEW slots \in SUBSET Slots, RejectWithRecommendation(r, slots)
        PROVE  PurchaseInvariant'
    <2>1. req' = [req EXCEPT ![r] = [@ EXCEPT !.status = "rejected",
                                              !.recommended = slots]]
      BY <1>5 DEF RejectWithRecommendation
    <2>2. req' \in [Requests -> RequestRow]
      BY <2>1, RequestTyped DEF RequestStatuses
    <2>3. OneRow(r)
      BY <1>0, <1>2, <1>5, <2>1 DEF RejectWithRecommendation, OneRow, RowInvariant, Sale,
                                    RequestRow
    <2> QED
      BY <1>3, <2>2, <2>3
  <1>6. ASSUME NEW s \in {"rejected", "declined", "cancelled"}, Become(r, s),
               req[r].status \in {"pending", "rejected"}
        PROVE  PurchaseInvariant'
    <2>1. req' = [req EXCEPT ![r] = [@ EXCEPT !.status = s]]
      BY <1>6 DEF Become
    <2>2. req' \in [Requests -> RequestRow]
      BY <2>1, RequestTyped DEF RequestStatuses
    <2>3. OneRow(r)
      BY <1>0, <1>2, <1>6, <2>1 DEF OneRow, RowInvariant, Sale, RequestRow
    <2> QED
      BY <1>3, <2>2, <2>3
  <1>7. CASE Reject(r)
    BY <1>6, <1>7 DEF Reject
  <1>8. CASE DeclineRecommendation(r)
    BY <1>6, <1>8 DEF DeclineRecommendation
  <1>9. CASE Cancel(r)
    BY <1>6, <1>9 DEF Cancel
  <1> QED
    BY <1>4, <1>5, <1>7, <1>8, <1>9 DEF Decision

\* The transaction that starts a purchase approves the request with the
\* enrollment it sells, and keeps what an earlier purchase sold.
LEMMA PurchaseStartStep ==
  ASSUME PurchaseInvariant, NEW p \in Procs, NEW r \in Requests, NEW accept \in BOOLEAN,
         NEW a \in Approval, Purchase(p, r, accept, a)
  PROVE  PurchaseInvariant'
  <1> USE DEF PurchaseInvariant
  <1>0. Start(p, "invoice", r, accept) /\ UNCHANGED <<outside, billing, log>>
    BY DEF Purchase, PurchaseAgain, PurchaseRestored, PurchaseNew
  <1>1. JobsNamed' /\ pc' \in [Procs -> Steps]
        /\ job' \in [Procs -> [id : Requests \cup {Null}, accept : BOOLEAN]]
    <2>1. "invoice" \in Steps
      BY DEF Steps
    <2> QED
      BY <1>0, <2>1, ProcsTyped
  <1>2. /\ RowInvariant(r) /\ req[r] \in RequestRow /\ enr[r] \in EnrollmentRow
        /\ DOMAIN req = Requests /\ DOMAIN enr = Requests /\ DOMAIN sold = Requests
    BY DEF RowInvariant, Sales, PurchaseImpliesApproval, ActivationKept, TypeOK
  <1>3. ASSUME req' \in [Requests -> RequestRow], enr' \in [Requests -> EnrollmentRow],
               sold' \in [Requests -> SUBSET Slots], OneRow(r)
        PROVE  PurchaseInvariant'
    <2>1. TypeOK'
      BY <1>0, <1>1, <1>3 DEF TypeOK, outside, billing
    <2> QED
      BY <2>1, <1>1, <1>3, OneRowStep
  <1>4. CASE PurchaseAgain(p, r, accept)
    <2>1. UNCHANGED <<req, enr, sold>>
      BY <1>4 DEF PurchaseAgain
    <2>2. OneRow(r)
      BY <1>0, <1>2, <2>1 DEF OneRow, RowInvariant, Sale
    <2> QED
      BY <1>3, <2>1, <2>2 DEF TypeOK
  <1>5. CASE PurchaseRestored(p, r, accept)
    <2>1. /\ req' = [req EXCEPT ![r] = [@ EXCEPT !.status = "approved"]]
          /\ sold' = sold
      BY <1>5 DEF PurchaseRestored, Become
    <2>2. req' \in [Requests -> RequestRow]
      BY <2>1, RequestTyped DEF RequestStatuses
    <2>3. CASE enr[r].status = "pending" /\ UNCHANGED enr
      BY <1>2, <1>5, <2>3 DEF PurchaseRestored, RowInvariant
    <2>4. CASE /\ platformFeeRejected(enr[r]) /\ UniqueLive(r)
               /\ enr' = [enr EXCEPT ![r] = [@ EXCEPT !.status = "pending",
                                                      !.fee = FALSE]]
      <3>1. enr' \in [Requests -> EnrollmentRow]
        BY <2>4, EnrollmentTyped DEF EnrollmentStatuses
      <3>2. OneRow(r)
        BY <1>0, <1>2, <1>5, <2>1, <2>4
           DEF PurchaseRestored, platformFeeRejected, OneRow, RowInvariant, Sale,
               RequestRow, EnrollmentRow
      <3> QED
        BY <1>3, <2>1, <2>2, <3>1, <3>2 DEF TypeOK
    <2> QED
      BY <1>5, <2>3, <2>4 DEF PurchaseRestored
  <1>6. CASE PurchaseNew(p, r, accept, a)
    <2> DEFINE slots == IF accept THEN req[r].recommended ELSE privateSelectedSlots(r, a)
               approved == IF accept THEN req[r].approved ELSE slots
    <2>1. /\ req' = [req EXCEPT ![r] = [@ EXCEPT !.status = "approved",
                                                 !.approved = approved]]
          /\ enr' = [enr EXCEPT ![r] = [NoEnrollment EXCEPT !.status = "pending"]]
          /\ sold' = [sold EXCEPT ![r] = slots]
          /\ enr[r].status = "none" /\ req[r].status # "approved" /\ UniqueLive(r)
      BY <1>6 DEF PurchaseNew
    <2>2. /\ slots \in SUBSET Slots /\ approved \in SUBSET Slots
          /\ ~accept => slots # {} /\ slots \subseteq req[r].slots
          /\ accept => req[r].recommended # {}
          /\ ~accept => req[r].recommended = {}
      <3>1. /\ req[r].slots \in SUBSET Slots /\ req[r].approved \in SUBSET Slots
            /\ req[r].recommended \in SUBSET Slots
        BY <1>2 DEF RequestRow
      <3>2. accept => req[r].recommended # {}
        BY DEF Purchase, Decidable
      <3>3. ~accept => req[r].recommended = {} /\ req[r].status # "none"
        BY DEF Purchase, Decidable
      <3>4. ~accept => slots # {} /\ slots \subseteq req[r].slots
        <4>1. CASE a # Null
          BY <4>1 DEF Purchase, Selectable, privateSelectedSlots
        <4>2. CASE a = Null
          BY <4>2, <1>2, <2>1, <3>3 DEF privateSelectedSlots, RowInvariant, Sale
        <4> QED
          BY <4>1, <4>2
      <3> QED
        BY <3>1, <3>2, <3>3, <3>4
    <2> HIDE DEF slots, approved
    <2>3. /\ req' \in [Requests -> RequestRow]
          /\ enr' \in [Requests -> EnrollmentRow]
      BY <2>1, <2>2, RequestTyped, EnrollmentTyped
         DEF RequestStatuses, EnrollmentStatuses
    <2>4. sold' \in [Requests -> SUBSET Slots]
      BY <2>1, <2>2 DEF TypeOK
    <2>5. req[r].status # "none"
      BY DEF Purchase, Decidable
    <2>6. ~accept => approved = slots
      BY DEF approved
    <2>7. OneRow(r)
      <3>1. /\ req'[r].status = "approved" /\ req'[r].approved = approved
            /\ req'[r].slots = req[r].slots /\ req'[r].recommended = req[r].recommended
            /\ enr'[r].status = "pending" /\ sold'[r] = slots /\ log'[r] = log[r]
        BY <1>0, <1>2, <2>1 DEF RequestRow, NoEnrollment
      <3>2. RowInvariant(r)'
        BY <1>2, <2>1, <2>2, <2>5, <2>6, <3>1 DEF RowInvariant, Sale
      <3> QED
        BY <1>0, <2>1, <3>2 DEF OneRow
    <2> QED
      BY <1>3, <2>3, <2>4, <2>7
  <1> QED
    BY <1>4, <1>5, <1>6 DEF Purchase

\* What is known of a row before a step.
LEMMA RowFacts ==
  ASSUME PurchaseInvariant, NEW r \in Requests
  PROVE  /\ RowInvariant(r) /\ req[r] \in RequestRow /\ enr[r] \in EnrollmentRow
         /\ DOMAIN req = Requests /\ DOMAIN enr = Requests /\ DOMAIN log = Requests
  BY DEF PurchaseInvariant, RowInvariant, Sales, PurchaseImpliesApproval, ActivationKept,
         TypeOK

\* A step that at most writes the enrollment and the history of one request.
LEMMA EnrollmentWrite ==
  ASSUME PurchaseInvariant, NEW r \in Requests, JobsNamed',
         pc' \in [Procs -> Steps],
         job' \in [Procs -> [id : Requests \cup {Null}, accept : BOOLEAN]],
         UNCHANGED <<req, sold, outside, billing>>,
         enr' \in [Requests -> EnrollmentRow],
         \A q \in Requests \ {r} : enr'[q] = enr[q],
         NEW ending \in SUBSET {"activated", "ended"},
         log' = [log EXCEPT ![r] = @ \cup ending],
         enr'[r].status # enr[r].status =>
            \/ enr[r].status = "pending" /\ enr'[r].status = "dropped"
            \/ enr[r].status \in {"pending", "active", "suspended"} /\ "ended" \in ending
                  /\ enr'[r].status = "dropped"
            \/ enr[r].status = "active" /\ enr'[r].status = "suspended"
            \/ enr[r].status = "suspended" /\ enr'[r].status = "active" /\ UniqueLive(r)
            \/ enr[r].status = "pending" /\ enr'[r].status = "active",
         "activated" \in ending => enr'[r].status = "active"
  PROVE  PurchaseInvariant'
  <1>1. /\ RowInvariant(r) /\ enr[r] \in EnrollmentRow /\ DOMAIN log = Requests
    BY RowFacts
  <1>2. TypeOK'
    BY DEF PurchaseInvariant, TypeOK, outside, billing
  <1>3. log'[r] = log[r] \cup ending /\ \A q \in Requests \ {r} : log'[q] = log[q]
    BY <1>1
  <1>4. OneRow(r)
    <2>1. RowInvariant(r)'
      BY <1>1, <1>3 DEF RowInvariant, Sale
    <2>2. Live(enr'[r]) => Live(enr[r]) \/ UniqueLive(r)
      BY DEF Live
    <2> QED
      BY <1>3, <2>1, <2>2 DEF OneRow
  <1> QED
    BY <1>2, <1>4, OneRowStep

\* Billing's notifications and the life of an enrollment.
LEMMA EnrollmentStepStep ==
  ASSUME PurchaseInvariant, NEW r \in Requests, EnrollmentStep(r)
  PROVE  PurchaseInvariant'
  <1>0. UNCHANGED <<req, sold, outside, procs>>
    BY DEF EnrollmentStep, Pay, PaymentFails, ActivateEnrollment, ReleaseEnrollment,
           SuspendEnrollment, ResumeEnrollment, EndEnrollment
  <1>1. /\ JobsNamed' /\ pc' \in [Procs -> Steps]
        /\ job' \in [Procs -> [id : Requests \cup {Null}, accept : BOOLEAN]]
    BY <1>0, ProcsTyped DEF PurchaseInvariant
  <1>2. /\ RowInvariant(r) /\ enr[r] \in EnrollmentRow
        /\ DOMAIN enr = Requests /\ DOMAIN log = Requests
    BY RowFacts
  <1>3. CASE Pay(r) \/ PaymentFails(r)
    <2>1. TypeOK'
      BY <1>0, <1>1, <1>3 DEF PurchaseInvariant, TypeOK, Pay, PaymentFails, outside
    <2> QED
      BY <1>0, <1>1, <1>3, <2>1, NoRowStep DEF Pay, PaymentFails
  <1>4. ASSUME UNCHANGED billing, NEW s \in EnrollmentStatuses, EnrollmentBecomes(r, s),
               NEW ending \in SUBSET {"activated", "ended"},
               log' = [log EXCEPT ![r] = @ \cup ending],
               \/ enr[r].status = "pending" /\ s = "dropped"
               \/ enr[r].status \in {"active", "suspended"} /\ "ended" \in ending
                     /\ s = "dropped"
               \/ enr[r].status = "active" /\ s = "suspended"
               \/ enr[r].status = "suspended" /\ s = "active" /\ UniqueLive(r)
               \/ enr[r].status = "pending" /\ s = "active",
               "activated" \in ending => s = "active"
        PROVE  PurchaseInvariant'
    <2>1. enr' = [enr EXCEPT ![r] = [@ EXCEPT !.status = s]]
      BY <1>4 DEF EnrollmentBecomes
    <2>2. enr' \in [Requests -> EnrollmentRow]
      BY <2>1, EnrollmentTyped DEF PurchaseInvariant
    <2>3. enr'[r].status = s /\ \A q \in Requests \ {r} : enr'[q] = enr[q]
      BY <1>2, <2>1 DEF EnrollmentRow
    <2> QED
      BY <1>0, <1>1, <1>4, <2>2, <2>3, EnrollmentWrite
  <1>5. UNCHANGED log => log' = [log EXCEPT ![r] = @ \cup {}]
    BY DEF PurchaseInvariant, TypeOK
  <1>s. {"activated"} \in SUBSET {"activated", "ended"}
        /\ {"ended"} \in SUBSET {"activated", "ended"}
        /\ {} \in SUBSET {"activated", "ended"}
    OBVIOUS
  <1>6. CASE ActivateEnrollment(r)
    BY <1>4, <1>s, <1>6 DEF ActivateEnrollment, EnrollmentStatuses
  <1>7. CASE ReleaseEnrollment(r)
    BY <1>4, <1>5, <1>s, <1>7 DEF ReleaseEnrollment, EnrollmentStatuses
  <1>8. CASE SuspendEnrollment(r)
    BY <1>4, <1>5, <1>s, <1>8 DEF SuspendEnrollment, EnrollmentStatuses
  <1>9. CASE ResumeEnrollment(r)
    BY <1>4, <1>5, <1>s, <1>9 DEF ResumeEnrollment, EnrollmentStatuses
  <1>10. CASE EndEnrollment(r)
    BY <1>4, <1>s, <1>10 DEF EndEnrollment, EnrollmentStatuses
  <1> QED
    BY <1>3, <1>6, <1>7, <1>8, <1>9, <1>10 DEF EnrollmentStep

\* The later transactions of a purchase or a cancellation.
LEMMA ProcessStep ==
  ASSUME PurchaseInvariant, NEW p \in Procs, PurchaseStep(p) \/ CancelStep(p)
  PROVE  PurchaseInvariant'
  <1>0. \/ Finish(p)
        \/ pc[p] # "idle" /\ \E s \in Steps : Goto(p, s)
        \/ \E q \in Requests : Start(p, "withdraw", q, FALSE)
    <2>1. {"save", "reject", "reset", "drop"} \subseteq Steps
      BY DEF Steps
    <2>2. CASE PurchaseStep(p)
      BY <2>1, <2>2 DEF PurchaseStep, GenerateInvoice, RefuseInvoice, DropInvoiceRejected,
                        ResetRejected, UpdatePaymentDetails, PurchaseFails
    <2>3. CASE CancelStep(p)
      BY <2>1, <2>3 DEF CancelStep, CancelPendingEnrollment, WithdrawPayment, DropPending
    <2> QED
      BY <2>2, <2>3
  <1>1. /\ JobsNamed' /\ pc' \in [Procs -> Steps]
        /\ job' \in [Procs -> [id : Requests \cup {Null}, accept : BOOLEAN]]
    <2>1. "withdraw" \in Steps
      BY DEF Steps
    <2> QED
      BY <1>0, <2>1, ProcsTyped DEF PurchaseInvariant
  <1>2. PICK r \in Requests : pc[p] # "idle" => r = job[p].id
    <2>1. pc[p] # "idle" \/ \E q \in Requests : TRUE
      BY <1>0 DEF Finish, PurchaseStep, CancelStep, GenerateInvoice, RefuseInvoice,
                  DropInvoiceRejected, ResetRejected, UpdatePaymentDetails, PurchaseFails,
                  WithdrawPayment, DropPending
    <2> QED
      BY <2>1 DEF PurchaseInvariant, JobsNamed
  <1>t. /\ TypeOK /\ req \in [Requests -> RequestRow] /\ enr \in [Requests -> EnrollmentRow]
        /\ log \in [Requests -> SUBSET {"activated", "ended"}]
    BY DEF PurchaseInvariant, TypeOK
  <1>3. ASSUME UNCHANGED <<req, enr, sold, outside, failed, log>>,
               invoice' \in [Requests -> {"none", "open", "paid", "cancelled"}]
        PROVE  PurchaseInvariant'
    <2>1. TypeOK'
      BY <1>1, <1>3 DEF PurchaseInvariant, TypeOK, outside
    <2> QED
      BY <1>1, <1>3, <2>1, NoRowStep
  <1>4. ASSUME UNCHANGED <<req, sold, outside, billing, log>>,
               enr' \in [Requests -> EnrollmentRow],
               \A q \in Requests \ {r} : enr'[q] = enr[q],
               enr'[r].status # enr[r].status =>
                  enr[r].status = "pending" /\ enr'[r].status = "dropped"
        PROVE  PurchaseInvariant'
    <2>1. log' = [log EXCEPT ![r] = @ \cup {}]
      BY <1>t, <1>4
    <2>2. {} \in SUBSET {"activated", "ended"}
      OBVIOUS
    <2> QED
      BY <1>1, <1>4, <2>1, <2>2, EnrollmentWrite
  <1>5. CASE GenerateInvoice(p) \/ WithdrawPayment(p)
    <2>1. invoice' \in [Requests -> {"none", "open", "paid", "cancelled"}]
      <3>1. CASE GenerateInvoice(p)
        BY <3>1 DEF GenerateInvoice, PurchaseInvariant, TypeOK
      <3>2. CASE WithdrawPayment(p)
        BY <3>2 DEF WithdrawPayment, PurchaseInvariant, TypeOK
      <3> QED
        BY <1>5, <3>1, <3>2
    <2>2. UNCHANGED <<req, enr, sold, outside, failed, log>>
      BY <1>5 DEF GenerateInvoice, WithdrawPayment
    <2> QED
      BY <1>3, <2>1, <2>2
  <1>6. CASE \/ RefuseInvoice(p) \/ PurchaseFails(p)
             \/ \E q \in Requests : CancelPendingEnrollment(p, q)
    <2>1. UNCHANGED <<req, enr, sold, outside, billing, log>>
      BY <1>6 DEF RefuseInvoice, PurchaseFails, CancelPendingEnrollment
    <2>2. invoice' \in [Requests -> {"none", "open", "paid", "cancelled"}]
      BY <2>1 DEF PurchaseInvariant, TypeOK, billing
    <2> QED
      BY <1>3, <2>1, <2>2 DEF billing
  <1>7. CASE DropInvoiceRejected(p)
    <2>1. r = job[p].id
      BY <1>2, <1>7 DEF DropInvoiceRejected
    <2>2. enr' = enr \/ /\ enr[r].status = "pending"
                        /\ enr' = [enr EXCEPT ![r] = [@ EXCEPT !.status = "dropped",
                                                               !.fee = TRUE]]
      BY <1>7, <2>1 DEF DropInvoiceRejected
    <2>3. enr' \in [Requests -> EnrollmentRow]
      <3>1. "dropped" \in EnrollmentStatuses /\ TRUE \in BOOLEAN
        BY DEF EnrollmentStatuses
      <3>2. [enr EXCEPT ![r] = [@ EXCEPT !.status = "dropped", !.fee = TRUE]]
               \in [Requests -> EnrollmentRow]
        BY <1>t, <3>1, EnrollmentTyped
      <3> QED
        BY <1>t, <2>2, <3>2
    <2>4. /\ \A q \in Requests \ {r} : enr'[q] = enr[q]
          /\ enr'[r].status # enr[r].status =>
                enr[r].status = "pending" /\ enr'[r].status = "dropped"
      BY <1>t, <2>2, RowFacts DEF EnrollmentRow
    <2> QED
      BY <1>4, <1>7, <2>3, <2>4 DEF DropInvoiceRejected
  <1>8. CASE UpdatePaymentDetails(p)
    <2>1. r = job[p].id
      BY <1>2, <1>8 DEF UpdatePaymentDetails
    <2>2. enr' = enr \/ enr' = [enr EXCEPT ![r] = [@ EXCEPT !.tx = TRUE]]
      BY <1>8, <2>1 DEF UpdatePaymentDetails
    <2>3. enr' \in [Requests -> EnrollmentRow]
      <3>1. "pending" \in EnrollmentStatuses /\ TRUE \in BOOLEAN
        BY DEF EnrollmentStatuses
      <3> QED
        BY <1>t, <2>2, <3>1, EnrollmentTyped
    <2>4. /\ \A q \in Requests \ {r} : enr'[q] = enr[q]
          /\ enr'[r].status = enr[r].status
      BY <1>t, <2>2, RowFacts DEF EnrollmentRow
    <2> QED
      BY <1>4, <1>8, <2>3, <2>4 DEF UpdatePaymentDetails
  <1>9. CASE DropPending(p)
    <2>1. r = job[p].id
      BY <1>2, <1>9 DEF DropPending
    <2>2. enr' = enr \/ /\ enr[r].status = "pending"
                        /\ enr' = [enr EXCEPT ![r] = [@ EXCEPT !.status = "dropped"]]
      BY <1>9, <2>1 DEF DropPending, EnrollmentBecomes
    <2>3. enr' \in [Requests -> EnrollmentRow]
      <3>1. "dropped" \in EnrollmentStatuses /\ TRUE \in BOOLEAN
        BY DEF EnrollmentStatuses
      <3>2. [enr EXCEPT ![r] = [@ EXCEPT !.status = "dropped"]]
               \in [Requests -> EnrollmentRow]
        BY <1>t, <3>1, EnrollmentTyped
      <3> QED
        BY <1>t, <2>2, <3>2
    <2>4. /\ \A q \in Requests \ {r} : enr'[q] = enr[q]
          /\ enr'[r].status # enr[r].status =>
                enr[r].status = "pending" /\ enr'[r].status = "dropped"
      BY <1>t, <2>2, RowFacts DEF EnrollmentRow
    <2> QED
      BY <1>4, <1>9, <2>3, <2>4 DEF DropPending
  <1>10. CASE ResetRejected(p)
    <2>1. r = job[p].id
      BY <1>2, <1>10 DEF ResetRejected
    <2>2. UNCHANGED <<enr, sold, outside, billing, log>>
      BY <1>10 DEF ResetRejected
    <2>3. \/ req' = req
          \/ /\ platformFeeRejected(enr[r])
             /\ \E s \in {"pending", "rejected"} :
                   req' = [req EXCEPT ![r] = [@ EXCEPT !.status = s]]
      BY <1>10, <2>1 DEF ResetRejected, Become
    <2>4. req' \in [Requests -> RequestRow]
      <3>1. {"pending", "rejected"} \subseteq RequestStatuses /\ {} \in SUBSET Slots
        BY DEF RequestStatuses
      <3>2. \A s \in {"pending", "rejected"} :
               [req EXCEPT ![r] = [@ EXCEPT !.status = s]] \in [Requests -> RequestRow]
        BY <1>t, <3>1, RequestTyped
      <3> QED
        BY <1>t, <2>3, <3>2
    <2>5. TypeOK'
      BY <1>1, <2>2, <2>4 DEF PurchaseInvariant, TypeOK, outside, billing
    <2>6. CASE req' = req
      BY <1>1, <2>2, <2>5, <2>6, NoRowStep
    <2>7. ASSUME platformFeeRejected(enr[r]), NEW s \in {"pending", "rejected"},
                 req' = [req EXCEPT ![r] = [@ EXCEPT !.status = s]]
          PROVE  PurchaseInvariant'
      <3>1. RowInvariant(r) /\ req[r] \in RequestRow /\ DOMAIN req = Requests
        BY RowFacts
      <3>2. /\ req'[r].status = s /\ req'[r].slots = req[r].slots
            /\ req'[r].approved = req[r].approved
            /\ req'[r].recommended = req[r].recommended
            /\ \A q \in Requests \ {r} : req'[q] = req[q]
        BY <2>7, <3>1 DEF RequestRow
      <3>3. RowInvariant(r)'
        BY <2>2, <2>7, <3>1, <3>2 DEF RowInvariant, Sale, platformFeeRejected
      <3>4. OneRow(r)
        BY <2>2, <3>2, <3>3, Zenon DEF OneRow
      <3> QED
        BY <1>1, <2>5, <3>4, OneRowStep
    <2> QED
      BY <2>3, <2>6, <2>7
  <1> QED
    BY <1>5, <1>6, <1>7, <1>8, <1>9, <1>10 DEF PurchaseStep, CancelStep

-----------------------------------------------------------------------------
(* The theorems. *)

\* The purchase invariant holds initially.
LEMMA PurchaseInvariantInit ==
  Init => PurchaseInvariant
  BY DEF Init, PurchaseInvariant, TypeOK, JobsNamed, Sales, Sale, PurchaseImpliesApproval,
         OneLivePurchase, ActivationKept, NoRequest, NoEnrollment, NoJob, RequestRow,
         EnrollmentRow, RequestStatuses, Steps, Live

\* Every step, and every stutter, preserves it.
LEMMA PurchaseInvariantStep ==
  PurchaseInvariant /\ [Next]_vars => PurchaseInvariant'
  <1> SUFFICES ASSUME PurchaseInvariant, [Next]_vars PROVE PurchaseInvariant'
    OBVIOUS
  <1>1. ASSUME NEW r \in Requests, Decision(r) \/ EnrollmentStep(r)
        PROVE  PurchaseInvariant'
    BY <1>1, DecisionStep, EnrollmentStepStep
  <1>2. ASSUME NEW p \in Procs, PurchaseStart(p)
        PROVE  PurchaseInvariant'
    BY <1>2, PurchaseStartStep DEF PurchaseStart
  <1>3. ASSUME NEW p \in Procs, PurchaseStep(p) \/ CancelStep(p)
        PROVE  PurchaseInvariant'
    BY <1>3, ProcessStep
  <1>4. CASE OutsideStep
    <2>1. UNCHANGED <<req, enr, sold, billing, procs, log>>
      BY <1>4 DEF OutsideStep, ChangePolicy, UpdateClass
    <2>2. class' \in [open : BOOLEAN, limit : Limits \cup {Null}] /\ refuses' \in BOOLEAN
      <3>1. CASE ChangePolicy
        BY <3>1 DEF ChangePolicy, PurchaseInvariant, TypeOK
      <3>2. ASSUME NEW open \in BOOLEAN, NEW limit \in Limits \cup {Null},
                   UpdateClass(open, limit)
            PROVE  /\ class' \in [open : BOOLEAN, limit : Limits \cup {Null}]
                   /\ refuses' \in BOOLEAN
        BY <3>2 DEF UpdateClass, PurchaseInvariant, TypeOK
      <3> QED
        BY <1>4, <3>1, <3>2 DEF OutsideStep
    <2>3. TypeOK'
      BY <2>1, <2>2 DEF PurchaseInvariant, TypeOK, billing, procs
    <2>4. JobsNamed'
      BY <2>1 DEF PurchaseInvariant, JobsNamed, procs
    <2> QED
      BY <2>1, <2>3, <2>4, NoRowStep
  <1>5. CASE UNCHANGED vars
    <2>1. TypeOK' /\ JobsNamed'
      BY <1>5 DEF PurchaseInvariant, TypeOK, JobsNamed, vars, outside, billing, procs
    <2> QED
      BY <1>5, <2>1, NoRowStep DEF vars
  <1> QED
    BY <1>1, <1>2, <1>3, <1>4, <1>5 DEF Next

\* PurchaseInvariant, for any number of requests and concurrent approvals: types,
\* what was sold, and the four properties below.
THEOREM PurchaseInvariantHolds == Spec => []PurchaseInvariant
  BY PurchaseInvariantInit, PurchaseInvariantStep, PTL DEF Spec

\* However purchases, refusals and resets of Approve and AcceptRecommendation
\* overlap, an enrollment in force belongs to an approved request.
THEOREM PurchaseIsApproved == Spec => []PurchaseImpliesApproval
  <1>1. PurchaseInvariant => PurchaseImpliesApproval
    BY DEF PurchaseInvariant
  <1> QED
    BY <1>1, PurchaseInvariantHolds, PTL

\* The schedules of an approved proposal are the selection staff approved.
THEOREM SelectionIsSold == Spec => []SoldAsApproved
  <1>1. PurchaseInvariant => SoldAsApproved
    BY DEF PurchaseInvariant, Sales, Sale, SoldAsApproved
  <1> QED
    BY <1>1, PurchaseInvariantHolds, PTL

\* A student never has two live enrollments of the class through two requests.
THEOREM PurchasesAreExclusive == Spec => []OneLivePurchase
  <1>1. PurchaseInvariant => OneLivePurchase
    BY DEF PurchaseInvariant
  <1> QED
    BY <1>1, PurchaseInvariantHolds, PTL

\* Only EndEnrollment takes an activated enrollment back.
THEOREM ActivationIsKept == Spec => []ActivationKept
  <1>1. PurchaseInvariant => ActivationKept
    BY DEF PurchaseInvariant
  <1> QED
    BY <1>1, PurchaseInvariantHolds, PTL

=============================================================================
