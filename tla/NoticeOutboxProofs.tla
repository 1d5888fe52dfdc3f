------------------------- MODULE NoticeOutboxProofs -------------------------
(***************************************************************************)
(* Proofs about NoticeOutbox for any number of rows and workers, any       *)
(* number of crashes and any timing that satisfies its assumptions.        *)
(*                                                                         *)
(* A row's first attempt is fixed by its first claim.  Every later mail is *)
(* sent less than Cutoff + Timeout after it, and the provider took the key *)
(* no earlier, so it still remembers it.                                   *)
(***************************************************************************)
EXTENDS NoticeOutbox, TLAPS

-----------------------------------------------------------------------------
(* Types. *)

\* What a worker that is not idle holds.
LEMMA CallFields ==
  ASSUME TypeOK, NEW w \in Workers
  PROVE  /\ call[w] # NoCall => call[w].id \in Rows /\ call[w].n \in Row
         /\ call[w].step = "send" => call[w] # NoCall /\ call[w].since \in 0 .. LastTick
         /\ call[w].step = "finish" =>
               call[w] # NoCall /\ call[w].result \in {"pending", "sent", "failed"}
  <1>1. call[w] \in Call
    BY DEF TypeOK
  <1>2. NoCall.step = "idle"
    BY DEF NoCall
  <1> QED BY <1>1, <1>2 DEF Call

\* The columns of a row.
LEMMA RowColumns ==
  ASSUME NEW n \in Row
  PROVE  /\ n.status \in Open \cup {"none", "sent", "failed"} /\ n.attempts \in Nat
         /\ n.token \in Nat /\ n.at \in Int /\ n.first \in 0 .. LastTick
  BY DEF Row

\* A capture writes the status and the time of a row only.
LEMMA PendingRow ==
  ASSUME NEW n \in Row, NEW t \in Int
  PROVE  LET m == [n EXCEPT !.status = "pending", !.at = t]
         IN  m \in Row /\ m.attempts = n.attempts /\ m.first = n.first /\ m.status = "pending"
  <1>1. [n EXCEPT !.status = "pending"] \in Row
    BY DEF Row, Open
  <1>2. [[n EXCEPT !.status = "pending"] EXCEPT !.at = t] \in Row
    BY <1>1 DEF Row
  <1> QED BY <1>2 DEF Row

\* A claim writes a row.
LEMMA ClaimedTyped ==
  ASSUME TypeOK, NEW o \in Rows
  PROVE  /\ Claimed(o) \in Row /\ Claimed(o).status = "sending"
         /\ Claimed(o).attempts = row[o].attempts + 1
         /\ Claimed(o).first = IF row[o].attempts = 0 THEN now ELSE row[o].first
  <1>1. row[o] \in Row /\ now \in 0 .. LastTick /\ LastTick \in Nat /\ Lease \in Nat
    BY OutboxConstants DEF TypeOK
  <1>2. row[o].attempts \in Nat /\ row[o].first \in 0 .. LastTick
    BY <1>1, RowColumns
  <1>3. Later(Lease) \in Int
    BY <1>1 DEF Later
  <1>4. (row[o].attempts + 1 = 1) <=> (row[o].attempts = 0)
    BY <1>2
  <1> QED BY <1>1, <1>2, <1>3, <1>4 DEF Claimed, Row, Open

\* Failing the stale reminders keeps what was attempted.
LEMMA FailStaleKeeps ==
  ASSUME TypeOK
  PROVE  /\ FailStale \in [Rows -> Row]
         /\ \A o \in Rows : /\ FailStale[o].attempts = row[o].attempts
                            /\ FailStale[o].first = row[o].first
                            /\ FailStale[o] # row[o] =>
                                  row[o].status \in Open /\ FailStale[o].status = "failed"
  <1>1. ASSUME NEW o \in Rows
        PROVE  /\ FailStale[o] \in Row
               /\ FailStale[o].attempts = row[o].attempts
               /\ FailStale[o].first = row[o].first
               /\ FailStale[o] # row[o] =>
                     row[o].status \in Open /\ FailStale[o].status = "failed"
    <2>1. row[o] \in Row
      BY DEF TypeOK
    <2>2. CASE o \in StaleReminders
      <3>1. FailStale[o] = [row[o] EXCEPT !.status = "failed", !.token = 0]
        BY <2>2 DEF FailStale
      <3>2. row[o].status \in Open
        BY <2>2 DEF StaleReminders, Due
      <3>3. FailStale[o] = [status |-> "failed", attempts |-> row[o].attempts, token |-> 0,
                            at |-> row[o].at, first |-> row[o].first]
        BY <2>1, <3>1 DEF Row
      <3>4. FailStale[o] \in Row
        BY <2>1, <3>3, RowColumns DEF Row
      <3> QED BY <3>2, <3>3, <3>4
    <2>3. CASE o \notin StaleReminders
      BY <2>1, <2>3 DEF FailStale
    <2> QED BY <2>2, <2>3
  <1>2. FailStale \in [Rows -> Row]
    BY <1>1 DEF FailStale
  <1> QED BY <1>1, <1>2

\* A recorded result changes neither the attempts nor the first of them.
LEMMA FinishedTyped ==
  ASSUME TypeOK, NEW w \in Workers, call[w].step = "finish", 0 < call[w].n.attempts,
         NEW n \in Row
  PROVE  /\ Finished(n, call[w]) \in Row /\ Finished(n, call[w]).status = call[w].result
         /\ Finished(n, call[w]).attempts = n.attempts /\ Finished(n, call[w]).first = n.first
  <1>1. /\ call[w].result \in {"pending", "sent", "failed"} /\ call[w].n \in Row
        /\ now \in Int /\ LastTick \in Nat /\ MaxDelay \in Nat
    BY CallFields, OutboxConstants DEF TypeOK
  <1>2. call[w].n.attempts - 1 \in Nat
    BY <1>1, RowColumns
  <1>3. backoff(call[w].n.attempts) \in Int
    BY <1>1, <1>2 DEF backoff
  <1>4. Later(backoff(call[w].n.attempts)) \in Int
    BY <1>1, <1>3 DEF Later
  <1>5. n.attempts \in Nat /\ n.first \in 0 .. LastTick
    BY RowColumns
  <1> QED BY <1>1, <1>4, <1>5 DEF Finished, Row, Open

\* The result a worker will record.
LEMMA ResultTyped ==
  ASSUME TypeOK, NEW w \in Workers, NEW result \in {"pending", "sent", "failed"},
         call[w] # NoCall, Result(w, result)
  PROVE  /\ call' \in [Workers -> Call] /\ call'[w] # NoCall
         /\ call'[w].id = call[w].id /\ call'[w].n = call[w].n
         /\ call'[w].step = "finish" /\ call'[w].result = result
         /\ \A v \in Workers \ {w} : call'[v] = call[v]
  <1> DEFINE c == [step |-> "finish", id |-> call[w].id, n |-> call[w].n, result |-> result]
  <1>1. call[w].id \in Rows /\ call[w].n \in Row
    BY CallFields
  <1>2. c \in Call /\ c # NoCall
    <2>1. c \in Call
      BY <1>1 DEF Call
    <2>2. c.step = "finish" /\ NoCall.step = "idle"
      BY DEF NoCall
    <2> QED BY <2>1, <2>2
  <1>3. call' = [call EXCEPT ![w] = c]
    BY DEF Result
  <1>4. c.id = call[w].id /\ c.n = call[w].n /\ c.step = "finish" /\ c.result = result
    OBVIOUS
  <1> HIDE DEF c
  <1> QED BY <1>2, <1>3, <1>4 DEF TypeOK

-----------------------------------------------------------------------------
(* The invariant. *)

\* A step that changes no call, and of a row at most its status, lease and time.
LEMMA ResultsOnly ==
  ASSUME OutboxInvariant, TypeOK', now' \in {now, now + 1},
         UNCHANGED <<seen, delivered>>,
         \A o \in Rows : /\ row'[o].attempts = row[o].attempts /\ row'[o].first = row[o].first
                         /\ row'[o].status = "sent" => Taken(o),
         \A w \in Workers : call'[w] \in {NoCall, call[w]}
  PROVE  OutboxInvariant'
  <1>1. TakenOnce'
    <2>1. now \in Int /\ \A o \in Rows : row[o].first \in Int
      BY RowColumns DEF OutboxInvariant, TypeOK
    <2> QED BY <2>1 DEF OutboxInvariant, TakenOnce, Taken
  <1>2. CopiesOfRows'
    <2>1. ASSUME NEW w \in Workers, call'[w] # NoCall
          PROVE  call'[w] = call[w] /\ call[w].id \in Rows
      BY <2>1, CallFields DEF OutboxInvariant
    <2> QED BY <2>1 DEF OutboxInvariant, CopiesOfRows, Taken
  <1> QED BY <1>1, <1>2 DEF OutboxInvariant

\* A step in which one worker learns its result and the receiver may take the
\* row's key.
LEMMA ResultKnown ==
  ASSUME OutboxInvariant, NEW w \in Workers, NEW result \in {"pending", "sent", "failed"},
         call[w].step = "send", Result(w, result), UNCHANGED <<world, row, crashes>>,
         \/ result # "sent" /\ UNCHANGED <<seen, delivered>>
         \/ /\ Receive(call[w].id)
            /\ Remembers(call[w].id) \/ ~Taken(call[w].id)
  PROVE  OutboxInvariant'
  <1> DEFINE o == call[w].id
  <1>0. /\ TypeOK /\ TakenOnce /\ CopiesOfRows /\ call[w] # NoCall
        /\ o \in Rows /\ call[w].n \in Row
    BY CallFields DEF OutboxInvariant
  <1>1. /\ call' \in [Workers -> Call] /\ call'[w] # NoCall
        /\ call'[w].id = o /\ call'[w].n = call[w].n
        /\ call'[w].step = "finish" /\ call'[w].result = result
        /\ \A v \in Workers \ {w} : call'[v] = call[v]
    BY <1>0, ResultTyped
  <1>2. /\ \/ UNCHANGED <<seen, delivered>> /\ (result = "sent" => Taken(o))
           \/ /\ ~Taken(o) /\ seen' = [seen EXCEPT ![o] = now]
              /\ delivered' = [delivered EXCEPT ![o] = @ + 1]
    BY DEF Receive, Remembers, Taken
  <1> HIDE DEF o
  <1>3. now \in 0 .. LastTick /\ now # Never /\ LastTick \in Nat
    BY <1>0, OutboxConstants DEF TypeOK, Never
  <1>4. /\ seen' \in [Rows -> {Never} \cup (0 .. LastTick)] /\ delivered' \in [Rows -> Nat]
        /\ \A x \in Rows : Taken(x) => seen'[x] = seen[x] /\ seen'[x] # Never
        /\ result = "sent" => seen'[o] # Never
    BY <1>0, <1>2, <1>3 DEF TypeOK, Taken
  <1>5. TypeOK'
    BY <1>0, <1>1, <1>4 DEF TypeOK, world
  <1>6. TakenOnce'
    <2>1. row[o].attempts > 0 /\ row[o].first <= now /\ delivered \in [Rows -> Nat]
      <3>1. row[o].attempts \in Nat /\ call[w].n.attempts \in Nat
        BY <1>0, RowColumns DEF TypeOK
      <3> QED BY <1>0, <3>1 DEF CopiesOfRows, TakenOnce, TypeOK, o
    <2>2. ASSUME NEW x \in Rows
          PROVE  /\ delivered'[x] = IF seen'[x] # Never THEN 1 ELSE 0
                 /\ seen'[x] # Never => row[x].attempts > 0 /\ row[x].first <= seen'[x]
      <3>1. CASE x = o
        BY <1>0, <1>2, <1>3, <1>4, <2>1, <3>1 DEF TakenOnce, Taken, TypeOK
      <3>2. CASE x # o
        BY <1>0, <1>2, <1>4, <3>2 DEF TakenOnce, Taken, TypeOK
      <3> QED BY <3>1, <3>2
    <2> QED BY <1>0, <1>4, <2>2 DEF TakenOnce, Taken, world
  <1>7. CopiesOfRows'
    <2>1. ASSUME NEW v \in Workers, call'[v] # NoCall
          PROVE  /\ 0 < call'[v].n.attempts /\ call'[v].n.attempts <= row[call'[v].id].attempts
                 /\ call'[v].n.first = row[call'[v].id].first
                 /\ (call'[v].step = "finish" =>
                       (call'[v].result = "sent" => seen'[call'[v].id] # Never))
      <3>1. CASE v = w
        BY <1>0, <1>1, <1>4, <3>1 DEF CopiesOfRows, Taken, o
      <3>2. CASE v # w
        <4>1. call'[v] = call[v] /\ call[v].id \in Rows
          BY <1>0, <1>1, <2>1, <3>2, CallFields
        <4> QED BY <1>0, <1>4, <2>1, <4>1 DEF CopiesOfRows, Taken
      <3> QED BY <3>1, <3>2
    <2> QED BY <2>1 DEF CopiesOfRows, Taken, world
  <1> QED BY <1>5, <1>6, <1>7 DEF OutboxInvariant

\* A mail is sent while the provider still remembers an earlier one.
LEMMA SentInMemory ==
  ASSUME OutboxInvariant, NEW w \in Workers, call[w].step = "send", ~Exhausted(call[w]),
         now <= call[w].since + Timeout, Taken(call[w].id)
  PROVE  Remembers(call[w].id)
  <1> DEFINE o == call[w].id
  <1>0. TypeOK /\ TakenOnce /\ CopiesOfRows /\ call[w] # NoCall /\ o \in Rows
    BY CallFields DEF OutboxInvariant
  <1>1. CASE channel[o] # "email"
    BY <1>1 DEF Remembers, Taken
  <1>2. CASE channel[o] = "email"
    <2>1. ~(call[w].since - call[w].n.first >= Cutoff)
      BY <1>2 DEF Exhausted
    <2>2. call[w].n.first = row[o].first /\ row[o].first <= seen[o]
      BY <1>0 DEF CopiesOfRows, TakenOnce, o
    <2>3. /\ call[w].since \in Int /\ row[o].first \in Int /\ seen[o] \in Int /\ now \in Int
          /\ Timeout \in Int /\ Cutoff \in Int /\ Memory \in Int /\ Cutoff + Timeout <= Memory
      BY <1>0, CallFields, RowColumns, OutboxConstants DEF TypeOK, Never
    <2>4. now - seen[o] < Memory
      BY <2>1, <2>2, <2>3
    <2> QED BY <2>4 DEF Remembers, Taken
  <1> QED BY <1>1, <1>2

\* A claim fixes the row's first attempt when there was none, and no worker has
\* a copy of such a row.
LEMMA ClaimKeeps ==
  ASSUME OutboxInvariant, NEW w \in Workers, NEW o \in Rows, Claim(w, o)
  PROVE  OutboxInvariant'
  <1> DEFINE c == [step |-> "send", id |-> o, n |-> Claimed(o), since |-> now]
  <1>0. /\ TypeOK /\ TakenOnce /\ CopiesOfRows /\ now \in 0 .. LastTick
        /\ UNCHANGED <<world, seen, delivered, crashes>>
    BY DEF Claim, OutboxInvariant, TypeOK
  <1>1. /\ Claimed(o) \in Row /\ Claimed(o).status = "sending"
        /\ Claimed(o).attempts = row[o].attempts + 1
        /\ Claimed(o).first = IF row[o].attempts = 0 THEN now ELSE row[o].first
    BY <1>0, ClaimedTyped
  <1>2. /\ row' \in [Rows -> Row] /\ row'[o] = Claimed(o)
        /\ \A x \in Rows \ {o} : row'[x] = FailStale[x]
    BY <1>0, <1>1, FailStaleKeeps DEF Claim
  <1>3. c \in Call /\ c # NoCall /\ c.id = o /\ c.n = Claimed(o) /\ c.step = "send"
    <2>1. c \in Call
      BY <1>0, <1>1 DEF Call
    <2>2. c.step = "send" /\ NoCall.step = "idle"
      BY DEF NoCall
    <2> QED BY <2>1, <2>2
  <1>4. call' = [call EXCEPT ![w] = c]
    BY DEF Claim
  <1> HIDE DEF c
  <1>5. /\ call' \in [Workers -> Call] /\ call'[w] = c
        /\ \A v \in Workers \ {w} : call'[v] = call[v]
    BY <1>0, <1>3, <1>4 DEF TypeOK
  <1>6. TypeOK'
    BY <1>0, <1>2, <1>5 DEF TypeOK, world
  <1>7. \A x \in Rows : row[x].attempts \in Nat /\ row[x].first \in 0 .. LastTick
    BY <1>0, RowColumns DEF TypeOK
  <1>8. TakenOnce'
    <2>1. ASSUME NEW x \in Rows
          PROVE  /\ row'[x].first <= now
                 /\ Taken(x) => row'[x].attempts > 0 /\ row'[x].first <= seen[x]
                 /\ row'[x].status = "sent" => Taken(x)
      <3>1. CASE x = o
        BY <1>0, <1>1, <1>2, <1>7, <3>1 DEF TakenOnce
      <3>2. CASE x # o
        <4>1. /\ row'[x].attempts = row[x].attempts /\ row'[x].first = row[x].first
              /\ row'[x].status = "sent" => row'[x] = row[x]
          BY <1>0, <1>2, <3>2, FailStaleKeeps
        <4> QED BY <1>0, <4>1 DEF TakenOnce
      <3> QED BY <3>1, <3>2
    <2> QED BY <1>0, <2>1 DEF TakenOnce, Taken, world
  <1>9. CopiesOfRows'
    <2>1. ASSUME NEW v \in Workers, call'[v] # NoCall
          PROVE  /\ 0 < call'[v].n.attempts /\ call'[v].n.attempts <= row'[call'[v].id].attempts
                 /\ call'[v].n.first = row'[call'[v].id].first
                 /\ (call'[v].step = "finish" =>
                       (call'[v].result = "sent" => seen[call'[v].id] # Never))
      <3>1. CASE v = w
        BY <1>1, <1>2, <1>3, <1>5, <1>7, <3>1
      <3>2. CASE v # w
        <4>1. /\ call'[v] = call[v] /\ call[v].id \in Rows /\ call[v].n.attempts \in Nat
          BY <1>0, <1>5, <2>1, <3>2, CallFields, RowColumns
        <4>2. /\ 0 < call[v].n.attempts /\ call[v].n.attempts <= row[call[v].id].attempts
              /\ call[v].n.first = row[call[v].id].first
              /\ (call[v].step = "finish" => (call[v].result = "sent" => seen[call[v].id] # Never))
          BY <1>0, <2>1, <4>1 DEF CopiesOfRows, Taken
        <4>3. CASE call[v].id = o
          BY <1>1, <1>2, <1>7, <4>1, <4>2, <4>3
        <4>4. CASE call[v].id # o
          BY <1>0, <1>2, <4>1, <4>2, <4>4, FailStaleKeeps
        <4> QED BY <4>3, <4>4
      <3> QED BY <3>1, <3>2
    <2> QED BY <1>0, <2>1 DEF CopiesOfRows, Taken
  <1> QED BY <1>6, <1>8, <1>9 DEF OutboxInvariant

\* Every step keeps the invariant.
LEMMA OutboxStep ==
  ASSUME OutboxInvariant, DeliveryNext PROVE OutboxInvariant'
  <1>0. TypeOK /\ TakenOnce /\ CopiesOfRows
    BY DEF OutboxInvariant
  <1>t. /\ now \in 0 .. LastTick /\ LastTick \in Nat /\ crashes \in 0 .. MaxCrashes
        /\ MaxCrashes \in Nat /\ row \in [Rows -> Row] /\ call \in [Workers -> Call]
        /\ eligible \subseteq Reminders
    BY <1>0, OutboxConstants DEF TypeOK
  <1>n. NoCall \in Call
    BY DEF Call
  <1>1. CASE Tick
    <2>1. TypeOK' /\ now' = now + 1
      BY <1>0, <1>1, <1>t DEF Tick, TypeOK
    <2>2. UNCHANGED <<row, call, seen, delivered>>
      BY <1>1 DEF Tick
    <2> QED BY <1>0, <2>1, <2>2, ResultsOnly DEF TakenOnce
  <1>2. ASSUME NEW o \in Rows, Capture(o) PROVE OutboxInvariant'
    <2> DEFINE n == [row[o] EXCEPT !.status = "pending", !.at = now]
    <2>0. row[o] \in Row /\ now \in Int
      BY <1>t
    <2>2. n \in Row /\ n.attempts = row[o].attempts /\ n.first = row[o].first /\ n.status # "sent"
      BY <2>0, PendingRow
    <2>3. row' = [row EXCEPT ![o] = n] /\ UNCHANGED <<world, call, seen, delivered, crashes>>
      BY <1>2, <1>t DEF Capture
    <2> HIDE DEF n
    <2>4. TypeOK'
      BY <1>0, <1>t, <2>2, <2>3 DEF TypeOK, world
    <2>5. \A x \in Rows : /\ row'[x].attempts = row[x].attempts /\ row'[x].first = row[x].first
                          /\ row'[x].status = "sent" => Taken(x)
      BY <1>0, <1>t, <2>2, <2>3 DEF TakenOnce
    <2> QED BY <1>t, <2>3, <2>4, <2>5, ResultsOnly DEF world
  <1>3. ASSUME NEW o \in Rows, NoLongerEligible(o) PROVE OutboxInvariant'
    <2>1. UNCHANGED <<now, row, call, seen, delivered>> /\ TypeOK'
      BY <1>0, <1>3 DEF NoLongerEligible, TypeOK
    <2> QED BY <1>0, <2>1, ResultsOnly DEF TakenOnce
  <1>4. ASSUME NEW w \in Workers, ClaimNothing(w) PROVE OutboxInvariant'
    <2>1. row' = FailStale /\ UNCHANGED <<world, call, seen, delivered, crashes>>
      BY <1>4 DEF ClaimNothing
    <2>2. TypeOK'
      BY <1>0, <2>1, FailStaleKeeps DEF TypeOK, world
    <2>3. \A x \in Rows : /\ row'[x].attempts = row[x].attempts /\ row'[x].first = row[x].first
                          /\ row'[x].status = "sent" => Taken(x)
      BY <1>0, <2>1, FailStaleKeeps DEF TakenOnce
    <2> QED BY <2>1, <2>2, <2>3, ResultsOnly DEF world
  <1>5. ASSUME NEW w \in Workers, GiveUp(w) \/ SendFails(w) PROVE OutboxInvariant'
    <2>1. PICK result \in {"pending", "failed"} : Result(w, result)
      BY <1>5 DEF GiveUp, SendFails
    <2>2. call[w].step = "send" /\ UNCHANGED <<world, row, seen, delivered, crashes>>
      BY <1>5 DEF GiveUp, SendFails
    <2> QED BY <2>1, <2>2, ResultKnown
  <1>6. ASSUME NEW w \in Workers, NEW answered \in BOOLEAN, Send(w, answered)
        PROVE  OutboxInvariant'
    <2>1. PICK result \in {"pending", "sent", "failed"} : Result(w, result)
      BY <1>6 DEF Send
    <2>2. /\ call[w].step = "send" /\ ~Exhausted(call[w]) /\ now <= call[w].since + Timeout
          /\ Receive(call[w].id) /\ UNCHANGED <<world, row, crashes>>
      BY <1>6 DEF Send
    <2>3. Remembers(call[w].id) \/ ~Taken(call[w].id)
      BY <2>2, SentInMemory
    <2> QED BY <2>1, <2>2, <2>3, ResultKnown
  <1>7. ASSUME NEW w \in Workers, Finish(w) PROVE OutboxInvariant'
    <2> DEFINE o == call[w].id
               n == Finished(row[o], call[w])
    <2>0. /\ o \in Rows /\ 0 < call[w].n.attempts /\ call[w].step = "finish"
          /\ call[w].result = "sent" => Taken(o)
      BY <1>0, <1>7, CallFields DEF Finish, CopiesOfRows
    <2>1. /\ n \in Row /\ n.status = call[w].result
          /\ n.attempts = row[o].attempts /\ n.first = row[o].first
      BY <1>0, <1>t, <2>0, FinishedTyped
    <2>2. /\ row' = row \/ row' = [row EXCEPT ![o] = n]
          /\ call' = [call EXCEPT ![w] = NoCall]
          /\ UNCHANGED <<world, seen, delivered, crashes>>
      BY <1>7 DEF Finish
    <2> HIDE DEF n, o
    <2>3. TypeOK'
      BY <1>0, <1>n, <1>t, <2>0, <2>1, <2>2 DEF TypeOK, world
    <2>4. \A x \in Rows : /\ row'[x].attempts = row[x].attempts /\ row'[x].first = row[x].first
                          /\ row'[x].status = "sent" => Taken(x)
      BY <1>0, <1>t, <2>0, <2>1, <2>2 DEF TakenOnce
    <2>5. \A v \in Workers : call'[v] \in {NoCall, call[v]}
      BY <1>t, <2>2
    <2> QED BY <2>2, <2>3, <2>4, <2>5, ResultsOnly DEF world
  <1>8. ASSUME NEW w \in Workers, Crash(w) PROVE OutboxInvariant'
    <2>1. /\ call' = [call EXCEPT ![w] = NoCall] /\ crashes' \in 0 .. MaxCrashes
          /\ UNCHANGED <<world, row, seen, delivered>>
      BY <1>8, <1>t DEF Crash
    <2>2. TypeOK' /\ \A v \in Workers : call'[v] \in {NoCall, call[v]}
      BY <1>0, <1>n, <1>t, <2>1 DEF TypeOK, world
    <2> QED BY <1>0, <2>1, <2>2, ResultsOnly DEF TakenOnce, world
  <1> QED BY <1>1, <1>2, <1>3, <1>4, <1>5, <1>6, <1>7, <1>8, ClaimKeeps DEF DeliveryNext

-----------------------------------------------------------------------------
(* The theorems. *)

\* The outbox invariant holds throughout.
THEOREM OutboxInvariantHolds == DeliverySpec => []OutboxInvariant
  <1>1. DeliveryInit => OutboxInvariant
    <2> SUFFICES ASSUME DeliveryInit PROVE OutboxInvariant
      OBVIOUS
    <2>1. /\ NoRow \in Row /\ NoRow.first = 0 /\ NoRow.status = "none" /\ NoCall \in Call
          /\ LastTick \in Nat /\ MaxCrashes \in Nat
      BY OutboxConstants DEF NoRow, Row, Call
    <2>2. TypeOK
      BY <2>1 DEF DeliveryInit, TypeOK
    <2>3. TakenOnce /\ CopiesOfRows
      BY <2>1 DEF DeliveryInit, TakenOnce, CopiesOfRows, Taken
    <2> QED BY <2>2, <2>3 DEF OutboxInvariant
  <1>2. OutboxInvariant /\ UNCHANGED deliveryVars => OutboxInvariant'
    BY DEF OutboxInvariant, TypeOK, TakenOnce, CopiesOfRows, Taken, deliveryVars
  <1> QED BY <1>1, <1>2, OutboxStep, PTL DEF DeliverySpec

\* However often a row is sent again after lost answers, crashes and expired
\* leases, its parent gets one message: sends of mail stop Cutoff after the
\* first attempt, and Cutoff + Timeout is within the provider's memory.
THEOREM NoticesDeliveredOnce == DeliverySpec => []DeliveredOnce
  <1>1. OutboxInvariant => DeliveredOnce
    BY DEF OutboxInvariant, TakenOnce, DeliveredOnce
  <1> QED BY <1>1, OutboxInvariantHolds, PTL

\* What is recorded as sent was delivered, and a recorded result is final: the
\* late result of a worker whose lease ran out is fenced off by the token.
THEOREM RecordedResultsHold == DeliverySpec => ResultsHold
  <1> DEFINE SentWasTaken == \A o \in Rows : row[o].status = "sent" => delivered[o] > 0
             Final == \A o \in Rows : row[o].status \in {"sent", "failed"} => row'[o] = row[o]
  <1>1. OutboxInvariant => SentWasTaken
    BY DEF OutboxInvariant, TakenOnce
  <1>2. OutboxInvariant /\ [DeliveryNext]_deliveryVars => [Final]_deliveryVars
    <2> SUFFICES ASSUME OutboxInvariant, DeliveryNext, NEW o \in Rows, row[o].status \in {"sent", "failed"}
                 PROVE  row'[o] = row[o]
      OBVIOUS
    <2>0. TypeOK /\ row \in [Rows -> Row] /\ row[o].status \notin Open \cup {"none", "sending"}
      BY DEF OutboxInvariant, TypeOK, Open
    <2>1. FailStale[o] = row[o]
      BY <2>0, FailStaleKeeps
    <2>2. ASSUME NEW w \in Workers, NEW p \in Rows, Claim(w, p) PROVE row'[o] = row[o]
      <3>1. p # o
        BY <2>0, <2>2 DEF Claim, Candidates, Due
      <3> QED BY <2>0, <2>1, <2>2, <3>1, FailStaleKeeps DEF Claim
    <2>3. ASSUME NEW p \in Rows, Capture(p) \/ NoLongerEligible(p) PROVE row'[o] = row[o]
      BY <2>0, <2>3 DEF Capture, NoLongerEligible
    <2>4. ASSUME NEW w \in Workers, ClaimNothing(w) PROVE row'[o] = row[o]
      BY <2>1, <2>4 DEF ClaimNothing
    <2>5. ASSUME NEW w \in Workers, Finish(w) PROVE row'[o] = row[o]
      BY <2>0, <2>5 DEF Finish
    <2>6. CASE \/ Tick \/ \E w \in Workers, answered \in BOOLEAN : Send(w, answered)
               \/ \E w \in Workers : GiveUp(w) \/ SendFails(w) \/ Crash(w)
      BY <2>6 DEF Tick, Send, GiveUp, SendFails, Crash
    <2> QED BY <2>2, <2>3, <2>4, <2>5, <2>6 DEF DeliveryNext
  <1>3. ResultsHold <=> []SentWasTaken /\ [][Final]_deliveryVars
    BY DEF ResultsHold
  <1> HIDE DEF SentWasTaken, Final
  <1> QED BY <1>1, <1>2, <1>3, OutboxInvariantHolds, PTL DEF DeliverySpec

=============================================================================
