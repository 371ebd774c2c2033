---------------------------- MODULE JobStreamsProofs ----------------------------
(***************************************************************************)
(* For any number of replicas, requests, keys and streams, any read batch, *)
(* any MAXLEN and any number of faults: one job per key unless requests    *)
(* raced, and no QUEUED job without an entry unless its last enqueuing     *)
(* failed, its entry was trimmed or the reaper requeued it.                *)
(***************************************************************************)
EXTENDS JobStreams, FiniteSetTheorems, TLAPS

(* Two jobs of one key: whichever request looked first, the other one       *)
(* either finds its job or is on record as having raced with it.            *)
Raced(i, j) == <<i, j>> \in raced \/ <<j, i>> \in raced

Rivals ==
  /\ request \in [Job -> {"unsent", "looked", "inserted", "accepted", "conflict", "failed"}]
  /\ status \in [Job -> {"none", "QUEUED", "ASSIGNED", "RETRYING"}]
  /\ \A i, j \in Job :
       i # j /\ SameKey(i, j)
         /\ (status[i] # "none" \/ request[i] = "looked")
         /\ (status[j] # "none" \/ request[j] = "looked")
       => Raced(i, j)

-------------------------------------------------------------------------------
(* Idempotency keys.                                                        *)

(* It holds initially.                                                      *)
LEMMA RivalsFirst == Init => Rivals
  BY DEF Init, Rivals

(* Every step keeps the invariant about submissions.                        *)
LEMMA RivalsStep == Rivals /\ [Next]_vars => Rivals'
<1> SUFFICES ASSUME Rivals, [Next]_vars PROVE Rivals'
  OBVIOUS
<1>1. ASSUME UNCHANGED <<requestVars, status>> PROVE Rivals'
  BY <1>1 DEF Rivals, requestVars, Raced
<1>2. ASSUME NEW j \in Job, Lookup(j) PROVE Rivals'
  <2>1. /\ UNCHANGED status
        /\ raced \subseteq raced'
        /\ \A i \in Job : SameKey(i, j) /\ request[i] = "looked" => <<i, j>> \in raced'
    BY <1>2 DEF Lookup, jobVars
  <2>2. /\ request' \in [Job -> {"unsent", "looked", "inserted", "accepted", "conflict", "failed"}]
        /\ \A i \in Job : i # j => request'[i] = request[i]
    BY <1>2 DEF Lookup, Rivals
  <2>3. request'[j] = "looked" => \A i \in Job : SameKey(i, j) => status[i] = "none"
    BY <1>2 DEF Lookup, Rivals, getByIdempotencyKey
  <2>4. \A i, k \in Job : SameKey(i, k) <=> SameKey(k, i)
    BY DEF SameKey
  <2> QED BY <2>1, <2>2, <2>3, <2>4 DEF Rivals, Raced, SameKey
<1>3. ASSUME NEW j \in Job, Insert(j) PROVE Rivals'
  <2>1. request[j] = "looked" /\ UNCHANGED raced
    BY <1>3 DEF Insert
  <2>2. /\ request' \in [Job -> {"unsent", "looked", "inserted", "accepted", "conflict", "failed"}]
        /\ status' \in [Job -> {"none", "QUEUED", "ASSIGNED", "RETRYING"}]
        /\ \A i \in Job : i # j => request'[i] = request[i] /\ status'[i] = status[i]
    BY <1>3 DEF Insert, Rivals
  <2> QED BY <2>1, <2>2 DEF Rivals, Raced, SameKey
<1>4. ASSUME NEW j \in Job, Submit(j) PROVE Rivals'
  BY <1>4 DEF Submit, Rivals, Raced, SameKey, jobVars
<1>5. ASSUME NEW j \in Job, Retry(j) \/ MarkDeadAndRequeue(j) \/ MarkQueuedFromRetry(j)
      PROVE  Rivals'
  BY <1>5 DEF Retry, MarkDeadAndRequeue, MarkQueuedFromRetry, Rivals, Raced, SameKey, requestVars
<1>6. ASSUME NEW j \in Job, Requeue(j) \/ FleetChanges(j) PROVE Rivals'
  BY <1>1, <1>6 DEF Requeue, FleetChanges
<1>7. ASSUME NEW r \in Replica, ReadNew(r) \/ ReadPending(r) \/ Die(r) PROVE Rivals'
  BY <1>1, <1>7 DEF ReadNew, ReadPending, Die, jobVars
<1>8. ASSUME NEW r \in Replica, NEW e \in loop[r].batch, Process(r, e) PROVE Rivals'
  <2>1. UNCHANGED requestVars
    BY <1>8 DEF Process
  <2>2. status' = status \/ (status[e.job] = "QUEUED" /\ status' = [status EXCEPT ![e.job] = "ASSIGNED"])
    BY <1>8 DEF Process
  <2> QED BY <2>1, <2>2 DEF Rivals, Raced, SameKey, requestVars
<1>9. ASSUME NEW r \in Replica, NEW e \in loop[r].batch, Ack(r, e) PROVE Rivals'
  BY <1>1, <1>9 DEF Ack, jobVars
<1>10. CASE UNCHANGED vars
  BY <1>1, <1>10 DEF vars, jobVars
<1> QED
  BY <1>2, <1>3, <1>4, <1>5, <1>6, <1>7, <1>8, <1>9, <1>10 DEF Next, LoopStep

(* Two jobs with one idempotency key come only from requests that were      *)
(* between lookup and insert at the same time (Create).                     *)
THEOREM KeysAreKept == Spec => []OneJobPerKey
<1>1. Rivals => OneJobPerKey
  BY DEF Rivals, OneJobPerKey, Raced
<1> QED BY <1>1, RivalsFirst, RivalsStep, PTL DEF Spec

-------------------------------------------------------------------------------
(* Entries.                                                                 *)

Same(e, f) == e.stream = f.stream /\ e.id = f.id

(* Ids count up in every stream, so they name entries.                      *)
Streams ==
  /\ entries \subseteq Entry /\ IsFiniteSet(entries)
  /\ delivered \subseteq entries /\ pel \subseteq delivered
  /\ low \in [Priority -> Nat]
  /\ \A p \in Priority : low[p] <= Top(p)
  /\ \A e \in entries : e.id <= Top(e.stream)
  /\ \A e, f \in entries : Same(e, f) => e = f

Hand == [stream : Priority, id : Nat \ {0}, job : Job \cup {None}]
Ticking == [pc : {"read", "work", "ack"}, pass : {">", "0"}, batch : SUBSET Hand]

(* What a loop has in hand is a delivered entry, with its job unless it was *)
(* trimmed.                                                                 *)
Hands ==
  /\ loop \in [Replica -> Ticking]
  /\ \A r \in Replica : \A e \in loop[r].batch :
       \E f \in delivered : Same(e, f) /\ (e.job = f.job \/ Trimmed(f))

(* Some loop has decided to acknowledge e and not yet done so.              *)
Settling(e) ==
  \E r \in Replica : loop[r].pc = "ack" /\ \E h \in First(r) : Same(h, e)

Lasting(e) == ~Trimmed(e) /\ (e \notin delivered \/ (e \in pel /\ ~Settling(e)))

(* QueuedIsReachable strengthened: of the entries of a QUEUED job at least  *)
(* one is not about to be acknowledged.                                     *)
Kept ==
  \A j \in Job :
    status[j] = "QUEUED" =>
      \/ request[j] = "inserted" \/ j \in polled \/ j \in lost
      \/ \E e \in entries : e.job = j /\ Lasting(e)

(* The entry a replica works on is one entry.                               *)
LEMMA FirstOnes ==
  ASSUME Hands, NEW r \in Replica, NEW e \in First(r), NEW f \in First(r)
  PROVE  Same(e, f)
<1>1. e \in Hand /\ f \in Hand
  BY DEF Hands, Ticking, First
<1>2. e.stream \in Nat /\ f.stream \in Nat /\ e.id \in Nat /\ f.id \in Nat
  BY <1>1, StreamsAssumption DEF Hand
<1> QED BY <1>2 DEF First, Same

(* A stream has finitely many entries.                                      *)
LEMMA TopIsNat ==
  ASSUME Streams, NEW p \in Priority
  PROVE  IsFiniteSet(In(p)) /\ Top(p) \in Nat
<1>1. In(p) \subseteq entries /\ IsFiniteSet(entries)
  BY DEF In, Streams
<1>2. IsFiniteSet(In(p))
  BY <1>1, FS_Subset
<1> QED BY <1>2, FS_CardinalityType DEF Top

(* XADD: the new entry is readable, ids stay unique, and what MAXLEN takes  *)
(* away before it is settled is on record.                                  *)
LEMMA EnqueueAdds ==
  ASSUME Streams, NEW j \in Job, Enqueue(j)
  PROVE  /\ Streams'
         /\ entries \subseteq entries' /\ lost \ {j} \subseteq lost'
         /\ UNCHANGED <<delivered, pel>>
         /\ \A e \in entries : Trimmed(e) => Trimmed(e)'
         /\ \A e \in entries :
              ~Trimmed(e) /\ Trimmed(e)' /\ (e \notin delivered \/ e \in pel) =>
                e.job = j \/ e.job \in lost'
         /\ \E n \in entries' : n.job = j /\ n \notin delivered /\ ~Trimmed(n)'
<1> DEFINE p == PriorityOf[j]
<1>1. p \in Priority
  BY StreamsAssumption
<1>2. IsFiniteSet(In(p)) /\ Top(p) \in Nat
  BY <1>1, TopIsNat
<1>3. PICK n \in Entry : n = [stream |-> p, id |-> Top(p) + 1, job |-> j]
  <2>1. [stream |-> p, id |-> Top(p) + 1, job |-> j] \in Entry
    BY <1>1, <1>2 DEF Entry
  <2> QED BY <2>1
<1>4. n.stream = p /\ n.id = Top(p) + 1 /\ n.job = j
  BY <1>3
<1>5. entries' = entries \cup {n} /\ UNCHANGED <<delivered, pel>>
  BY <1>3 DEF Enqueue
<1>6. \A e \in entries : e.stream = p => e.id < n.id
  BY <1>1, <1>2, <1>4 DEF Streams, Entry
<1>7. n \notin entries
  BY <1>2, <1>4, <1>6
<1>8. PICK m \in Nat : low' = [low EXCEPT ![p] = m] /\ low[p] <= m /\ (m <= Top(p) \/ m = low[p])
  <2>1. low[p] \in Nat
    BY <1>1 DEF Streams
  <2> QED BY <1>2, <2>1 DEF Enqueue
<1>9. low' \in [Priority -> Nat] /\ low'[p] = m /\ \A q \in Priority : low[q] <= low'[q]
  BY <1>1, <1>8 DEF Streams
<1>10. Streams'
  <2>1. entries' \subseteq Entry /\ delivered' \subseteq entries' /\ pel' \subseteq delivered'
    BY <1>4, <1>5 DEF Streams
  <2>2. IsFiniteSet(entries')
    BY <1>5, FS_AddElement DEF Streams
  <2>3. In(p)' = In(p) \cup {n} /\ n \notin In(p)
    BY <1>4, <1>5, <1>7 DEF In
  <2>4. Top(p)' = Top(p) + 1
    BY <1>2, <2>3, FS_AddElement DEF Top
  <2>5. \A q \in Priority : q # p => Top(q)' = Top(q)
    BY <1>4, <1>5 DEF Top, In
  <2>6. \A e \in entries' : e.id <= Top(e.stream)'
    <3>1. n.id <= Top(n.stream)'
      BY <1>2, <1>4, <2>4
    <3>2. ASSUME NEW e \in entries PROVE e.id <= Top(e.stream)'
      <4>1. e.stream \in Priority /\ e.id \in Nat /\ e.id <= Top(e.stream)
        BY DEF Streams, Entry
      <4> QED BY <1>2, <2>4, <2>5, <4>1
    <3> QED BY <1>5, <3>1, <3>2
  <2>7. \A e, f \in entries' : Same(e, f) => e = f
    <3>1. \A e \in entries : ~Same(e, n) /\ ~Same(n, e)
      BY <1>2, <1>4, <1>6 DEF Same, Streams, Entry
    <3> QED BY <1>5, <3>1 DEF Streams
  <2>8. \A q \in Priority : low'[q] <= Top(q)'
    <3>1. low[p] <= Top(p) /\ low[p] \in Nat
      BY <1>1 DEF Streams
    <3>2. low'[p] <= Top(p)'
      BY <1>2, <1>8, <1>9, <2>4, <3>1
    <3>3. \A q \in Priority : q # p => low'[q] = low[q]
      BY <1>1, <1>8 DEF Streams
    <3> QED BY <2>5, <3>2, <3>3 DEF Streams
  <2> QED BY <1>9, <2>1, <2>2, <2>6, <2>7, <2>8 DEF Streams
<1>11. \A e \in entries : Trimmed(e) => Trimmed(e)'
  BY <1>9 DEF Trimmed, Streams, Entry
<1>12. \A e \in entries :
         ~Trimmed(e) /\ Trimmed(e)' /\ (e \notin delivered \/ e \in pel) =>
           e.job = j \/ e.job \in lost'
  <2> SUFFICES ASSUME NEW e \in entries, ~Trimmed(e), Trimmed(e)', e \notin delivered \/ e \in pel,
                      e.job # j
               PROVE  e.job \in lost'
    OBVIOUS
  <2>1. e.stream = p
    BY <1>8 DEF Trimmed, Streams, Entry
  <2>2. e \in In(p) /\ e.id <= low'[p]
    BY <2>1 DEF In, Trimmed
  <2> QED BY <2>2 DEF Enqueue
<1>13. n \in entries' /\ n \notin delivered
  BY <1>5, <1>7 DEF Streams
<1>14. ~Trimmed(n)'
  <2>1. low[p] <= Top(p) /\ low[p] \in Nat
    BY <1>1 DEF Streams
  <2> QED BY <1>2, <1>4, <1>8, <1>9, <2>1 DEF Trimmed
<1> QED
  BY <1>4, <1>5, <1>10, <1>11, <1>12, <1>13, <1>14 DEF Enqueue

EntryInv == Streams /\ Hands /\ Kept

(* Steps that leave the streams and the loops alone.                        *)
LEMMA SameStreams ==
  ASSUME EntryInv, UNCHANGED <<streamVars, loop>>, lost \subseteq lost',
         \A j \in Job : status'[j] = "QUEUED" =>
           \/ request'[j] = "inserted" \/ j \in polled' \/ j \in lost'
           \/ status[j] = "QUEUED" /\ request[j] # "inserted" /\ j \notin polled
  PROVE  EntryInv'
<1>1. Streams' /\ Hands'
  BY DEF EntryInv, Streams, Hands, streamVars, Top, In, Trimmed
<1>2. \A e : Lasting(e)' <=> Lasting(e)
  BY DEF Lasting, Trimmed, Settling, First, streamVars
<1>3. UNCHANGED entries
  BY DEF streamVars
<1> QED BY <1>1, <1>2, <1>3 DEF EntryInv, Kept

(* Steps that enqueue j, or record that they did not.                       *)
LEMMA EnqueueKeeps ==
  ASSUME EntryInv, NEW j \in Job, Enqueue(j), UNCHANGED <<status, loop>>,
         \A i \in Job \ {j} : request'[i] = request[i] /\ (i \in polled' <=> i \in polled)
  PROVE  EntryInv'
<1>1. /\ Streams'
      /\ entries \subseteq entries' /\ lost \ {j} \subseteq lost'
      /\ UNCHANGED <<delivered, pel>>
      /\ \A e \in entries : Trimmed(e) => Trimmed(e)'
      /\ \A e \in entries :
           ~Trimmed(e) /\ Trimmed(e)' /\ (e \notin delivered \/ e \in pel) =>
             e.job = j \/ e.job \in lost'
      /\ \E n \in entries' : n.job = j /\ n \notin delivered /\ ~Trimmed(n)'
  BY EnqueueAdds DEF EntryInv
<1>2. delivered \subseteq entries
  BY DEF EntryInv, Streams
<1>3. Hands'
  BY <1>1, <1>2 DEF EntryInv, Hands
<1>4. \A e \in entries : Lasting(e) => Lasting(e)' \/ e.job = j \/ e.job \in lost'
  BY <1>1 DEF Lasting, Settling, First
<1>5. \E n \in entries' : n.job = j /\ Lasting(n)'
  BY <1>1 DEF Lasting
<1>6. Kept'
  BY <1>1, <1>4, <1>5 DEF EntryInv, Kept
<1> QED BY <1>1, <1>3, <1>6 DEF EntryInv

(* What two loops have in hand under one id is one entry.                   *)
LEMMA InHand ==
  ASSUME Streams, Hands, NEW r \in Replica, NEW h \in loop[r].batch,
         NEW e \in entries, Same(h, e)
  PROVE  e \in delivered /\ (h.job = e.job \/ Trimmed(e))
<1>1. PICK f \in delivered : Same(h, f) /\ (h.job = f.job \/ Trimmed(f))
  BY DEF Hands
<1>2. f \in entries /\ Same(e, f)
  BY <1>1 DEF Streams, Same
<1> QED BY <1>1, <1>2 DEF Streams

(* Onward changes one replica's batch and nobody's acknowledgement.         *)
LEMMA OnwardMoves ==
  ASSUME Hands, NEW r \in Replica, NEW B \in SUBSET Hand, Onward(r, B)
  PROVE  /\ loop' \in [Replica -> Ticking]
         /\ loop'[r].pc # "ack" /\ loop'[r].batch = B
         /\ \A q \in Replica \ {r} : loop'[q] = loop[q]
<1> DEFINE pass == IF loop[r].pass = ">" THEN "0" ELSE ">"
           next == IF B # {} THEN [pc |-> "work", pass |-> loop[r].pass, batch |-> B]
                   ELSE [pc |-> "read", pass |-> pass, batch |-> {}]
<1>1. loop \in [Replica -> Ticking] /\ loop[r].pass \in {">", "0"}
  BY DEF Hands, Ticking
<1>2. next \in Ticking /\ next.pc # "ack" /\ next.batch = B
  BY <1>1 DEF Ticking
<1>3. [Start EXCEPT !.pass = pass] = [pc |-> "read", pass |-> pass, batch |-> {}]
  BY DEF Start
<1>4. loop' = [loop EXCEPT ![r] = next]
  BY <1>3 DEF Onward
<1> QED BY <1>1, <1>2, <1>4

(* Of the loops, only one at "ack" settles entries.                         *)
LEMMA SettlesNoMore ==
  ASSUME NEW r \in Replica, loop'[r].pc # "ack",
         \A q \in Replica \ {r} : loop'[q] = loop[q], NEW e, Settling(e)'
  PROVE  Settling(e)
<1>1. PICK q \in Replica : loop'[q].pc = "ack" /\ \E h \in First(q)' : Same(h, e)
  BY DEF Settling
<1>2. loop'[q] = loop[q]
  BY <1>1
<1>3. First(q)' = First(q)
  BY <1>2 DEF First
<1> QED BY <1>1, <1>2, <1>3 DEF Settling

(* Reading new entries makes them pending, also when the answer is lost.    *)
LEMMA ReadNewKeeps ==
  ASSUME EntryInv, NEW r \in Replica, ReadNew(r)
  PROVE  EntryInv'
<1> DEFINE B == Oldest(Fresh)
<1>1. B \subseteq entries /\ \A e \in B : e \notin delivered
  BY DEF Oldest, Fresh
<1>2. B \in SUBSET Hand
  BY <1>1 DEF EntryInv, Streams, Entry, Hand
<1>3. UNCHANGED <<entries, low, lost, status, request, polled>>
  BY DEF ReadNew, requestVars, jobVars
<1>4. \/ delivered' = delivered \cup B /\ pel' = pel \cup B
      \/ Onward(r, {}) /\ UNCHANGED <<delivered, pel>>
  <2>1. \/ Onward(r, B) /\ UNCHANGED faults
        \/ Onward(r, {}) /\ Fault
    BY DEF ReadNew
  <2>2. \/ delivered' = delivered \cup B /\ pel' = pel \cup B
        \/ faults' # faults /\ UNCHANGED <<delivered, pel>>
    BY DEF ReadNew
  <2> QED BY <2>1, <2>2
<1>5. Onward(r, B) \/ Onward(r, {})
  BY DEF ReadNew
<1>6. PICK C \in SUBSET Hand : Onward(r, C) /\ C \subseteq delivered'
  BY <1>2, <1>4, <1>5
<1>7. /\ loop' \in [Replica -> Ticking]
      /\ loop'[r].pc # "ack" /\ loop'[r].batch = C
      /\ \A q \in Replica \ {r} : loop'[q] = loop[q]
  BY <1>6, OnwardMoves DEF EntryInv
<1>8. Streams'
  BY <1>1, <1>3, <1>4 DEF EntryInv, Streams, Top, In
<1>9. delivered \subseteq delivered' /\ pel \subseteq pel'
  BY <1>4
<1>10. Hands'
  <2> SUFFICES ASSUME NEW q \in Replica, NEW e \in loop'[q].batch
               PROVE  \E f \in delivered' : Same(e, f) /\ (e.job = f.job \/ Trimmed(f)')
    BY <1>7 DEF Hands
  <2>1. CASE q = r
    BY <1>6, <1>7, <2>1 DEF Same
  <2>2. CASE q # r
    BY <1>3, <1>7, <1>9, <2>2 DEF EntryInv, Hands, Trimmed
  <2> QED BY <2>1, <2>2
<1>11. ASSUME NEW e \in entries, Lasting(e) PROVE Lasting(e)'
  <2>1. ~Trimmed(e)'
    BY <1>3, <1>11 DEF Lasting, Trimmed
  <2>2. CASE e \in delivered
    BY <1>7, <1>9, <1>11, <2>1, <2>2, SettlesNoMore DEF Lasting
  <2>3. CASE e \notin delivered
    <3>1. ~Settling(e)
      BY <2>3, InHand DEF Settling, First, EntryInv
    <3> QED BY <1>4, <1>7, <2>1, <2>3, <3>1, SettlesNoMore DEF Lasting
  <2> QED BY <2>2, <2>3
<1> QED BY <1>3, <1>8, <1>10, <1>11 DEF EntryInv, Kept

(* Reading pending entries changes none.                                    *)
LEMMA ReadPendingKeeps ==
  ASSUME EntryInv, NEW r \in Replica, ReadPending(r)
  PROVE  EntryInv'
<1> DEFINE B == {Fields(e) : e \in Oldest(pel)}
<1>1. UNCHANGED <<streamVars, entries, low, delivered, pel, lost, status, request, polled>>
  BY DEF ReadPending, requestVars, jobVars, streamVars
<1>2. ASSUME NEW e \in Oldest(pel)
      PROVE  /\ Fields(e) \in Hand
             /\ e \in delivered
             /\ Same(Fields(e), e) /\ (Fields(e).job = e.job \/ Trimmed(e))
  <2>1. e \in pel /\ e \in Entry
    BY DEF Oldest, EntryInv, Streams
  <2>2. e \in Hand /\ [e EXCEPT !.job = None] \in Hand
    BY <2>1 DEF Entry, Hand
  <2>3. Same([e EXCEPT !.job = None], e)
    BY <2>1 DEF Same, Entry
  <2> QED BY <2>1, <2>2, <2>3 DEF Fields, Same, EntryInv, Streams
<1>3. PICK C \in SUBSET B : Onward(r, C)
  BY DEF ReadPending
<1>4. C \in SUBSET Hand
  BY <1>2
<1>5. /\ loop' \in [Replica -> Ticking]
      /\ loop'[r].pc # "ack" /\ loop'[r].batch = C
      /\ \A q \in Replica \ {r} : loop'[q] = loop[q]
  BY <1>3, <1>4, OnwardMoves DEF EntryInv
<1>6. Streams'
  BY <1>1 DEF EntryInv, Streams, Top, In
<1>7. Hands'
  <2> SUFFICES ASSUME NEW q \in Replica, NEW e \in loop'[q].batch
               PROVE  \E f \in delivered' : Same(e, f) /\ (e.job = f.job \/ Trimmed(f)')
    BY <1>5 DEF Hands
  <2>1. CASE q = r
    BY <1>1, <1>2, <1>5, <2>1 DEF Trimmed
  <2>2. CASE q # r
    BY <1>1, <1>5, <2>2 DEF EntryInv, Hands, Trimmed
  <2> QED BY <2>1, <2>2
<1>8. ASSUME NEW e \in entries, Lasting(e) PROVE Lasting(e)'
  BY <1>1, <1>5, <1>8, SettlesNoMore DEF Lasting, Trimmed
<1> QED BY <1>1, <1>6, <1>7, <1>8 DEF EntryInv, Kept

(* A loop that goes on to its next entry, or starts over.                   *)
LEMMA OnwardKeeps ==
  ASSUME EntryInv, NEW r \in Replica, NEW B \in SUBSET loop[r].batch,
         loop' \in [Replica -> Ticking],
         loop'[r].pc # "ack", loop'[r].batch = B,
         \A q \in Replica \ {r} : loop'[q] = loop[q],
         UNCHANGED <<entries, low, delivered, request>>, lost \subseteq lost',
         pel' \subseteq pel,
         \A e \in pel : e \in pel' \/ Settling(e),
         \A j \in Job : status'[j] = "QUEUED" => status[j] = "QUEUED",
         \A j \in polled : j \in polled' \/ j \in lost'
  PROVE  EntryInv'
<1>1. Streams'
  BY DEF EntryInv, Streams, Top, In
<1>2. Hands'
  BY DEF EntryInv, Hands, Trimmed
<1>3. ASSUME NEW e \in entries, Lasting(e) PROVE Lasting(e)'
  BY <1>3, SettlesNoMore DEF Lasting, Trimmed
<1> QED BY <1>1, <1>2, <1>3 DEF EntryInv, Kept

(* An entry is set to be acknowledged only when its job is not QUEUED any   *)
(* more.                                                                    *)
LEMMA ProcessKeeps ==
  ASSUME EntryInv, Rivals, NEW r \in Replica, NEW h \in loop[r].batch, Process(r, h)
  PROVE  EntryInv'
<1>1. UNCHANGED <<entries, low, delivered, pel, request, polled, lost>> /\ h \in First(r)
  BY DEF Process, requestVars, streamVars
<1>2. h \in Hand /\ loop[r].batch \subseteq Hand
  BY DEF EntryInv, Hands, Ticking
<1>3. /\ \A j \in Job : status'[j] = "QUEUED" => status[j] = "QUEUED"
      /\ loop' = [loop EXCEPT ![r].pc = "ack"] => h.job = None \/ status'[h.job] # "QUEUED"
      /\ loop' = [loop EXCEPT ![r].pc = "ack"] \/ Onward(r, loop[r].batch \ {h})
  <2>1. \/ /\ h.job # None => status[h.job] # "QUEUED"
           /\ loop' = [loop EXCEPT ![r].pc = "ack"]
           /\ UNCHANGED status
        \/ /\ h.job # None
           /\ status' = [status EXCEPT ![h.job] = "ASSIGNED"]
           /\ loop' = [loop EXCEPT ![r].pc = "ack"]
        \/ /\ Onward(r, loop[r].batch \ {h})
           /\ loop'[r].pc # "ack"
           /\ status' = status \/ status' = [status EXCEPT ![h.job] = "ASSIGNED"]
    BY <1>2, OnwardMoves DEF Process, EntryInv
  <2>2. h.job # None => h.job \in Job
    BY <1>2 DEF Hand
  <2>3. loop' = [loop EXCEPT ![r].pc = "ack"] => loop'[r].pc = "ack"
    BY DEF EntryInv, Hands, Ticking
  <2> QED BY <2>1, <2>2, <2>3 DEF Rivals
<1>4. CASE Onward(r, loop[r].batch \ {h})
  <2>1. /\ loop' \in [Replica -> Ticking]
        /\ loop'[r].pc # "ack" /\ loop'[r].batch = loop[r].batch \ {h}
        /\ \A q \in Replica \ {r} : loop'[q] = loop[q]
    BY <1>2, <1>4, OnwardMoves DEF EntryInv
  <2> QED BY <1>1, <1>3, <2>1, OnwardKeeps
<1>5. CASE loop' = [loop EXCEPT ![r].pc = "ack"]
  <2>1. /\ loop' \in [Replica -> Ticking]
        /\ \A q \in Replica : loop'[q].batch = loop[q].batch
        /\ \A q \in Replica \ {r} : loop'[q] = loop[q]
    BY <1>5 DEF EntryInv, Hands, Ticking
  <2>2. \A q \in Replica : First(q)' = First(q)
    BY <2>1 DEF First
  <2>3. Streams' /\ Hands'
    BY <1>1, <2>1 DEF EntryInv, Streams, Hands, Top, In, Trimmed
  <2>4. ASSUME NEW e \in entries, Lasting(e), ~Same(h, e) PROVE Lasting(e)'
    <3>1. ASSUME Settling(e)' PROVE Settling(e)
      <4>1. PICK q \in Replica : loop'[q].pc = "ack" /\ \E g \in First(q) : Same(g, e)
        BY <2>2, <3>1 DEF Settling
      <4>2. q # r
        BY <1>1, <2>4, <4>1, FirstOnes DEF EntryInv, Same
      <4> QED BY <2>1, <4>1, <4>2 DEF Settling
    <3> QED BY <1>1, <2>4, <3>1 DEF Lasting, Trimmed
  <2>5. ASSUME NEW e \in entries, Lasting(e), Same(h, e), e.job \in Job
        PROVE  status'[e.job] # "QUEUED"
    <3>1. h.job = e.job
      BY <2>5, InHand DEF Lasting, EntryInv
    <3> QED BY <1>3, <1>5, <2>5, <3>1, StreamsAssumption
  <2>6. Kept'
    BY <1>1, <1>3, <2>4, <2>5 DEF EntryInv, Kept
  <2> QED BY <2>3, <2>6 DEF EntryInv
<1> QED BY <1>3, <1>4, <1>5

(* The acknowledged entry was one nobody needs.                             *)
LEMMA AckKeeps ==
  ASSUME EntryInv, NEW r \in Replica, NEW h \in loop[r].batch, Ack(r, h)
  PROVE  EntryInv'
<1>1. /\ UNCHANGED <<entries, low, delivered, status, request, polled, lost>>
      /\ loop[r].pc = "ack" /\ h \in First(r)
  BY DEF Ack, requestVars, jobVars
<1>2. loop[r].batch \ {h} \in SUBSET Hand
  BY DEF EntryInv, Hands, Ticking
<1>3. /\ loop' \in [Replica -> Ticking]
      /\ loop'[r].pc # "ack" /\ loop'[r].batch = loop[r].batch \ {h}
      /\ \A q \in Replica \ {r} : loop'[q] = loop[q]
  BY <1>2, OnwardMoves DEF Ack, EntryInv
<1>4. pel' \subseteq pel /\ \A e \in pel : e \in pel' \/ Settling(e)
  BY <1>1 DEF Ack, Settling, Same
<1> QED BY <1>1, <1>3, <1>4, OnwardKeeps

(* What dies with a process is accounted for.                               *)
LEMMA DieKeeps ==
  ASSUME EntryInv, NEW r \in Replica, Die(r)
  PROVE  EntryInv'
<1>1. /\ UNCHANGED <<entries, low, delivered, pel, status, request>>
      /\ lost \subseteq lost' /\ \A j \in polled : j \in polled' \/ j \in lost'
  BY DEF Die, requestVars, streamVars
<1>2. Start \in Ticking /\ Start.pc # "ack" /\ Start.batch = {}
  BY DEF Start, Ticking
<1>3. /\ loop' \in [Replica -> Ticking]
      /\ loop'[r].pc # "ack" /\ loop'[r].batch = {}
      /\ \A q \in Replica \ {r} : loop'[q] = loop[q]
  BY <1>2 DEF Die, EntryInv, Hands
<1> QED BY <1>1, <1>3, OnwardKeeps

(* It holds initially.                                                      *)
LEMMA KeptFirst == Init => EntryInv
<1> SUFFICES ASSUME Init PROVE EntryInv
  OBVIOUS
<1>1. IsFiniteSet(entries) /\ \A p \in Priority : Top(p) = 0
  <2>1. entries = {} /\ \A p \in Priority : In(p) = {}
    BY DEF Init, In
  <2> QED BY <2>1, FS_EmptySet DEF Top
<1>2. Streams
  BY <1>1 DEF Init, Streams
<1>3. Start \in Ticking /\ Start.batch = {}
  BY DEF Start, Ticking
<1>4. Hands
  BY <1>3 DEF Init, Hands
<1>5. Kept
  BY DEF Init, Kept
<1> QED BY <1>2, <1>4, <1>5 DEF EntryInv

(* Every step keeps the invariant about entries.                            *)
LEMMA KeptStep == Rivals /\ EntryInv /\ [Next]_vars => EntryInv'
<1> SUFFICES ASSUME Rivals, EntryInv, [Next]_vars PROVE EntryInv'
  OBVIOUS
<1>1. ASSUME NEW j \in Job, Lookup(j) PROVE EntryInv'
  <2>1. /\ UNCHANGED <<streamVars, loop, lost, status, polled>>
        /\ request[j] # "inserted" /\ \A i \in Job \ {j} : request'[i] = request[i]
    BY <1>1 DEF Lookup, jobVars, Rivals
  <2> QED BY <2>1, SameStreams
<1>2. ASSUME NEW j \in Job, Insert(j) PROVE EntryInv'
  <2>1. UNCHANGED <<streamVars, loop, polled>> /\ lost \subseteq lost' /\ request[j] = "looked"
    BY <1>2 DEF Insert
  <2>2. \A i \in Job \ {j} : request'[i] = request[i] /\ status'[i] = status[i]
    BY <1>2 DEF Insert, Rivals
  <2>3. status'[j] = "QUEUED" => request'[j] = "inserted" \/ j \in lost' \/ status[j] = "QUEUED"
    BY <1>2 DEF Insert, Rivals
  <2> QED BY <2>1, <2>2, <2>3, SameStreams
<1>3. ASSUME NEW j \in Job, Submit(j) PROVE EntryInv'
  <2>1. UNCHANGED <<status, loop, polled>> /\ \A i \in Job \ {j} : request'[i] = request[i]
    BY <1>3 DEF Submit, jobVars, Rivals
  <2>2. CASE Enqueue(j)
    BY <2>1, <2>2, EnqueueKeeps
  <2>3. CASE NotEnqueued(j)
    BY <2>1, <2>3, SameStreams DEF NotEnqueued
  <2> QED BY <1>3, <2>2, <2>3 DEF Submit
<1>4. ASSUME NEW j \in Job, Retry(j) PROVE EntryInv'
  <2>1. /\ UNCHANGED <<streamVars, loop, lost, polled, request>>
        /\ \A i \in Job : status'[i] = "QUEUED" => status[i] = "QUEUED"
    BY <1>4 DEF Retry, requestVars, Rivals
  <2> QED BY <2>1, SameStreams
<1>5. ASSUME NEW j \in Job, MarkDeadAndRequeue(j) PROVE EntryInv'
  <2>1. /\ UNCHANGED <<streamVars, loop, request, polled>>
        /\ lost' = lost \cup {j}
        /\ \A i \in Job \ {j} : status'[i] = status[i]
    BY <1>5 DEF MarkDeadAndRequeue, requestVars, Rivals
  <2> QED BY <2>1, SameStreams
<1>6. ASSUME NEW j \in Job, MarkQueuedFromRetry(j) PROVE EntryInv'
  <2>1. /\ UNCHANGED <<streamVars, loop, lost, request>>
        /\ polled' = polled \cup {j}
        /\ \A i \in Job \ {j} : status'[i] = status[i]
    BY <1>6 DEF MarkQueuedFromRetry, requestVars, Rivals
  <2> QED BY <2>1, SameStreams
<1>7. ASSUME NEW j \in Job, Requeue(j) PROVE EntryInv'
  <2>1. UNCHANGED <<status, loop, request>> /\ polled' = polled \ {j}
    BY <1>7 DEF Requeue, requestVars
  <2>2. CASE Enqueue(j)
    BY <2>1, <2>2, EnqueueKeeps
  <2>3. CASE NotEnqueued(j)
    BY <2>1, <2>3, SameStreams DEF NotEnqueued
  <2> QED BY <1>7, <2>2, <2>3 DEF Requeue
<1>8. ASSUME NEW j \in Job, FleetChanges(j) PROVE EntryInv'
  BY <1>8, SameStreams DEF FleetChanges, requestVars
<1>9. ASSUME NEW r \in Replica, LoopStep(r) PROVE EntryInv'
  BY <1>9, ReadNewKeeps, ReadPendingKeeps, ProcessKeeps, AckKeeps DEF LoopStep
<1>10. ASSUME NEW r \in Replica, Die(r) PROVE EntryInv'
  BY <1>10, DieKeeps
<1>11. CASE UNCHANGED vars
  BY <1>11, SameStreams DEF vars, requestVars, jobVars
<1> QED
  BY <1>1, <1>2, <1>3, <1>4, <1>5, <1>6, <1>7, <1>8, <1>9, <1>10, <1>11 DEF Next

(* A QUEUED job has an entry the loop can still read, for any number of     *)
(* leaders that share the consumer (readAndProcess, processMessage), unless *)
(* since it was last enqueued the reaper requeued it or MAXLEN trimmed an   *)
(* entry of it, or its enqueuer failed or died.                             *)
THEOREM QueuedStaysReachable == Spec => []QueuedIsReachable
<1>1. EntryInv => QueuedIsReachable
  BY DEF EntryInv, Kept, QueuedIsReachable, Reachable, Lasting
<1> QED BY <1>1, RivalsFirst, RivalsStep, KeptFirst, KeptStep, PTL DEF Spec
================================================================================
