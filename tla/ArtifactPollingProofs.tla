------------------------- MODULE ArtifactPollingProofs -------------------------
(***************************************************************************)
(* What the shared polls guarantee for any number of waiters.              *)
(***************************************************************************)
EXTENDS ArtifactPolling, TLAPS

Running == {"created", "asking", "telling", "sleeping", "backoff"}

(* How the misses that poll r has counted relate to the n answers in a row *)
(* without the artifact.  While it tells a new status to the callback the  *)
(* poll has not yet counted it.                                            *)
CountsOK(r, n) ==
  /\ r.last # "removed" => r.misses < 2 * MaxNotFound
  /\ r.last = "removed" => r.at = "telling" /\ n >= MaxNotFound
  /\ r.at = "telling" /\ r.last = "not_found" => r.misses < n
  /\ r.at \in Running \ {"telling"} => r.misses <= n
  /\ r.at = "telling" => r.last # "none"
  /\ r.at \in Running => r.outcome = "none"
  /\ r.outcome = "removed" => n >= MaxNotFound
  /\ r.outcome = "cancelled" => closing

(* The registered poll is the only one, and the one that is waited for.    *)
IInv ==
  /\ TypeOK
  /\ \A t \in Waiters : poll[t].at # "none" <=> registry = t
  /\ \A w \in Waiters : waiter[w].at = "waiting" => waiter[w].poll # None
                                                     /\ registry = waiter[w].poll
  /\ \A t \in Waiters : CountsOK(poll[t], absent[t])
  /\ OthersAreNotCancelled

-----------------------------------------------------------------------------

LEMMA NoPollOK == NoPoll \in PollRecord /\ \A n \in Nat : CountsOK(NoPoll, n)
BY PollingAssumption DEF NoPoll, PollRecord, CountsOK, Running

LEMMA EndedOK ==
  ASSUME NEW o \in Outcomes, NEW n \in Nat,
         o = "removed" => n >= MaxNotFound, o = "cancelled" => closing
  PROVE  /\ Ended(o) \in PollRecord /\ CountsOK(Ended(o), n)
         /\ Ended(o).at = "ended"
<1>1. NoPoll \in PollRecord
  BY NoPollOK
<1>2. Ended(o) \in PollRecord
  BY <1>1 DEF Ended, PollRecord
<1>3. /\ Ended(o).at = "ended" /\ Ended(o).outcome = o
      /\ Ended(o).misses = 0 /\ Ended(o).last = "none"
  BY DEF Ended, NoPoll
<1> QED
  BY <1>2, <1>3, PollingAssumption DEF CountsOK, Running

LEMMA InitInvariant == Init => IInv
<1> SUFFICES ASSUME Init PROVE IInv
  OBVIOUS
<1>1. Away \in WaiterRecord /\ Away.at = "away" /\ Away.got = "none" /\ NoPoll.at = "none"
  BY DEF Away, WaiterRecord, NoPoll
<1>2. TypeOK
  BY <1>1, NoPollOK DEF Init, TypeOK
<1>3. \A t \in Waiters : CountsOK(poll[t], absent[t])
  BY NoPollOK DEF Init
<1> QED
  BY <1>1, <1>2, <1>3, PollingAssumption DEF Init, IInv, OthersAreNotCancelled

(* A step of a poll that goes on, or ends, with its new counts in order.   *)
LEMMA PollMoves ==
  ASSUME IInv, NEW t \in Waiters, Unfinished(t), NEW r \in PollRecord, NEW n \in Nat,
         r.at # "none", CountsOK(r, n), poll' = [poll EXCEPT ![t] = r],
         absent' = [absent EXCEPT ![t] = n], UNCHANGED <<waiter, registry, closing>>
  PROVE  IInv'
<1>1. TypeOK'
  BY DEF IInv, TypeOK
<1>2. /\ poll'[t] = r /\ absent'[t] = n
      /\ \A u \in Waiters : u # t => poll'[u] = poll[u] /\ absent'[u] = absent[u]
  BY DEF IInv, TypeOK
<1>3. registry = t
  BY DEF IInv, Unfinished
<1>4. \A u \in Waiters : CountsOK(poll[u], absent[u])'
  BY <1>2 DEF IInv, CountsOK
<1> QED
  BY <1>1, <1>2, <1>3, <1>4 DEF IInv, OthersAreNotCancelled

(* The same when no list has been read.                                    *)
LEMMA PollBecomes ==
  ASSUME IInv, NEW t \in Waiters, Unfinished(t), NEW r \in PollRecord,
         r.at # "none", CountsOK(r, absent[t]), Becomes(t, r)
  PROVE  IInv'
<1>1. absent[t] \in Nat /\ absent' = [absent EXCEPT ![t] = absent[t]]
  BY DEF Becomes, IInv, TypeOK
<1> QED
  BY <1>1, PollMoves DEF Becomes

LEMMA PollFacts ==
  ASSUME IInv, NEW t \in Waiters
  PROVE  poll[t] \in PollRecord /\ absent[t] \in Nat /\ CountsOK(poll[t], absent[t])
BY DEF IInv, TypeOK

(* The poll ends without having found the artifact removed.                *)
LEMMA PollEnds ==
  ASSUME IInv, NEW t \in Waiters, Unfinished(t), NEW o \in Outcomes \ {"removed", "cancelled"},
         Becomes(t, Ended(o))
  PROVE  IInv'
BY PollFacts, EndedOK, PollBecomes

LEMMA JudgedOK ==
  ASSUME NEW r \in PollRecord, NEW n \in Nat, r.last \in Answers \cup {"removed"},
         r.last # "removed" => r.misses < 2 * MaxNotFound,
         r.last = "not_found" => r.misses < n,
         r.last = "removed" => n >= MaxNotFound,
         r.outcome = "none"
  PROVE  Judged(r) \in PollRecord /\ Judged(r).at # "none" /\ CountsOK(Judged(r), n)
<1>0. r.misses \in 0 .. 2 * MaxNotFound /\ MaxNotFound \in Nat
  BY PollingAssumption DEF PollRecord
<1>1. CASE r.last \in {"completed", "failed", "removed"}
  BY <1>1, EndedOK DEF Judged, Outcomes
<1>2. CASE r.last = "working"
  <2> DEFINE f == [Found(r) EXCEPT !.at = "sleeping"]
  <2>0. 0 \in 0 .. 2 * MaxNotFound
    BY <1>0
  <2>a. Found(r) \in PollRecord
    BY <2>0 DEF Found, PollRecord
  <2>1. f \in PollRecord
    BY <2>a DEF PollRecord
  <2>2. f.at = "sleeping" /\ f.last = "working" /\ f.misses = 0 /\ f.outcome = "none"
    BY <1>2 DEF Found, PollRecord
  <2>3. CountsOK(f, n)
    BY <2>2, PollingAssumption DEF CountsOK, Running
  <2>4. Judged(r) = WaitsFor(Found(r), "sleeping")
    BY <1>2 DEF Judged
  <2>5. Judged(r) = Ended("timeout") \/ Judged(r) = f
    BY <2>4 DEF WaitsFor
  <2> QED
    BY <2>1, <2>2, <2>3, <2>5, EndedOK DEF Outcomes
<1>3. CASE r.last = "not_found"
  <2> DEFINE m == Missed(r)
  <2> DEFINE g == [m EXCEPT !.at = "telling", !.last = "removed"]
  <2> DEFINE s == [m EXCEPT !.at = "sleeping"]
  <2>1. r.misses + 1 \in 0 .. 2 * MaxNotFound
    BY <1>0, <1>3
  <2>2. m \in PollRecord
    BY <2>1 DEF Missed, PollRecord
  <2>3. m.misses = r.misses + 1 /\ m.last = "not_found" /\ m.outcome = "none"
    BY <1>3 DEF Missed, PollRecord
  <2>4. g \in PollRecord /\ s \in PollRecord
    BY <2>2 DEF PollRecord
  <2>5. /\ g.at = "telling" /\ g.last = "removed" /\ g.outcome = "none"
        /\ s.at = "sleeping" /\ s.last = "not_found" /\ s.outcome = "none"
        /\ s.misses = r.misses + 1
    BY <2>2, <2>3 DEF PollRecord
  <2>6. Judged(r) = IF Gone(m) THEN g ELSE WaitsFor(m, "sleeping")
    BY <1>3 DEF Judged
  <2>7. CASE Gone(m)
    <3>1. m.misses >= MaxNotFound
      BY <1>0, <2>1, <2>3, <2>7 DEF Gone
    <3>2. CountsOK(g, n)
      BY <1>0, <1>3, <2>3, <2>5, <3>1 DEF CountsOK, Running
    <3> QED
      BY <2>4, <2>5, <2>6, <2>7, <3>2
  <2>8. CASE ~Gone(m)
    <3>1. s.misses < 2 * MaxNotFound /\ s.misses <= n
      BY <1>0, <1>3, <2>1, <2>3, <2>5, <2>8 DEF Gone
    <3>2. CountsOK(s, n)
      BY <2>5, <3>1 DEF CountsOK, Running
    <3>3. Judged(r) = Ended("timeout") \/ Judged(r) = s
      BY <2>6, <2>8 DEF WaitsFor
    <3> QED
      BY <2>4, <2>5, <3>2, <3>3, EndedOK DEF Outcomes
  <2> QED
    BY <2>7, <2>8
<1> QED
  BY <1>1, <1>2, <1>3 DEF Answers

(* What is still going on of a poll after a suspension.                    *)
LEMMA WaitsForOK ==
  ASSUME IInv, NEW t \in Waiters, poll[t].at \in Running \ {"telling"},
         NEW e \in 0 .. PollMaxRetries, NEW at \in {"backoff", "asking"},
         Becomes(t, WaitsFor([poll[t] EXCEPT !.errors = e], at))
  PROVE  IInv'
<1> DEFINE r == [[poll[t] EXCEPT !.errors = e] EXCEPT !.at = at]
<1>1. poll[t] \in PollRecord /\ absent[t] \in Nat /\ CountsOK(poll[t], absent[t])
  BY PollFacts
<1>2. r \in PollRecord
  BY <1>1 DEF PollRecord
<1>3. /\ r.at = at /\ r.misses = poll[t].misses /\ r.last = poll[t].last
      /\ r.outcome = poll[t].outcome
  BY <1>1 DEF PollRecord
<1>4. CountsOK(r, absent[t])
  BY <1>1, <1>3 DEF CountsOK, Running
<1>5. Unfinished(t)
  BY DEF Unfinished, Running
<1>6. CASE Becomes(t, Ended("timeout"))
  BY <1>5, <1>6, PollEnds DEF Outcomes
<1>7. CASE Becomes(t, r)
  BY <1>2, <1>3, <1>4, <1>5, <1>7, PollBecomes
<1> QED
  BY <1>6, <1>7 DEF WaitsFor

LEMMA AnswerKeeps ==
  ASSUME IInv, NEW t \in Waiters, NEW a \in Answers, Answer(t, a)
  PROVE  IInv'
<1> DEFINE r == [poll[t] EXCEPT !.last = a, !.errors = 0]
<1> DEFINE s == [r EXCEPT !.at = "telling"]
<1> DEFINE n == IF a = "not_found" THEN absent[t] + 1 ELSE 0
<1>1. /\ poll[t].at = "asking" /\ UNCHANGED <<waiter, registry, closing>>
      /\ poll' = [poll EXCEPT ![t] = IF a = poll[t].last THEN Judged(r) ELSE s]
      /\ absent' = [absent EXCEPT ![t] = n]
  BY DEF Answer
<1>2. poll[t] \in PollRecord /\ absent[t] \in Nat /\ CountsOK(poll[t], absent[t])
  BY PollFacts
<1>3. n \in Nat /\ Unfinished(t)
  BY <1>1, <1>2 DEF Unfinished
<1>a. 0 \in 0 .. PollMaxRetries
  BY PollingAssumption
<1>4. r \in PollRecord
  BY <1>2, <1>a DEF PollRecord
<1>5. /\ r.last = a /\ r.misses = poll[t].misses /\ r.outcome = "none" /\ a \notin {"removed", "none"}
      /\ poll[t].misses < 2 * MaxNotFound /\ poll[t].misses <= absent[t]
  BY <1>1, <1>2 DEF PollRecord, CountsOK, Running, Answers
<1>6. s \in PollRecord
  BY <1>4 DEF PollRecord
<1>7. s.at = "telling" /\ s.last = a /\ s.misses = r.misses /\ s.outcome = "none"
  BY <1>4, <1>5 DEF PollRecord
<1>8. r.misses \in Nat /\ (a = "not_found" => r.misses < n)
  BY <1>2, <1>4, <1>5 DEF PollRecord
<1>9. CountsOK(s, n)
  BY <1>5, <1>7, <1>8 DEF CountsOK, Running
<1>10. CASE a = poll[t].last
  <2>1. Judged(r) \in PollRecord /\ Judged(r).at # "none" /\ CountsOK(Judged(r), n)
    BY <1>3, <1>4, <1>5, <1>8, JudgedOK
  <2> QED
    BY <1>1, <1>3, <1>10, <2>1, PollMoves
<1>11. CASE a # poll[t].last
  BY <1>1, <1>3, <1>6, <1>7, <1>9, <1>11, PollMoves
<1> QED
  BY <1>10, <1>11

LEMMA ToldKeeps ==
  ASSUME IInv, NEW t \in Waiters, Told(t)
  PROVE  IInv'
<1>1. poll[t].at = "telling" /\ Becomes(t, Judged(poll[t])) /\ Unfinished(t)
  BY DEF Told, Unfinished
<1>2. poll[t] \in PollRecord /\ absent[t] \in Nat /\ CountsOK(poll[t], absent[t])
  BY PollFacts
<1>3. poll[t].last \in Answers \cup {"removed"} /\ poll[t].outcome = "none"
  BY <1>1, <1>2 DEF PollRecord, CountsOK, Running
<1>4. /\ Judged(poll[t]) \in PollRecord /\ Judged(poll[t]).at # "none"
      /\ CountsOK(Judged(poll[t]), absent[t])
  BY <1>1, <1>2, <1>3, JudgedOK DEF CountsOK
<1> QED
  BY <1>1, <1>4, PollBecomes

LEMMA CancelPollsKeeps == IInv /\ CancelPolls => IInv'
<1> SUFFICES ASSUME IInv, CancelPolls PROVE IInv'
  OBVIOUS
<1>1. /\ closing' = TRUE /\ UNCHANGED <<waiter, registry, absent>>
      /\ poll' = [t \in Waiters |-> IF registry = t /\ Unfinished(t)
                                    THEN Ended("cancelled") ELSE poll[t]]
  BY DEF CancelPolls
<1>2. Ended("cancelled") \in PollRecord /\ Ended("cancelled").at = "ended"
  BY NoPollOK DEF Ended, PollRecord, Outcomes
<1>3. \A n \in Nat : CountsOK(Ended("cancelled"), n)'
  BY <1>1, PollingAssumption DEF CountsOK, Ended, NoPoll, Running
<1>4. TypeOK'
  BY <1>1, <1>2 DEF IInv, TypeOK
<1>5. ASSUME NEW t \in Waiters PROVE poll'[t].at # "none" <=> registry' = t
  BY <1>1, <1>2 DEF IInv, Unfinished
<1>6. ASSUME NEW t \in Waiters PROVE CountsOK(poll[t], absent[t])'
  <2>1. absent[t] \in Nat /\ absent'[t] = absent[t] /\ CountsOK(poll[t], absent[t])
    BY <1>1, PollFacts
  <2>2. CASE poll'[t] = poll[t]
    BY <1>1, <2>1, <2>2 DEF CountsOK
  <2>3. CASE poll'[t] = Ended("cancelled")
    BY <1>1, <1>3, <2>1, <2>3 DEF CountsOK, Ended
  <2> QED
    BY <1>1, <2>2, <2>3
<1> QED
  BY <1>1, <1>4, <1>5, <1>6 DEF IInv, OthersAreNotCancelled

LEMMA ResolveKeeps ==
  ASSUME IInv, NEW t \in Waiters, ResolvePoll(t)
  PROVE  IInv'
<1>1. /\ poll[t].at = "ended" /\ poll' = [poll EXCEPT ![t] = NoPoll]
      /\ absent' = [absent EXCEPT ![t] = 0] /\ registry' = None /\ closing' = closing
      /\ waiter' = [w \in Waiters |-> IF w \in Awaiting(t)
           THEN [waiter[w] EXCEPT !.at = "woken", !.got = poll[t].outcome] ELSE waiter[w]]
  BY DEF ResolvePoll, Resolve
<1>2. poll[t] \in PollRecord /\ CountsOK(poll[t], absent[t]) /\ registry = t
  BY <1>1, PollFacts DEF IInv
<1>3. ASSUME NEW w \in Waiters
      PROVE  /\ waiter'[w] \in WaiterRecord /\ waiter'[w].at # "waiting"
             /\ waiter'[w].got = "cancelled" => closing
  <2>1. waiter[w] \in WaiterRecord /\ (waiter[w].got = "cancelled" => closing)
    BY DEF IInv, TypeOK, OthersAreNotCancelled
  <2>2. CASE w \in Awaiting(t)
    <3>1. waiter'[w] = [waiter[w] EXCEPT !.at = "woken", !.got = poll[t].outcome]
      BY <1>1, <2>2
    <3>2. poll[t].outcome \in Outcomes \cup {"none"}
      BY <1>2 DEF PollRecord
    <3> QED
      BY <1>2, <2>1, <3>1, <3>2 DEF WaiterRecord, CountsOK
  <2>3. CASE w \notin Awaiting(t)
    BY <1>1, <1>2, <2>1, <2>3 DEF Awaiting, IInv
  <2> QED
    BY <2>2, <2>3
<1>4. TypeOK'
  BY <1>1, <1>3, NoPollOK DEF IInv, TypeOK
<1>5. ASSUME NEW u \in Waiters
      PROVE  poll'[u].at = "none" /\ registry' # u /\ CountsOK(poll[u], absent[u])'
  <2>1. CASE u = t
    <3>1. poll'[u] = NoPoll /\ absent'[u] = 0 /\ CountsOK(NoPoll, 0)
      BY <1>1, <2>1, NoPollOK DEF IInv, TypeOK
    <3>2. NoPoll.at = "none" /\ registry' # u
      BY <1>1, PollingAssumption DEF NoPoll
    <3>3. CountsOK(poll[u], absent[u])'
      BY <1>1, <3>1 DEF CountsOK
    <3> QED
      BY <3>1, <3>2, <3>3
  <2>2. CASE u # t
    <3>1. poll'[u] = poll[u] /\ absent'[u] = absent[u] /\ CountsOK(poll[u], absent[u])
      BY <1>1, <2>2, PollFacts DEF IInv, TypeOK
    <3> QED
      BY <1>1, <1>2, <2>2, <3>1, PollingAssumption DEF IInv, CountsOK
  <2> QED
    BY <2>1, <2>2
<1> QED
  BY <1>1, <1>3, <1>4, <1>5 DEF IInv, OthersAreNotCancelled

LEMMA LeadKeeps ==
  ASSUME IInv, NEW w \in Waiters, Lead(w)
  PROVE  IInv'
<1> DEFINE p == [NoPoll EXCEPT !.at = "created"]
<1> DEFINE r == [Away EXCEPT !.at = "waiting", !.poll = w]
<1>1. /\ registry = None /\ poll' = [poll EXCEPT ![w] = p] /\ registry' = w
      /\ waiter' = [waiter EXCEPT ![w] = r] /\ UNCHANGED <<closing, absent>>
  BY DEF Lead
<1>2. NoPoll \in PollRecord
  BY NoPollOK
<1>3. p \in PollRecord
  BY <1>2 DEF PollRecord
<1>4. p.at = "created" /\ p.last = "none" /\ p.misses = 0 /\ p.outcome = "none"
  BY DEF NoPoll
<1>5. r \in WaiterRecord /\ r.poll = w /\ r.got = "none" /\ w # None
  BY PollingAssumption DEF Away, WaiterRecord
<1>6. TypeOK'
  BY <1>1, <1>3, <1>5 DEF IInv, TypeOK
<1>7. /\ poll'[w] = p /\ waiter'[w] = r
      /\ \A u \in Waiters : u # w => poll'[u] = poll[u] /\ waiter'[u] = waiter[u]
  BY <1>1 DEF IInv, TypeOK
<1>8. ASSUME NEW u \in Waiters PROVE CountsOK(poll[u], absent[u])'
  <2>1. absent[u] \in Nat /\ absent'[u] = absent[u] /\ CountsOK(poll[u], absent[u])
    BY <1>1, PollFacts
  <2> QED
    BY <1>1, <1>4, <1>7, <2>1, PollingAssumption DEF CountsOK, Running
<1>9. \A u \in Waiters : poll'[u].at # "none" <=> registry' = u
  BY <1>1, <1>4, <1>7, PollingAssumption DEF IInv
<1>10. ASSUME NEW u \in Waiters, waiter'[u].at = "waiting"
       PROVE  waiter'[u].poll # None /\ registry' = waiter'[u].poll
  BY <1>1, <1>5, <1>7, <1>10 DEF IInv
<1> QED
  BY <1>1, <1>5, <1>6, <1>7, <1>8, <1>9, <1>10 DEF IInv, OthersAreNotCancelled

(* A caller comes to follow or goes: no poll notices.                      *)
LEMMA WaiterMoves ==
  ASSUME IInv, NEW w \in Waiters, NEW r \in WaiterRecord, r.got = "none",
         r.at = "waiting" => r.poll # None /\ registry = r.poll,
         waiter' = [waiter EXCEPT ![w] = r], UNCHANGED <<poll, registry, closing, absent>>
  PROVE  IInv'
<1>1. TypeOK'
  BY DEF IInv, TypeOK
<1>2. waiter'[w] = r /\ \A u \in Waiters : u # w => waiter'[u] = waiter[u]
  BY DEF IInv, TypeOK
<1>3. \A t \in Waiters : CountsOK(poll[t], absent[t])'
  BY DEF IInv, CountsOK
<1> QED
  BY <1>1, <1>2, <1>3 DEF IInv, OthersAreNotCancelled

LEMMA PollRunsKeeps ==
  ASSUME IInv, NEW t \in Waiters, PollRuns(t)
  PROVE  IInv'
<1>1. poll[t] \in PollRecord /\ absent[t] \in Nat /\ CountsOK(poll[t], absent[t])
  BY PollFacts
<1>2. CASE Begin(t)
  <2> DEFINE r == [poll[t] EXCEPT !.at = "asking"]
  <2>1. poll[t].at = "created" /\ Unfinished(t)
    BY <1>2 DEF Begin, Unfinished
  <2>2. r \in PollRecord
    BY <1>1 DEF PollRecord
  <2>3. r.at = "asking" /\ r.last = poll[t].last /\ r.misses = poll[t].misses
        /\ r.outcome = poll[t].outcome
    BY <1>1 DEF PollRecord
  <2>4. CountsOK(r, absent[t])
    BY <1>1, <2>1, <2>3 DEF CountsOK, Running
  <2>5. Becomes(t, r) \/ Becomes(t, Ended("error"))
    BY <1>2 DEF Begin
  <2> QED
    BY <2>1, <2>2, <2>3, <2>4, <2>5, PollBecomes, PollEnds DEF Outcomes
<1>3. ASSUME NEW a \in Answers, Answer(t, a) PROVE IInv'
  BY <1>3, AnswerKeeps
<1>4. CASE Told(t)
  BY <1>4, ToldKeeps
<1>5. CASE AskFails(t)
  <2>1. poll[t].at = "asking" /\ Unfinished(t)
    BY <1>5 DEF AskFails, Unfinished
  <2>2. CASE poll[t].errors >= PollMaxRetries
    BY <1>5, <2>1, <2>2, PollEnds DEF AskFails, Outcomes
  <2>3. CASE ~(poll[t].errors >= PollMaxRetries)
    <3>1. poll[t].errors + 1 \in 0 .. PollMaxRetries
      BY <1>1, <2>3, PollingAssumption DEF PollRecord
    <3>2. Becomes(t, WaitsFor([poll[t] EXCEPT !.errors = poll[t].errors + 1], "backoff"))
      BY <1>5, <2>3 DEF AskFails
    <3> QED
      BY <2>1, <3>1, <3>2, WaitsForOK DEF Running
  <2> QED
    BY <2>2, <2>3
<1>6. CASE Raises(t)
  BY <1>6, PollEnds DEF Raises, Unfinished, Outcomes
<1>7. CASE Slept(t)
  <2> DEFINE r == [poll[t] EXCEPT !.at = "asking"]
  <2>1. poll[t].at = "sleeping" /\ Unfinished(t) /\ Becomes(t, r)
    BY <1>7 DEF Slept, Unfinished
  <2>2. r \in PollRecord
    BY <1>1 DEF PollRecord
  <2>3. r.at = "asking" /\ r.last = poll[t].last /\ r.misses = poll[t].misses
        /\ r.outcome = poll[t].outcome
    BY <1>1 DEF PollRecord
  <2>4. CountsOK(r, absent[t])
    BY <1>1, <2>1, <2>3 DEF CountsOK, Running
  <2> QED
    BY <2>1, <2>2, <2>3, <2>4, PollBecomes
<1>8. CASE BackoffOver(t)
  <2>1. poll[t].at = "backoff" /\ Becomes(t, WaitsFor(poll[t], "asking"))
    BY <1>8 DEF BackoffOver
  <2>2. [poll[t] EXCEPT !.errors = poll[t].errors] = poll[t] /\ poll[t].errors \in 0 .. PollMaxRetries
    BY <1>1 DEF PollRecord
  <2> QED
    BY <2>1, <2>2, WaitsForOK DEF Running
<1>9. CASE ResolvePoll(t)
  BY <1>9, ResolveKeeps
<1> QED
  BY <1>2, <1>3, <1>4, <1>5, <1>6, <1>7, <1>8, <1>9 DEF PollRuns

(* The clock: neither flag is counted.                                     *)
LEMMA ClockKeeps ==
  ASSUME IInv, NEW t \in Waiters, Deadline(t) \/ WindowOver(t)
  PROVE  IInv'
<1> DEFINE d == [poll[t] EXCEPT !.expired = TRUE]
<1> DEFINE v == [poll[t] EXCEPT !.window = "over"]
<1>1. poll[t] \in PollRecord /\ absent[t] \in Nat /\ CountsOK(poll[t], absent[t])
  BY PollFacts
<1>2. Unfinished(t) /\ (Becomes(t, d) \/ Becomes(t, v))
  BY DEF Deadline, WindowOver
<1>3. d \in PollRecord /\ v \in PollRecord
  BY <1>1 DEF PollRecord
<1>4. \A r \in {d, v} :
        /\ r.at = poll[t].at /\ r.last = poll[t].last /\ r.misses = poll[t].misses
        /\ r.outcome = poll[t].outcome
  BY <1>1 DEF PollRecord
<1>5. \A r \in {d, v} : r.at # "none" /\ CountsOK(r, absent[t])
  BY <1>1, <1>2, <1>4 DEF CountsOK, Running, Unfinished
<1> QED
  BY <1>2, <1>3, <1>5, PollBecomes

-----------------------------------------------------------------------------

(* The invariant holds at every moment.                                    *)
THEOREM PollingInvariant == Spec => []IInv
<1>1. IInv /\ [Next]_vars => IInv'
  <2> SUFFICES ASSUME IInv, [Next]_vars PROVE IInv'
    OBVIOUS
  <2>1. CASE UNCHANGED vars
    <3>1. TypeOK' /\ OthersAreNotCancelled' /\ \A t \in Waiters : CountsOK(poll[t], absent[t])'
      BY <2>1 DEF vars, IInv, TypeOK, OthersAreNotCancelled, CountsOK
    <3> QED
      BY <2>1, <3>1 DEF vars, IInv
  <2>2. ASSUME NEW w \in Waiters, Follow(w) PROVE IInv'
    <3> DEFINE r == [Away EXCEPT !.at = "waiting", !.poll = registry]
    <3>1. registry \in Waiters \cup {None} /\ registry # None
      BY <2>2 DEF Follow, IInv, TypeOK
    <3>2. r \in WaiterRecord /\ r.got = "none" /\ r.poll = registry
      BY <3>1 DEF Away, WaiterRecord
    <3> QED
      BY <2>2, <3>1, <3>2, WaiterMoves DEF Follow
  <2>3. ASSUME NEW w \in Waiters, Lead(w) PROVE IInv'
    BY <2>3, LeadKeeps
  <2>4. ASSUME NEW w \in Waiters, CancelWaiter(w) \/ Resume(w) PROVE IInv'
    <3>1. Away \in WaiterRecord /\ Away.got = "none" /\ Away.at = "away"
      BY DEF Away, WaiterRecord
    <3> QED
      BY <2>4, <3>1, WaiterMoves DEF CancelWaiter, Leaves, Resume
  <2>5. ASSUME NEW w \in Waiters, PollRuns(w) PROVE IInv'
    BY <2>5, PollRunsKeeps
  <2>6. ASSUME NEW w \in Waiters, Deadline(w) \/ WindowOver(w) PROVE IInv'
    BY <2>6, ClockKeeps
  <2>7. CASE CancelPolls
    BY <2>7, CancelPollsKeeps
  <2> QED
    BY <2>1, <2>2, <2>3, <2>4, <2>5, <2>6, <2>7 DEF Next
<1> QED
  BY <1>1, InitInvariant, PTL DEF Spec

(* Every variable of the polls has its type.                               *)
THEOREM PollingTypeOK == Spec => []TypeOK
<1>1. IInv => TypeOK
  BY DEF IInv
<1> QED
  BY <1>1, PollingInvariant, PTL

(* There is one running poll for the artifact, and it is registered.       *)
THEOREM OnePollPerArtifact == Spec => []PollsAreRegistered
<1>1. IInv => PollsAreRegistered
  BY DEF IInv, PollsAreRegistered, Unfinished
<1> QED
  BY <1>1, PollingInvariant, PTL

(* Everybody who waits, waits for a poll that will resolve his future.     *)
THEOREM EveryWaiterIsServed == Spec => []NobodyWaitsInVain
<1>1. IInv => NobodyWaitsInVain
  <2> SUFFICES ASSUME IInv, NEW w \in Waiters, waiter[w].at = "waiting"
               PROVE  /\ waiter[w].poll # None /\ registry = waiter[w].poll
                      /\ Unfinished(waiter[w].poll) \/ poll[waiter[w].poll].at = "ended"
    BY DEF NobodyWaitsInVain
  <2>1. waiter[w].poll # None /\ registry = waiter[w].poll
    BY DEF IInv
  <2>2. waiter[w].poll \in Waiters
    BY <2>1 DEF IInv, TypeOK, WaiterRecord
  <2>3. poll[waiter[w].poll] \in PollRecord /\ poll[waiter[w].poll].at # "none"
    BY <2>1, <2>2 DEF IInv, TypeOK
  <2> QED
    BY <2>1, <2>3 DEF PollRecord, Unfinished
<1> QED
  BY <1>1, PollingInvariant, PTL

(* Before the client closes, nobody gets the cancellation of another.      *)
THEOREM CancellationIsPerCaller == Spec => []OthersAreNotCancelled
<1>1. IInv => OthersAreNotCancelled
  BY DEF IInv
<1> QED
  BY <1>1, PollingInvariant, PTL

(* An artifact that is called removed was missing in MaxNotFound answers   *)
(* in a row.                                                               *)
THEOREM RemovedIsSustained == Spec => []RemovedStayedAbsent
<1>1. IInv => RemovedStayedAbsent
  BY DEF IInv, CountsOK, RemovedStayedAbsent
<1> QED
  BY <1>1, PollingInvariant, PTL

-----------------------------------------------------------------------------
(* The refinement of SharedFlight. *)

Seat(r) == CASE r.at = "away" -> "home" [] r.at = "waiting" -> "aboard"
             [] r.at = "woken" -> "landed"
Seats == [w \in Waiters |-> Seat(waiter[w])]

(* A step that moves one waiter moves his seat. *)
LEMMA SeatMoves ==
  ASSUME IInv, NEW w \in Waiters, NEW r, waiter' = [waiter EXCEPT ![w] = r]
  PROVE  Seats' = [Seats EXCEPT ![w] = Seat(r)]
<1>1. \A v \in Waiters : waiter'[v] = IF v = w THEN r ELSE waiter[v]
  BY DEF IInv, TypeOK
<1>2. Seats' = [v \in Waiters |-> Seat(waiter'[v])]
  BY DEF Seats, Seat
<1>3. Seats = [v \in Waiters |-> Seat(waiter[v])]
  BY DEF Seats
<1> QED
  BY <1>1, <1>2, <1>3

LEMMA BoardStep ==
  ASSUME IInv, NEW w \in Waiters, Follow(w) \/ Lead(w)
  PROVE  Flight!Board(w)
<1> DEFINE r == [Away EXCEPT !.at = "waiting", !.poll = registry']
<1>1. /\ waiter' = [waiter EXCEPT ![w] = r]
      /\ registry' = IF registry = None THEN w ELSE registry
  BY PollingAssumption DEF Follow, Lead
<1>2. Seat(r) = "aboard"
  BY DEF Away, Seat
<1>3. Seats[w] = "home"
  BY DEF Follow, Lead, Seats, Seat
<1>4. Seats' = [Seats EXCEPT ![w] = "aboard"]
  BY <1>1, <1>2, SeatMoves
<1> QED
  BY <1>1, <1>3, <1>4 DEF Flight!Board, Seats, Seat

LEMMA LeaveStep ==
  ASSUME IInv, NEW w \in Waiters, CancelWaiter(w) \/ Resume(w)
  PROVE  Flight!Leave(w)
<1>1. /\ waiter' = [waiter EXCEPT ![w] = Away]
      /\ registry' = registry
      /\ waiter[w].at # "away"
  BY DEF CancelWaiter, Leaves, Resume
<1>2. Seat(Away) = "home"
  BY DEF Away, Seat
<1>3. waiter[w].at \in {"waiting", "woken"}
  BY <1>1 DEF IInv, TypeOK, WaiterRecord
<1>4. Seats[w] # "home"
  BY <1>3 DEF Seats, Seat
<1> QED
  BY <1>1, <1>2, <1>4, SeatMoves DEF Flight!Leave, Seats, Seat

LEMMA LandStep ==
  ASSUME IInv, NEW t \in Waiters, ResolvePoll(t)
  PROVE  Flight!Land
<1>1. registry = t /\ registry # None /\ registry' = None
  BY PollingAssumption DEF IInv, ResolvePoll, Resolve
<1>2. \A w \in Waiters : w \in Awaiting(t) <=> waiter[w].at = "waiting"
  BY <1>1 DEF IInv, Awaiting
<1>3. \A w \in Waiters : waiter'[w].at = IF waiter[w].at = "waiting" THEN "woken"
                                         ELSE waiter[w].at
  <2> SUFFICES ASSUME NEW w \in Waiters
               PROVE  waiter'[w].at = IF waiter[w].at = "waiting" THEN "woken"
                                      ELSE waiter[w].at
    OBVIOUS
  <2>1. waiter[w] \in WaiterRecord
    BY DEF IInv, TypeOK
  <2>2. [waiter[w] EXCEPT !.at = "woken", !.got = poll[t].outcome].at = "woken"
    BY <2>1 DEF WaiterRecord
  <2> QED
    BY <1>2, <2>2 DEF ResolvePoll, Resolve
<1>4. \A w \in Waiters : waiter[w].at \in {"away", "waiting", "woken"}
  BY DEF IInv, TypeOK, WaiterRecord
<1>5. Seats' = [w \in Waiters |-> IF Seats[w] = "aboard" THEN "landed" ELSE Seats[w]]
  BY <1>3, <1>4 DEF Seats, Seat
<1> QED
  BY <1>1, <1>5 DEF Flight!Land, Seats, Seat

(* The shared poll implements SharedFlight, for any number of waiters.     *)
THEOREM PollImplementsFlight == Spec => PollIsShared
<1>1. Init => Flight!Init
  BY DEF Init, Flight!Init, Away
<1>2. IInv /\ [Next]_vars => [Flight!Next]_(Flight!vars)
  <2> SUFFICES ASSUME IInv, [Next]_vars PROVE [Flight!Next]_(Flight!vars)
    OBVIOUS
  <2>1. UNCHANGED <<waiter, registry>> => UNCHANGED Flight!vars
    BY DEF Flight!vars
  <2>2. ASSUME NEW w \in Waiters, Follow(w) \/ Lead(w) PROVE Flight!Next
    BY <2>2, BoardStep DEF Flight!Next
  <2>3. ASSUME NEW w \in Waiters, CancelWaiter(w) \/ Resume(w) PROVE Flight!Next
    BY <2>3, LeaveStep DEF Flight!Next
  <2>4. ASSUME NEW t \in Waiters, PollRuns(t), ~ResolvePoll(t)
        PROVE  UNCHANGED <<waiter, registry>>
    BY <2>4 DEF PollRuns, Begin, Answer, Told, AskFails, Raises, Slept, BackoffOver, Becomes
  <2>5. ASSUME NEW t \in Waiters, ResolvePoll(t) PROVE Flight!Next
    BY <2>5, LandStep DEF Flight!Next
  <2>6. ASSUME NEW t \in Waiters, Deadline(t) \/ WindowOver(t)
        PROVE  UNCHANGED <<waiter, registry>>
    BY <2>6 DEF Deadline, WindowOver, Becomes
  <2>7. CancelPolls \/ UNCHANGED vars => UNCHANGED <<waiter, registry>>
    BY DEF CancelPolls, vars
  <2> QED
    BY <2>1, <2>2, <2>3, <2>4, <2>5, <2>6, <2>7 DEF Next
<1> QED
  BY <1>1, <1>2, PollingInvariant, PTL DEF Spec, PollIsShared, Flight!Spec

===============================================================================
