------------------------- MODULE BoundedMemoryProofs -------------------------
(***************************************************************************)
(* Two memories that are bounded and still have to be right.               *)
(*                                                                         *)
(* The registry of the REST server stays within its cap, and whatever it   *)
(* tracks is in its queue, where the cap can reach it: for any number of   *)
(* ids, polls, retries and deletions, and for any cap.                     *)
(*                                                                         *)
(* The conversation cache of the client (ChatAsk) stays within its limits, has*)
(* Google's order, and no follow-up is posted with what was deleted: for   *)
(* any number of asks, deletions and conversations.                        *)
(***************************************************************************)
EXTENDS PendingRegistry, ChatAsk, TLAPS

PollType == [at : {"idle", "answered"}, id : Ids \cup {None},
             saw : {"none", "nothing", "working", "ready", "failed"},
             reply : {"none", "view", "pending", "404"}]

LEMMA NoPollType == NoPoll \in PollType
BY DEF NoPoll, PollType

-----------------------------------------------------------------------------
(* The queue                                                                *)

Queued(q) == {q[n] : n \in 1 .. Len(q)}

LEMMA QueuedAppend ==
  ASSUME NEW q \in Seq(Ids), NEW i \in Ids
  PROVE  /\ Append(q, i) \in Seq(Ids)
         /\ Len(Append(q, i)) = Len(q) + 1
         /\ \A j \in Queued(q) \cup {i} :
              \E n \in 1 .. Len(q) + 1 : Append(q, i)[n] = j
<1>1. /\ Append(q, i) \in Seq(Ids)
      /\ Len(Append(q, i)) = Len(q) + 1
      /\ Append(q, i)[Len(q) + 1] = i
      /\ \A n \in 1 .. Len(q) : Append(q, i)[n] = q[n]
  OBVIOUS
<1>2. ASSUME NEW j \in Queued(q) \cup {i}
      PROVE  \E n \in 1 .. Len(q) + 1 : Append(q, i)[n] = j
  <2>1. CASE j = i
    BY <1>1, <2>1
  <2>2. CASE j \in Queued(q)
    <3>1. PICK n \in 1 .. Len(q) : q[n] = j
      BY <2>2 DEF Queued
    <3> QED
      BY <1>1, <3>1
  <2> QED
    BY <2>1, <2>2
<1> QED
  BY <1>1, <1>2

LEMMA QueuedTail ==
  ASSUME NEW q \in Seq(Ids), Len(q) > 0
  PROVE  /\ Head(q) \in Ids
         /\ Tail(q) \in Seq(Ids)
         /\ Len(Tail(q)) = Len(q) - 1
         /\ \A n \in 1 .. Len(q) : q[n] # Head(q) => q[n] \in Queued(Tail(q))
<1>1. /\ Head(q) = q[1]
      /\ Head(q) \in Ids
      /\ Tail(q) \in Seq(Ids)
      /\ Len(Tail(q)) = Len(q) - 1
      /\ \A n \in 1 .. Len(q) - 1 : Tail(q)[n] = q[n + 1]
  BY q # <<>>
<1>2. ASSUME NEW n \in 1 .. Len(q), q[n] # Head(q) PROVE q[n] \in Queued(Tail(q))
  <2>1. n - 1 \in 1 .. Len(q) - 1 /\ Tail(q)[n - 1] = q[n]
    BY <1>1, <1>2
  <2> QED
    BY <1>1, <2>1 DEF Queued
<1> QED
  BY <1>1, <1>2

-----------------------------------------------------------------------------
(* The registry *)

RegistryOK ==
  /\ ids \subseteq Ids
  /\ lost \subseteq Ids
  /\ order \in Seq(Ids)
  /\ Len(order) <= MaxEntries
  /\ ids \subseteq Queued(order)

LEMMA RecordKeeps ==
  ASSUME RegistryOK, NEW i \in Ids, Record(i) PROVE RegistryOK'
<1> DEFINE grown == Append(order, i)
<1>1. /\ grown \in Seq(Ids)
      /\ Len(grown) = Len(order) + 1
      /\ \A j \in Queued(order) \cup {i} : \E n \in 1 .. Len(order) + 1 : grown[n] = j
  BY QueuedAppend DEF RegistryOK
<1>0. Len(order) \in Nat /\ MaxEntries \in Nat
  BY RegistryAssumption DEF RegistryOK
<1>2. CASE i \in ids
  BY <1>2 DEF Record, RegistryOK
<1>3. CASE i \notin ids /\ Len(grown) <= MaxEntries
  <2>1. ids' = ids \cup {i} /\ order' = grown /\ lost' = lost \ {i}
    BY <1>0, <1>1, <1>3 DEF Record
  <2>2. ids' \subseteq Queued(grown)
    BY <1>1, <2>1 DEF RegistryOK, Queued
  <2> QED
    BY <1>1, <1>3, <2>1, <2>2 DEF RegistryOK
<1>4. CASE i \notin ids /\ Len(grown) > MaxEntries
  <2>1. /\ ids' = (ids \cup {i}) \ {Head(grown)}
        /\ order' = Tail(grown)
        /\ lost' = (lost \ {i}) \cup ({Head(grown)} \cap (ids \cup {i}))
    BY <1>0, <1>1, <1>4 DEF Record
  <2>2. Len(order) \in Nat /\ Len(grown) > 0
    BY <1>1 DEF RegistryOK
  <2>3. /\ Head(grown) \in Ids
        /\ Tail(grown) \in Seq(Ids)
        /\ Len(Tail(grown)) = Len(grown) - 1
        /\ \A n \in 1 .. Len(grown) : grown[n] # Head(grown) => grown[n] \in Queued(Tail(grown))
    BY <1>1, <2>2, QueuedTail
  <2>4. Len(Tail(grown)) <= MaxEntries
    BY <1>1, <2>2, <2>3, RegistryAssumption DEF RegistryOK
  <2>5. ASSUME NEW j \in ids' PROVE j \in Queued(Tail(grown))
    <3>1. j \in Queued(order) \cup {i} /\ j # Head(grown)
      BY <2>1, <2>5 DEF RegistryOK
    <3>2. PICK n \in 1 .. Len(grown) : grown[n] = j
      BY <1>1, <3>1
    <3> QED
      BY <2>3, <3>1, <3>2
  <2>6. ids' \subseteq Ids /\ lost' \subseteq Ids
    BY <2>1, <2>3 DEF RegistryOK
  <2> HIDE DEF grown
  <2> QED
    BY <2>1, <2>3, <2>4, <2>5, <2>6 DEF RegistryOK
<1> QED
  BY <1>0, <1>1, <1>2, <1>3, <1>4

LEMMA DropKeeps ==
  ASSUME RegistryOK, NEW i \in Ids, Drop(i), UNCHANGED lost PROVE RegistryOK'
BY DEF RegistryOK, Drop

LEMMA SameKeeps ==
  ASSUME RegistryOK, UNCHANGED <<ids, order, lost>> PROVE RegistryOK'
BY DEF RegistryOK

-----------------------------------------------------------------------------
(* The inductive invariant: the registry, and the types of the rest.        *)
RegInv ==
  /\ RegistryOK
  /\ status \in [Ids -> {"unborn", "lagging", "working", "ready", "failed", "gone"}]
  /\ creating \subseteq Ids
  /\ told \subseteq Ids
  /\ served \subseteq Ids
  /\ deleting \subseteq deleted
  /\ deleted \subseteq Sources
  /\ raced \subseteq Ids
  /\ poll \in [Polls -> PollType]
  /\ \A i \in creating \cup told : status[i] # "unborn"
  /\ \A p \in Polls : poll[p].at = "answered" =>
                         poll[p].id \in told /\ poll[p].reply = "none"

(* Google's own steps and the creates leave the registry and the polls alone*)
LEMMA GoogleKeeps ==
  ASSUME RegInv, NEW i \in Ids, Create(i) \/ Retry(i) \/ Progress(i) PROVE RegInv'
<1>1. RegistryOK'
  BY SameKeeps DEF Create, Retry, Progress, RegInv
<1> QED
  BY <1>1 DEF Create, Retry, Progress, Called, RegInv, callers

LEMMA CreatedKeeps == ASSUME RegInv, NEW i \in Ids, Created(i) PROVE RegInv'
<1>1. RegistryOK'
  BY RecordKeeps DEF Created, Reply, RegInv
<1> QED
  BY <1>1 DEF Created, Reply, RegInv

LEMMA ReplyLostKeeps == ASSUME RegInv, NEW i \in Ids, ReplyLost(i) PROVE RegInv'
BY DEF ReplyLost, RegInv, RegistryOK, callers

LEMMA DeleteKeeps ==
  ASSUME RegInv, NEW i \in Ids, Delete(i) \/ DeleteReturns(i) PROVE RegInv'
<1>1. RegistryOK'
  BY DropKeeps, SameKeeps DEF Delete, DeleteReturns, RegInv
<1>2. /\ UNCHANGED <<creating, poll, told, served, raced>>
      /\ deleting' \subseteq deleted' /\ deleted' \subseteq Sources
  BY DEF Delete, DeleteReturns, RegInv, callers
<1>3. UNCHANGED status \/ status' = [status EXCEPT ![i] = "gone"]
  BY DEF Delete, DeleteReturns
<1> QED
  BY <1>1, <1>2, <1>3 DEF RegInv

LEMMA AnswerKeeps ==
  ASSUME RegInv, NEW p \in Polls, NEW i \in Ids, Answer(p, i) PROVE RegInv'
<1>1. RegistryOK'
  BY SameKeeps DEF Answer, RegInv, callers
<1>2. /\ UNCHANGED <<status, creating, deleting, told, served, deleted>>
      /\ raced' \subseteq Ids /\ i \in told
  BY DEF Answer, Called, RegInv, callers
<1>3. PICK saw \in {"nothing"} \cup ({status[i]} \ {"lagging", "gone"}) :
        poll' = [poll EXCEPT ![p] =
                   [NoPoll EXCEPT !.at = "answered", !.id = i, !.saw = saw]]
  BY DEF Answer
<1>4. saw \in {"nothing", "working", "ready", "failed"}
  BY <1>2, <1>3 DEF RegInv
<1> DEFINE rec == [NoPoll EXCEPT !.at = "answered", !.id = i, !.saw = saw]
<1>5. rec \in PollType /\ rec.id = i /\ rec.reply = "none"
  BY <1>4 DEF NoPoll, PollType
<1> HIDE DEF rec
<1> QED
  BY <1>1, <1>2, <1>3, <1>5 DEF RegInv, rec

LEMMA PollReturnsKeeps == ASSUME RegInv, NEW p \in Polls, PollReturns(p) PROVE RegInv'
<1>1. poll[p].at = "answered" /\ poll[p].id \in Ids /\ poll[p] \in PollType
  BY DEF PollReturns, RegInv
<1>2. RegistryOK'
  BY <1>1, DropKeeps, SameKeeps DEF PollReturns, RegInv
<1>3. PICK reply \in {"view", "pending", "404"} :
        poll' = [poll EXCEPT ![p] = [NoPoll EXCEPT !.reply = reply]]
  BY DEF PollReturns
<1>4. [NoPoll EXCEPT !.reply = reply] \in PollType
      /\ [NoPoll EXCEPT !.reply = reply].at = "idle"
  BY DEF NoPoll, PollType
<1>5. /\ UNCHANGED <<status, creating, deleting, told, deleted, raced>>
      /\ served' \subseteq Ids
  BY <1>1 DEF PollReturns, RegInv
<1> DEFINE rec == [NoPoll EXCEPT !.reply = reply]
<1> HIDE DEF rec
<1> QED
  BY <1>2, <1>3, <1>4, <1>5 DEF RegInv, rec

LEMMA RestartKeeps == ASSUME RegInv, Restart PROVE RegInv'
<1>1. RegistryOK'
  BY RegistryAssumption DEF Restart, RegInv, RegistryOK, Queued
<1> QED
  BY <1>1, NoPollType DEF Restart, NoPoll, RegInv, callers

(* The invariant holds in every state. *)
THEOREM RegistryInvariant == Spec => []RegInv
<1>1. Init => RegInv
  BY NoPollType, RegistryAssumption DEF Init, RegInv, RegistryOK, Queued, NoPoll
<1>2. RegInv /\ [Next]_vars => RegInv'
  <2> SUFFICES ASSUME RegInv, [Next]_vars PROVE RegInv'
    OBVIOUS
  <2>1. CASE UNCHANGED vars
    BY <2>1, SameKeeps DEF vars, callers, RegInv
  <2> QED
    BY <2>1, GoogleKeeps, CreatedKeeps, ReplyLostKeeps, DeleteKeeps, AnswerKeeps, PollReturnsKeeps,
       RestartKeeps DEF Next
<1> QED
  BY <1>1, <1>2, PTL DEF Spec

(* Every variable has its type, and the queue never outgrows its cap.       *)
THEOREM RegistryTypeOK == Spec => []TypeOK
<1>1. RegInv => TypeOK
  BY DEF RegInv, RegistryOK, TypeOK, PollType, Ids
<1> QED
  BY <1>1, RegistryInvariant, PTL

(* Whatever the registry tracks is in its queue: the cap can evict it.      *)
THEOREM TrackedIsEvictable == Spec => []TrackedIsQueued
<1>1. RegInv => TrackedIsQueued
  BY DEF RegInv, RegistryOK, TrackedIsQueued, Queued
<1> QED
  BY <1>1, RegistryInvariant, PTL

-----------------------------------------------------------------------------
(* Why a poll that is alone does not answer 404: what a caller knows of is  *)
(* tracked or known to be lost, unless its deletion was asked for, it is    *)
(* gone, or its end was served.                                             *)

Under(p, i) == poll[p].at = "answered" /\ poll[p].id = i

Known(i) == i \in ids \/ i \in lost

Settled(i) ==
  \/ i \in deleted \/ status[i] = "gone"
  \/ i \in served /\ status[i] \in Terminal(i)

MemoryOK ==
  /\ \A i \in told \ (creating \cup raced) : Known(i) \/ Settled(i)
  (* what a poll saw finished has stayed so *)
  /\ \A p \in Polls : \A i \in Ids \ raced :
       Under(p, i) /\ poll[p].saw \in Terminal(i) =>
         status[i] = poll[p].saw \/ status[i] = "gone"
  (* overlapping calls are recorded *)
  /\ \A p, q \in Polls : \A i \in Ids \ raced : Under(p, i) /\ Under(q, i) => p = q
  /\ \A p \in Polls : \A i \in Ids \ raced : Under(p, i) => i \notin creating

LEMMA RecordKnows ==
  ASSUME RegInv, NEW i \in Ids, Record(i)
  PROVE  \A j \in Ids : (j = i \/ Known(j)) => Known(j)'
BY DEF Record, Known

LEMMA MemoryOfCreate ==
  ASSUME RegInv, MemoryOK, NEW i \in Ids, Create(i) PROVE MemoryOK'
BY DEF Create, callers, RegInv, MemoryOK, Under, Known, Settled, Terminal

LEMMA MemoryOfRetry ==
  ASSUME RegInv, MemoryOK, NEW i \in Ids, Retry(i) PROVE MemoryOK'
<1>1. raced \subseteq raced' /\ ((\E p \in Polls : Under(p, i)) => i \in raced')
  BY DEF Retry, Called, Under
<1>2. /\ status' = [status EXCEPT ![i] = "lagging"]
      /\ creating' = creating \cup {i}
      /\ served' = served \ {i}
      /\ UNCHANGED <<ids, order, poll, told, deleted, lost>>
  BY DEF Retry
<1> QED
  BY <1>1, <1>2 DEF RegInv, MemoryOK, Under, Known, Settled

LEMMA MemoryOfProgress ==
  ASSUME RegInv, MemoryOK, NEW i \in Ids, Progress(i) PROVE MemoryOK'
<1>1. /\ \E s \in {"working", "ready", "failed"} : status' = [status EXCEPT ![i] = s]
      /\ status[i] \in {"lagging", "working"}
      /\ UNCHANGED <<creating, ids, order, poll, told, served, deleted, lost, raced>>
  BY DEF Progress, callers
<1>2. \A j \in Ids : status[j] \in {"gone", "ready", "failed"} => status'[j] = status[j]
  BY <1>1 DEF RegInv
<1>3. \A j \in Ids : (Known(j)' <=> Known(j)) /\ (Settled(j) => Settled(j)')
  BY <1>1, <1>2 DEF Known, Settled, Terminal
<1>4. \A j \in told' \ (creating' \cup raced') : Known(j)' \/ Settled(j)'
  BY <1>1, <1>3 DEF RegInv, MemoryOK
<1>5. \A p \in Polls : \A j \in Ids : Under(p, j)' <=> Under(p, j)
  BY <1>1 DEF Under
<1>6. \A p \in Polls : \A j \in Ids \ raced' :
        Under(p, j)' /\ poll'[p].saw \in Terminal(j)' =>
          status'[j] = poll'[p].saw \/ status'[j] = "gone"
  BY <1>1, <1>2, <1>5 DEF MemoryOK, Terminal
<1> QED
  BY <1>1, <1>4, <1>5, <1>6 DEF MemoryOK

LEMMA MemoryOfCreated ==
  ASSUME RegInv, MemoryOK, NEW i \in Ids, Created(i) PROVE MemoryOK'
<1>1. \A j \in Ids : (j = i \/ Known(j)) => Known(j)'
  BY RecordKnows DEF Created, Reply
<1>2. /\ creating' = creating \ {i}
      /\ told' = told \cup {i}
      /\ UNCHANGED <<status, poll, served, deleted, raced>>
  BY DEF Created, Reply
<1> QED
  BY <1>1, <1>2 DEF RegInv, MemoryOK, Under, Settled

LEMMA MemoryOfReplyLost ==
  ASSUME RegInv, MemoryOK, NEW i \in Ids, ReplyLost(i) PROVE MemoryOK'
<1>1. /\ creating' = creating \ {i}
      /\ lost' = lost \cup {i}
      /\ UNCHANGED <<status, ids, poll, told, served, deleted, raced>>
  BY DEF ReplyLost, callers
<1> QED
  BY <1>1 DEF RegInv, MemoryOK, Under, Known, Settled

LEMMA MemoryOfAnswer ==
  ASSUME RegInv, MemoryOK, NEW p \in Polls, NEW i \in Ids, Answer(p, i) PROVE MemoryOK'
<1>1. /\ UNCHANGED <<status, creating, ids, order, told, served, deleted, lost>>
      /\ i \in told /\ poll[p].at = "idle"
  BY DEF Answer, callers
<1>2. /\ poll'[p].at = "answered" /\ poll'[p].id = i
      /\ poll'[p].saw \in {"nothing", status[i]}
      /\ \A q \in Polls : q # p => poll'[q] = poll[q]
  BY DEF Answer, NoPoll, RegInv
<1>3. /\ raced \subseteq raced'
      /\ i \in creating \/ (\E q \in Polls : Under(q, i)) => i \in raced'
  BY DEF Answer, Called, Under
<1>4. \A q \in Polls : \A j \in Ids :
        Under(q, j)' <=> IF q = p THEN j = i ELSE Under(q, j)
  BY <1>2 DEF Under
<1>5. \A j \in Ids : (Known(j)' <=> Known(j)) /\ (Settled(j)' <=> Settled(j))
  BY <1>1 DEF Known, Settled
<1>6. \A j \in told' \ (creating' \cup raced') : Known(j)' \/ Settled(j)'
  BY <1>1, <1>3, <1>5 DEF RegInv, MemoryOK
<1>7. ASSUME NEW q \in Polls, NEW j \in Ids \ raced', Under(q, j)'
      PROVE  /\ poll'[q].saw \in Terminal(j) =>
                   status'[j] = poll'[q].saw \/ status'[j] = "gone"
             /\ j \notin creating'
  <2>1. CASE q = p
    BY <1>1, <1>2, <1>3, <1>4, <1>7, <2>1 DEF Terminal
  <2>2. CASE q # p
    BY <1>1, <1>2, <1>3, <1>4, <1>7, <2>2 DEF RegInv, MemoryOK
  <2> QED
    BY <2>1, <2>2
<1>8. \A q, r \in Polls : \A j \in Ids \ raced' : Under(q, j)' /\ Under(r, j)' => q = r
  BY <1>3, <1>4 DEF MemoryOK
<1> QED
  BY <1>6, <1>7, <1>8 DEF MemoryOK

(* A poll drops its id only when it saw it finished, and then serves that.  *)
LEMMA MemoryOfReturn ==
  ASSUME RegInv, MemoryOK, NEW p \in Polls, PollReturns(p) PROVE MemoryOK'
<1>0. PICK i \in Ids : poll[p].id = i
  BY DEF PollReturns, RegInv
<1>1. /\ UNCHANGED <<status, creating, told, deleted, lost, raced>>
      /\ Under(p, i)
  BY <1>0 DEF PollReturns, Under, RegInv
<1>2. \A q \in Polls : \A j \in Ids :
        /\ Under(q, j)' <=> q # p /\ Under(q, j)
        /\ q # p => poll'[q] = poll[q]
  BY DEF PollReturns, NoPoll, Under, RegInv
<1>3. \/ poll[p].saw \in Terminal(i) /\ ids' = ids \ {i} /\ served' = served \cup {i}
      \/ UNCHANGED <<ids, served>>
  BY <1>0 DEF PollReturns, Drop
<1>4. \A j \in Ids \ {i} : (Known(j)' <=> Known(j)) /\ (Settled(j)' <=> Settled(j))
  BY <1>1, <1>3 DEF Known, Settled
<1>5. i \notin raced => (Known(i) \/ Settled(i) => Known(i)' \/ Settled(i)')
  <2>1. CASE UNCHANGED <<ids, served>>
    BY <1>1, <2>1 DEF Known, Settled, Terminal
  <2>2. CASE poll[p].saw \in Terminal(i) /\ ids' = ids \ {i} /\ served' = served \cup {i}
    BY <1>1, <2>2 DEF MemoryOK, Settled
  <2> QED
    BY <1>3, <2>1, <2>2
<1>6. \A j \in told' \ (creating' \cup raced') : Known(j)' \/ Settled(j)'
  BY <1>1, <1>4, <1>5 DEF RegInv, MemoryOK
<1>7. \A q \in Polls : \A j \in Ids \ raced' :
        Under(q, j)' /\ poll'[q].saw \in Terminal(j) =>
          status'[j] = poll'[q].saw \/ status'[j] = "gone"
  BY <1>1, <1>2 DEF MemoryOK
<1> QED
  BY <1>1, <1>2, <1>6, <1>7 DEF MemoryOK, Terminal

LEMMA MemoryOfDelete ==
  ASSUME RegInv, MemoryOK, NEW i \in Ids, Delete(i) PROVE MemoryOK'
<1>1. /\ UNCHANGED status \/ status' = [status EXCEPT ![i] = "gone"]
      /\ UNCHANGED <<creating, ids, poll, told, served, lost, raced>>
      /\ deleted \subseteq deleted'
  BY DEF Delete
<1>2. \A j \in Ids : (Known(j)' <=> Known(j)) /\ (Settled(j) => Settled(j)')
  BY <1>1 DEF RegInv, Known, Settled
<1> QED
  BY <1>1, <1>2 DEF RegInv, MemoryOK, Under

LEMMA MemoryOfDeleteReturns ==
  ASSUME RegInv, MemoryOK, NEW i \in Ids, DeleteReturns(i) PROVE MemoryOK'
<1>1. /\ UNCHANGED <<status, creating, poll, told, served, deleted, lost, raced>>
      /\ i \in deleted
      /\ \A j \in Ids \ {i} : j \in ids' <=> j \in ids
  BY DEF DeleteReturns, Drop, callers, RegInv
<1>2. \A j \in Ids : Known(j) \/ Settled(j) => Known(j)' \/ Settled(j)'
  BY <1>1 DEF Known, Settled
<1> QED
  BY <1>1, <1>2 DEF RegInv, MemoryOK, Under, Terminal

(* What a restart forgets is known to be lost.                              *)
LEMMA MemoryOfRestart == ASSUME RegInv, MemoryOK, Restart PROVE MemoryOK'
<1>1. /\ creating' = {} /\ lost' = lost \cup ids \cup creating
      /\ UNCHANGED <<status, told, served, deleted, raced>>
      /\ \A p \in Polls : poll'[p].at = "idle"
  BY DEF Restart, NoPoll, callers
<1>2. \A j \in Ids : Known(j) \/ j \in creating => Known(j)'
  BY <1>1 DEF Known
<1>3. \A j \in Ids : Settled(j)' <=> Settled(j)
  BY <1>1 DEF Settled, Terminal
<1>4. \A j \in told' \ (creating' \cup raced') : Known(j)' \/ Settled(j)'
  BY <1>1, <1>2, <1>3 DEF RegInv, MemoryOK
<1>5. \A p \in Polls : \A j : ~ Under(p, j)'
  BY <1>1 DEF Under
<1> QED
  BY <1>4, <1>5 DEF MemoryOK

(* What this server created stays "pending" until a caller was told its end,*)
(* though the list comes and goes: a poll that was alone answers 404 only   *)
(* for what is gone, was to be deleted, has ended or was lost.              *)
THEOREM PendingIsRemembered == Spec => NoSpurious404
<1>1. Init => MemoryOK
  BY DEF Init, MemoryOK, Under, NoPoll
<1>2. RegInv /\ MemoryOK /\ [Next]_vars => MemoryOK'
  <2> SUFFICES ASSUME RegInv, MemoryOK, [Next]_vars PROVE MemoryOK'
    OBVIOUS
  <2>1. CASE UNCHANGED vars
    BY <2>1 DEF vars, callers, MemoryOK, Under, Known, Settled
  <2> QED
    BY <2>1, MemoryOfCreate, MemoryOfRetry, MemoryOfProgress, MemoryOfCreated,
       MemoryOfReplyLost, MemoryOfAnswer, MemoryOfReturn, MemoryOfDelete,
       MemoryOfDeleteReturns, MemoryOfRestart DEF Next
<1>3. Spec => []MemoryOK
  BY <1>1, <1>2, RegistryInvariant, PTL DEF Spec
<1>4. RegInv /\ MemoryOK /\ [Next]_vars =>
        \A p \in Polls : poll'[p].reply = "404" /\ poll[p].at = "answered" =>
          LET i == poll[p].id IN
          \/ status[i] = "gone" \/ i \in deleted
          \/ i \in served /\ status[i] \in Terminal(i)
          \/ i \in lost \/ i \in raced
  <2> SUFFICES ASSUME RegInv, MemoryOK, [Next]_vars, NEW p \in Polls,
                      poll'[p].reply = "404", poll[p].at = "answered",
                      poll[p].id \notin raced, poll[p].id \notin lost
               PROVE  Settled(poll[p].id)
    BY DEF Settled
  <2>1. poll'[p] # poll[p] /\ poll[p].id \in Ids /\ poll[p].id \in told
    BY DEF RegInv
  <2>2. PollReturns(p) \/ Restart
    BY <2>1 DEF Next, vars, Create, Retry, Progress, Created, Reply, ReplyLost, Delete,
                DeleteReturns, Answer, PollReturns, RegInv
  <2>3. CASE Restart
    BY <2>3 DEF Restart, NoPoll
  <2>4. CASE PollReturns(p)
    <3>1. poll[p].saw = "nothing" /\ poll[p].id \notin ids
      BY <2>1, <2>4 DEF PollReturns, NoPoll, RegInv
    <3> QED
      BY <2>1, <3>1 DEF MemoryOK, Under, Known
  <2> QED
    BY <2>2, <2>3, <2>4
<1> QED
  BY <1>3, <1>4, RegistryInvariant, PTL DEF Spec, NoSpurious404

-----------------------------------------------------------------------------
(* The asks (ChatAsk)                                                      *)

Stages == {"idle", "waiting", "sent", "answered", "caching", "done", "failed"}

ChatTyped ==
  /\ at \in [Calls -> Stages] /\ conv \in [Calls -> Convs \cup {NoConv}]
  /\ null \subseteq Asks /\ net \subseteq Calls /\ gone \subseteq Asks
  /\ moved \subseteq null /\ unsure \subseteq gone
  /\ stale \in [Calls -> 0 .. replays] /\ replays \in 0 .. MaxReplays /\ late \subseteq Calls
  /\ hist \in [Asks -> SUBSET Asks]
  /\ current \in Convs \cup {NoConv} /\ others \in 0 .. MaxOthers
  /\ notebookLock \in Seq(Calls) /\ convLock \in [Convs -> Seq(Calls)]
  /\ turns \in [Convs -> Seq(Asks)] /\ log \in [Convs -> Seq(Asks)]

CacheOK ==
  /\ lru \in Seq(Convs) /\ Len(lru) <= MaxConvs /\ IsInjective(lru)
  /\ \A c \in Convs :
       Len(turns[c]) <= MaxTurns /\ (Contains(lru, c) <=> turns[c] # <<>>)

(* Where a call is and what it knows of its conversation.                  *)
StagesOK ==
  \A k \in Calls :
    /\ at[k] = "idle" => conv[k] = NoConv /\ k \notin null
    /\ at[k] \notin {"idle", "failed"} /\ k \notin null
         => conv[k] # NoConv /\ at[k] \in {"waiting", "sent", "done"}
    /\ at[k] \in {"waiting", "sent", "answered"} /\ k \in null => conv[k] = NoConv
    /\ at[k] \in {"caching", "done"} => conv[k] # NoConv
    /\ k \in net => at[k] \in {"sent", "failed"}
    /\ k \in late => at[k] \notin {"idle", "waiting"}
    /\ k \notin null /\ k \in net \cup late => conv[k] # NoConv
    /\ stale[k] > 0 => k \in late

(* The head of a queue holds the lock.                                     *)
First(s, k) == s # <<>> /\ Head(s) = k

(* Who has posted holds its lock until the answer has been dealt with.     *)
Holding == \A k \in Calls : at[k] \in {"sent", "answered"} => First(Queue(conv[k]), k)

(* Who waits for a lock is in its queue.                                   *)
Awaiting ==
  \A k \in Calls :
    at[k] \in {"waiting", "caching"} => Contains(Queue(conv[k]), k)

(* Who is in the queue of a conversation belongs there.                    *)
Queuing ==
  \A c \in Convs : \A k : Contains(convLock[c], k) => k \in Calls /\ conv[k] = c

LocksOK == Holding /\ Awaiting /\ Queuing

(* What Google has executed was posted, to its own conversation.           *)
LoggedOK ==
  \A c \in Convs : \A a : Contains(log[c], a) =>
    /\ a \in Asks /\ at[a] \notin {"idle", "waiting"}
    /\ a \notin null => conv[a] = c

(* What is cached was answered in that conversation.                       *)
CachedOK ==
  \A c \in Convs : \A a : Contains(turns[c], a) =>
    a \in Asks /\ at[a] = "done" /\ conv[a] = c

(* An answered ask was executed where its caller believes it was; a null   *)
(* ask, unless the most recent conversation has changed meanwhile.         *)
FollowUpsLogged ==
  \A a \in Asks \ null :
    at[a] \in {"sent", "done"} /\ a \notin net => Contains(log[conv[a]], a)

NullsLogged ==
  \A a \in null \ moved :
    /\ at[a] \in {"sent", "answered"} /\ a \notin net
         => current # NoConv /\ Contains(log[current], a)
    /\ at[a] \in {"caching", "done"} => Contains(log[conv[a]], a)

ExecutedOK == LoggedOK /\ CachedOK /\ FollowUpsLogged /\ NullsLogged

(* Google has no b before an a.                                            *)
NotAfter(a, b) == \A c \in Convs : ~Before(log[c], b, a)

(* What was answered, or queues earlier, is not after what is still to be  *)
(* answered, or queues later, unless an earlier request of it is still on  *)
(* its way.                                                                *)
FollowUpOrder ==
  \A a, b \in Asks \ null :
    at[a] = "done" /\ a \notin late /\ at[b] = "sent" => NotAfter(a, b)

NullOrder ==
  \A a, b \in null :
    at[a] \in {"caching", "done"} /\ a \notin late /\ at[b] \in {"sent", "answered"}
      => NotAfter(a, b)

QueueOrder ==
  \A c \in Convs, a, b \in null :
    /\ at[a] = "caching" /\ at[b] = "caching" /\ Before(convLock[c], a, b)
    /\ a # b /\ a \notin late
    => NotAfter(a, b)

CacheOrder ==
  \A c \in Convs, a, b \in null :
    Contains(turns[c], a) /\ a \notin late /\ at[b] = "caching" /\ conv[b] = c
      => NotAfter(a, b)

OrderOK == FollowUpOrder /\ NullOrder /\ QueueOrder /\ CacheOrder

(* A posted follow-up has with it all that is cached of its conversation.  *)
LineageOK ==
  \A b \in Asks \ null : at[b] = "sent" =>
    \A a : Contains(turns[conv[b]], a) => a \in hist[b]

(* The deleted follow-up turns of which this client knows that they are.   *)
Told == gone \ (null \cup unsure)

(* A delete of c is still to be answered.                                  *)
Deleting(c) == \E d \in Deletes : at[d] = "sent" /\ conv[d] = c

(* Once a delete is answered nothing of before is cached, or is in a history*)
(* that is still to be executed.                                           *)
GoneLogged == \A a \in gone : \E c \in Convs : Contains(log[c], a)

CacheTold ==
  \A c \in Convs : ~Deleting(c) => \A a : Contains(turns[c], a) => a \notin Told

HistoryTold ==
  \A b \in Asks \ null : at[b] = "sent" =>
    /\ b \notin Told /\ hist[b] \cap Told = {}
    /\ \A a \in hist[b] \ null : conv[a] = conv[b] /\ at[a] = "done"

DeletedOK == GoneLogged /\ CacheTold /\ HistoryTold

(* The inductive invariant.                                                *)
ChatInv ==
  /\ ChatTyped /\ CacheOK /\ StagesOK /\ LocksOK /\ ExecutedOK /\ OrderOK
  /\ LineageOK /\ DeletedOK /\ CachedInServerOrder /\ Lineage

-----------------------------------------------------------------------------
(* Sequences *)

(* In a sequence: somebody joins it at its end, or leaves it.              *)
JoinedBy(t, s, k) ==
  /\ \A x : Contains(t, x) <=> Contains(s, x) \/ x = k
  /\ \A x : First(s, x) => First(t, x)
  /\ \A x, y : Before(t, x, y) <=> Before(s, x, y) \/ (Contains(s, x) /\ y = k)

LeftBy(t, s, k) ==
  /\ \A x : Contains(t, x) => Contains(s, x)
  /\ \A x : x # k /\ Contains(s, x) => Contains(t, x)
  /\ \A x : x # k /\ First(s, x) => First(t, x)
  /\ \A x, y : Before(t, x, y) => Before(s, x, y)

(* Who joins a sequence is its last member, behind all the others.         *)
LEMMA Joining ==
  ASSUME NEW S, NEW s \in Seq(S), NEW k \in S
  PROVE  Append(s, k) \in Seq(S) /\ JoinedBy(Append(s, k), s, k)
<1>1. /\ Append(s, k) \in Seq(S) /\ Len(Append(s, k)) = Len(s) + 1 /\ Len(s) \in Nat
      /\ \A i \in 1 .. Len(s) : Append(s, k)[i] = s[i]
      /\ Append(s, k)[Len(s) + 1] = k
  OBVIOUS
<1>2. \A x : Contains(Append(s, k), x) <=> Contains(s, x) \/ x = k
  BY DEF Contains
<1>3. \A x : First(s, x) => First(Append(s, k), x)
  BY DEF First
<1>4. \A x, y : Before(Append(s, k), x, y)
                  <=> Before(s, x, y) \/ (Contains(s, x) /\ y = k)
  BY <1>1 DEF Before, Contains
<1> QED
  BY <1>2, <1>3, <1>4 DEF JoinedBy

(* What is left when one member is removed.                                *)
LEMMA RemoveAtIs ==
  ASSUME NEW S, NEW s \in Seq(S), NEW i \in 1 .. Len(s)
  PROVE  /\ RemoveAt(s, i) \in Seq(S)
         /\ Len(RemoveAt(s, i)) = Len(s) - 1
         /\ \A n \in 1 .. Len(s) - 1 :
              RemoveAt(s, i)[n] = IF n < i THEN s[n] ELSE s[n + 1]
<1> DEFINE p == SubSeq(s, 1, i - 1)
           q == SubSeq(s, i + 1, Len(s))
<1>1. /\ p \in Seq(S) /\ Len(p) = i - 1 /\ \A n \in 1 .. i - 1 : p[n] = s[n]
  OBVIOUS
<1>2. /\ q \in Seq(S) /\ Len(q) = Len(s) - i /\ \A n \in 1 .. Len(s) - i : q[n] = s[i + n]
  OBVIOUS
<1>3. RemoveAt(s, i) = p \o q
  BY DEF RemoveAt
<1> HIDE DEF p, q
<1>4. p \o q \in Seq(S) /\ Len(p \o q) = Len(s) - 1
  <2>1. p \in Seq(S) /\ q \in Seq(S)
    BY <1>1, <1>2
  <2>3. p \o q \in Seq(S) /\ Len(p \o q) = Len(p) + Len(q)
    BY ONLY <2>1
  <2>2. Len(s) \in Nat
    OBVIOUS
  <2> QED
    BY <1>1, <1>2, <2>3
<1>5. ASSUME NEW n \in 1 .. Len(s) - 1
      PROVE  (p \o q)[n] = IF n < i THEN s[n] ELSE s[n + 1]
  <2>1. n \in 1 .. Len(p) + Len(q)
    BY <1>1, <1>2
  <2>2. (p \o q)[n] = IF n <= Len(p) THEN p[n] ELSE q[n - Len(p)]
    BY <2>1
  <2>3. CASE n < i
    BY <1>1, <2>2, <2>3
  <2>4. CASE ~(n < i)
    <3>1. n - (i - 1) \in 1 .. Len(s) - i /\ i + (n - (i - 1)) = n + 1
      BY <2>4
    <3>2. q[n - (i - 1)] = s[n + 1]
      BY <1>2, <3>1
    <3> QED
      BY <1>1, <2>2, <3>2
  <2> QED
    BY <2>3, <2>4
<1> QED
  BY <1>3, <1>4, <1>5

(* Who leaves a sequence changes nothing in the order of the others.       *)
LEMMA Leaving ==
  ASSUME NEW S, NEW s \in Seq(S), NEW k
  PROVE  /\ Without(s, k) \in Seq(S) /\ LeftBy(Without(s, k), s, k)
         /\ Len(Without(s, k)) \in {Len(s), Len(s) - 1}
         /\ Contains(s, k) => Len(Without(s, k)) = Len(s) - 1
<1>1. CASE ~Contains(s, k)
  BY <1>1 DEF Without, LeftBy
<1>2. CASE Contains(s, k)
  <2> DEFINE i == CHOOSE n \in 1 .. Len(s) : s[n] = k
             t == RemoveAt(s, i)
  <2>1. i \in 1 .. Len(s) /\ s[i] = k
    BY <1>2 DEF Contains
  <2>2. Without(s, k) = t
    BY <1>2 DEF Without
  <2> HIDE DEF i
  <2>3. /\ t \in Seq(S) /\ Len(t) = Len(s) - 1 /\ Len(s) \in Nat
        /\ \A n \in 1 .. Len(s) - 1 : t[n] = IF n < i THEN s[n] ELSE s[n + 1]
    BY <2>1, RemoveAtIs
  <2> HIDE DEF t
  <2>4. \A x : Contains(t, x) => Contains(s, x)
    BY <2>1, <2>3 DEF Contains
  <2>5. ASSUME NEW x, x # k, Contains(s, x) PROVE Contains(t, x)
    <3>1. PICK n \in 1 .. Len(s) : s[n] = x
      BY <2>5 DEF Contains
    <3>2. n # i
      BY <2>1, <2>5, <3>1
    <3>3. CASE n < i
      BY <2>1, <2>3, <3>1, <3>3 DEF Contains
    <3>4. CASE n > i
      <4>1. n - 1 \in 1 .. Len(s) - 1 /\ ~(n - 1 < i) /\ (n - 1) + 1 = n
        BY <2>1, <3>4
      <4>2. t[n - 1] = x
        BY <2>3, <3>1, <4>1
      <4> QED
        BY <2>3, <4>1, <4>2 DEF Contains
    <3> QED
      BY <2>1, <3>2, <3>3, <3>4
  <2>6. ASSUME NEW x, x # k, First(s, x) PROVE First(t, x)
    <3>1. s[1] = x /\ i # 1 /\ Len(s) > 1
      BY <2>1, <2>6 DEF First
    <3> QED
      BY <2>1, <2>3, <3>1 DEF First
  <2>7. ASSUME NEW x, NEW y, Before(t, x, y) PROVE Before(s, x, y)
    <3>1. PICK n, m \in 1 .. Len(t) : n < m /\ t[n] = x /\ t[m] = y
      BY <2>7 DEF Before
    <3> QED
      BY <2>1, <2>3, <3>1 DEF Before
  <2> QED
    BY <2>2, <2>3, <2>4, <2>5, <2>6, <2>7 DEF LeftBy
<1> QED
  BY <1>1, <1>2

(* In a sequence without repetitions nothing is left of who leaves it.     *)
LEMMA LeavesOnce ==
  ASSUME NEW S, NEW s \in Seq(S), NEW k, IsInjective(s)
  PROVE  IsInjective(Without(s, k)) /\ ~Contains(Without(s, k), k)
<1>1. CASE ~Contains(s, k)
  BY <1>1 DEF Without
<1>2. CASE Contains(s, k)
  <2> DEFINE i == CHOOSE n \in 1 .. Len(s) : s[n] = k
             t == RemoveAt(s, i)
  <2>1. i \in 1 .. Len(s) /\ s[i] = k
    BY <1>2 DEF Contains
  <2>2. Without(s, k) = t
    BY <1>2 DEF Without
  <2> HIDE DEF i
  <2>3. /\ t \in Seq(S) /\ Len(t) = Len(s) - 1 /\ Len(s) \in Nat
        /\ \A n \in 1 .. Len(s) - 1 : t[n] = IF n < i THEN s[n] ELSE s[n + 1]
    BY <2>1, RemoveAtIs
  <2> HIDE DEF t
  <2>4. \A n, m \in 1 .. Len(s) : s[n] = s[m] => n = m
    BY DEF IsInjective
  <2>5. \A n, m \in 1 .. Len(s) - 1 : t[n] = t[m] => n = m
    BY <2>1, <2>3, <2>4
  <2>6. \A n \in 1 .. Len(s) - 1 : t[n] # k
    BY <2>1, <2>3, <2>4
  <2> QED
    BY <2>2, <2>3, <2>5, <2>6 DEF IsInjective, Contains
<1> QED
  BY <1>1, <1>2

(* A conversation keeps its last MaxTurns turns, in their order.           *)
LEMMA Trimming ==
  ASSUME NEW S, NEW s \in Seq(S)
  PROVE  /\ LastTurns(s) \in Seq(S) /\ Len(LastTurns(s)) <= MaxTurns
         /\ s # <<>> => LastTurns(s) # <<>>
         /\ \A x : Contains(LastTurns(s), x) => Contains(s, x)
         /\ \A x, y : Before(LastTurns(s), x, y) => Before(s, x, y)
<1> DEFINE m == IF Len(s) > MaxTurns THEN Len(s) - MaxTurns ELSE 0
           t == SubSeq(s, m + 1, Len(s))
<1>1. LastTurns(s) = t
  BY ChatAssumption DEF LastTurns
<1>2. m \in 0 .. Len(s) /\ Len(s) - m <= MaxTurns /\ (Len(s) > 0 => m < Len(s)) /\ Len(s) \in Nat
  BY ChatAssumption
<1> HIDE DEF m
<1>3. t \in Seq(S) /\ Len(t) = Len(s) - m /\ \A n \in 1 .. Len(s) - m : t[n] = s[m + n]
  BY <1>2
<1> HIDE DEF t
<1>4. s # <<>> => t # <<>>
  BY <1>2, <1>3
<1>5. \A x : Contains(t, x) => Contains(s, x)
  BY <1>2, <1>3 DEF Contains
<1>6. ASSUME NEW x, NEW y, Before(t, x, y) PROVE Before(s, x, y)
  <2>1. PICK i, j \in 1 .. Len(t) : i < j /\ t[i] = x /\ t[j] = y
    BY <1>6 DEF Before
  <2>2. /\ m + i \in 1 .. Len(s) /\ m + j \in 1 .. Len(s) /\ m + i < m + j
        /\ s[m + i] = x /\ s[m + j] = y
    BY <1>2, <1>3, <2>1
  <2> QED
    BY <2>2 DEF Before
<1> QED
  BY <1>1, <1>2, <1>3, <1>5, <1>6

(* The set of a sequence holds its members.                                *)
LEMMA SetOf ==
  ASSUME NEW S, NEW s \in Seq(S)
  PROVE  ToSet(s) \subseteq S /\ \A x : x \in ToSet(s) <=> Contains(s, x)
BY DEF ToSet, Contains

-----------------------------------------------------------------------------
(* The cache *)

(* What becomes of the cached turns: at most the answer of a is added to c. *)
Extended(a, c) ==
  \A d \in Convs :
    /\ \A x : Contains(turns'[d], x) => Contains(turns[d], x) \/ (d = c /\ x = a)
    /\ \A x, y : Before(turns'[d], x, y)
                   => \/ Before(turns[d], x, y)
                      \/ d = c /\ y = a /\ Contains(turns[d], x)

Reduced ==
  \A d \in Convs :
    /\ \A x : Contains(turns'[d], x) => Contains(turns[d], x)
    /\ \A x, y : Before(turns'[d], x, y) => Before(turns[d], x, y)

LEMMA NothingInEmpty == \A x, y : ~Contains(<<>>, x) /\ ~Before(<<>>, x, y)
BY DEF Contains, Before

LEMMA NewAtTheEnd ==
  ASSUME NEW S, NEW s \in Seq(S), NEW e \in S, IsInjective(s), ~Contains(s, e)
  PROVE  IsInjective(Append(s, e))
<1>1. /\ Len(s) \in Nat /\ Len(Append(s, e)) = Len(s) + 1
      /\ \A i \in 1 .. Len(s) : Append(s, e)[i] = s[i] /\ s[i] # e
      /\ Append(s, e)[Len(s) + 1] = e
      /\ DOMAIN Append(s, e) = 1 .. Len(s) + 1
  BY DEF Contains
<1>2. \A i, j \in 1 .. Len(s) : s[i] = s[j] => i = j
  BY DEF IsInjective
<1>3. \A i, j \in 1 .. Len(s) + 1 : Append(s, e)[i] = Append(s, e)[j] => i = j
  BY <1>1, <1>2
<1> QED
  BY <1>1, <1>3 DEF IsInjective

(* Reading a conversation keeps the cache within its limits.               *)
LEMMA Touching ==
  ASSUME CacheOK, NEW c \in Convs, lru' = Touched(c), UNCHANGED turns
  PROVE  CacheOK'
<1>1. CASE ~Contains(lru, c)
  BY <1>1 DEF CacheOK, Touched
<1>2. CASE Contains(lru, c)
  <2> DEFINE w == Without(lru, c)
  <2>1. /\ w \in Seq(Convs) /\ LeftBy(w, lru, c) /\ Len(w) = Len(lru) - 1
        /\ IsInjective(w) /\ ~Contains(w, c)
    BY <1>2, Leaving, LeavesOnce DEF CacheOK
  <2>2. lru' = Append(w, c)
    BY <1>2 DEF Touched
  <2> HIDE DEF w
  <2>3. lru' \in Seq(Convs) /\ JoinedBy(lru', w, c) /\ IsInjective(lru')
    BY <2>1, <2>2, Joining, NewAtTheEnd
  <2>4. Len(lru') = Len(lru)
    BY <2>1, <2>2 DEF CacheOK
  <2>5. \A d : Contains(lru', d) <=> Contains(lru, d)
    BY <1>2, <2>1, <2>3 DEF LeftBy, JoinedBy
  <2> QED
    BY <2>3, <2>4, <2>5 DEF CacheOK
<1> QED
  BY <1>1, <1>2

(* Without its first n members a sequence holds the others.                *)
LEMMA Dropping ==
  ASSUME NEW S, NEW s \in Seq(S), IsInjective(s), NEW n \in 0 .. Len(s)
  PROVE  LET r == SubSeq(s, n + 1, Len(s)) IN
         /\ r \in Seq(S) /\ Len(r) = Len(s) - n /\ IsInjective(r)
         /\ \A x : Contains(r, x) <=> Contains(s, x) /\ x \notin {s[i] : i \in 1 .. n}
<1> DEFINE r == SubSeq(s, n + 1, Len(s))
<1>1. /\ r \in Seq(S) /\ Len(r) = Len(s) - n /\ Len(s) \in Nat
      /\ \A i \in 1 .. Len(s) - n : r[i] = s[n + i]
      /\ DOMAIN r = 1 .. Len(s) - n
  OBVIOUS
<1> HIDE DEF r
<1>2. \A i, j \in 1 .. Len(s) : s[i] = s[j] => i = j
  BY DEF IsInjective
<1>3. \A i, j \in 1 .. Len(s) - n : r[i] = r[j] => i = j
  <2>1. \A i \in 1 .. Len(s) - n : n + i \in 1 .. Len(s)
    BY <1>1
  <2> QED
    BY <1>1, <1>2, <2>1
<1>4. ASSUME NEW x, Contains(r, x)
      PROVE  Contains(s, x) /\ x \notin {s[i] : i \in 1 .. n}
  <2>1. PICK i \in 1 .. Len(s) - n : s[n + i] = x
    BY <1>1, <1>4 DEF Contains
  <2>2. n + i \in 1 .. Len(s) /\ \A j \in 1 .. n : j \in 1 .. Len(s) /\ j # n + i
    BY <1>1
  <2> QED
    BY <1>2, <2>1 DEF Contains
<1>5. ASSUME NEW x, Contains(s, x), x \notin {s[i] : i \in 1 .. n}
      PROVE  Contains(r, x)
  <2>1. PICK i \in 1 .. Len(s) : s[i] = x
    BY <1>5 DEF Contains
  <2>2. i - n \in 1 .. Len(s) - n /\ n + (i - n) = i
    BY <1>1, <1>5, <2>1
  <2>3. r[i - n] = x
    BY <1>1, <2>1, <2>2
  <2> QED
    BY <1>1, <2>2, <2>3 DEF Contains
<1> QED
  BY <1>4, <1>5 DEF r, IsInjective

(* Evicting makes room for one conversation, and never evicts that one.    *)
LEMMA Evicting ==
  ASSUME CacheOK, NEW c \in Convs
  PROVE  LET n == Evicted(c)
             w == Without(SubSeq(lru, n + 1, Len(lru)), c) IN
         /\ n \in 0 .. Len(lru)
         /\ c \notin {lru[i] : i \in 1 .. n}
         /\ Append(w, c) \in Seq(Convs) /\ IsInjective(Append(w, c))
         /\ Len(Append(w, c)) <= MaxConvs
         /\ \A d : Contains(Append(w, c), d)
                     <=> d = c \/ (Contains(lru, d) /\ d \notin {lru[i] : i \in 1 .. n})
<1> DEFINE n == Evicted(c)
           r == SubSeq(lru, n + 1, Len(lru))
           w == Without(r, c)
<1>1. /\ n \in 0 .. Len(lru) /\ Len(lru) \in Nat
      /\ Contains(lru, c) => n = 0
      /\ ~Contains(lru, c) => Len(lru) - n < MaxConvs
  BY ChatAssumption DEF Evicted, CacheOK
<1> HIDE DEF n
<1>2. c \notin {lru[i] : i \in 1 .. n}
  <2>1. CASE Contains(lru, c)
    BY <1>1, <2>1
  <2>2. CASE ~Contains(lru, c)
    <3>1. \A i \in 1 .. n : i \in 1 .. Len(lru)
      BY <1>1
    <3> QED
      BY <2>2, <3>1 DEF Contains
  <2> QED
    BY <2>1, <2>2
<1>3. /\ r \in Seq(Convs) /\ Len(r) = Len(lru) - n /\ IsInjective(r)
      /\ \A x : Contains(r, x) <=> Contains(lru, x) /\ x \notin {lru[i] : i \in 1 .. n}
  BY <1>1, Dropping DEF CacheOK
<1> HIDE DEF r
<1>4. /\ w \in Seq(Convs) /\ LeftBy(w, r, c) /\ Len(w) \in {Len(r), Len(r) - 1}
      /\ Contains(r, c) => Len(w) = Len(r) - 1
      /\ IsInjective(w) /\ ~Contains(w, c)
  BY <1>3, Leaving, LeavesOnce
<1> HIDE DEF w
<1>5. /\ Append(w, c) \in Seq(Convs) /\ JoinedBy(Append(w, c), w, c)
      /\ IsInjective(Append(w, c)) /\ Len(Append(w, c)) = Len(w) + 1
  BY <1>4, Joining, NewAtTheEnd
<1>6. Len(Append(w, c)) <= MaxConvs
  BY <1>1, <1>3, <1>4, ChatAssumption DEF CacheOK
<1>7. \A d : Contains(Append(w, c), d)
               <=> d = c \/ (Contains(lru, d) /\ d \notin {lru[i] : i \in 1 .. n})
  BY <1>3, <1>4, <1>5 DEF LeftBy, JoinedBy
<1> QED
  BY <1>1, <1>2, <1>5, <1>6, <1>7 DEF n, r, w

(* cache_turn adds at most the one turn, as the last of its conversation.  *)
LEMMA CacheTurnEffect ==
  ASSUME ChatTyped, CacheOK, NEW a \in Asks, NEW c \in Convs, NEW text \in BOOLEAN,
         CacheTurn(a, c, text)
  PROVE  CacheOK' /\ turns' \in [Convs -> Seq(Asks)] /\ Extended(a, c)
<1>1. CASE ~text
  BY <1>1, Touching DEF CacheTurn, ChatTyped, Extended
<1>2. CASE text
  <2> DEFINE n == Evicted(c)
             w == Without(SubSeq(lru, n + 1, Len(lru)), c)
             out == {lru[i] : i \in 1 .. n}
             new == LastTurns(Append(turns[c], a))
  <2>1. /\ c \notin out
        /\ Append(w, c) \in Seq(Convs) /\ IsInjective(Append(w, c))
        /\ Len(Append(w, c)) <= MaxConvs
        /\ \A d : Contains(Append(w, c), d)
                    <=> d = c \/ (Contains(lru, d) /\ d \notin out)
    BY Evicting
  <2>2. /\ lru' = Append(w, c)
        /\ turns' = [d \in Convs |-> IF d \in out THEN <<>> ELSE IF d = c THEN new ELSE turns[d]]
    BY <1>2 DEF CacheTurn
  <2>3. turns[c] \in Seq(Asks)
    BY DEF ChatTyped
  <2>4. Append(turns[c], a) \in Seq(Asks) /\ JoinedBy(Append(turns[c], a), turns[c], a)
    BY <2>3, Joining
  <2>5. Append(turns[c], a) # <<>>
    BY <2>3
  <2>6. /\ new \in Seq(Asks) /\ Len(new) <= MaxTurns /\ new # <<>>
        /\ \A x : Contains(new, x) => Contains(Append(turns[c], a), x)
        /\ \A x, y : Before(new, x, y) => Before(Append(turns[c], a), x, y)
    BY <2>4, <2>5, Trimming
  <2> HIDE DEF n, w, out, new
  <2>7. turns' \in [Convs -> Seq(Asks)]
    BY <2>2, <2>6 DEF ChatTyped
  <2>8. CacheOK'
    BY <2>1, <2>2, <2>6, ChatAssumption DEF CacheOK
  <2>9. Extended(a, c)
    BY <2>2, <2>4, <2>6, NothingInEmpty DEF Extended, JoinedBy
  <2> QED
    BY <2>7, <2>8, <2>9
<1> QED
  BY <1>1, <1>2

(* Clearing a conversation leaves none of its turns.                       *)
LEMMA ClearEffect ==
  ASSUME ChatTyped, CacheOK, NEW c \in Convs, Clear(c)
  PROVE  /\ CacheOK' /\ turns' \in [Convs -> Seq(Asks)] /\ Reduced
         /\ \A x : ~Contains(turns'[c], x)
<1>1. /\ lru' \in Seq(Convs) /\ LeftBy(lru', lru, c) /\ Len(lru') \in {Len(lru), Len(lru) - 1}
      /\ IsInjective(lru') /\ ~Contains(lru', c)
  BY Leaving, LeavesOnce DEF CacheOK, Clear
<1>2. turns' = [turns EXCEPT ![c] = <<>>] /\ Len(<<>>) = 0 /\ <<>> \in Seq(Asks)
  BY DEF Clear
<1>3. turns' \in [Convs -> Seq(Asks)]
  BY <1>2 DEF ChatTyped
<1>4. \A d \in Convs : turns'[d] = IF d = c THEN <<>> ELSE turns[d]
  BY <1>2 DEF ChatTyped
<1>5. Len(lru') <= MaxConvs
  BY <1>1, ChatAssumption DEF CacheOK
<1>6. \A d \in Convs : Len(turns'[d]) <= MaxTurns /\ (Contains(lru', d) <=> turns'[d] # <<>>)
  BY <1>1, <1>4, ChatAssumption DEF CacheOK, LeftBy
<1> QED
  BY <1>1, <1>3, <1>4, <1>5, <1>6, NothingInEmpty DEF CacheOK, Reduced

LEMMA ClearAllEffect ==
  ASSUME lru' = <<>>, turns' = [c \in Convs |-> <<>>]
  PROVE  CacheOK' /\ turns' \in [Convs -> Seq(Asks)] /\ Reduced
BY NothingInEmpty, ChatAssumption DEF CacheOK, Reduced, IsInjective

-----------------------------------------------------------------------------
(* The locks *)

(* Who is ordered in a sequence is in it.                                  *)
LEMMA Inside == \A s, j, k : Before(s, j, k) => Contains(s, j) /\ Contains(s, k)
BY DEF Before, Contains

(* A queue has one head: one call holds a lock.                            *)
LEMMA OneFirst == \A s, j, k : First(s, j) /\ First(s, k) => j = k
BY DEF First

(* A call that ends leaves every queue, and nobody else does.              *)
LEMMA LeaveEffect ==
  ASSUME ChatTyped, NEW k, Leave(k)
  PROVE  /\ notebookLock' \in Seq(Calls) /\ convLock' \in [Convs -> Seq(Calls)]
         /\ LeftBy(notebookLock', notebookLock, k)
         /\ \A c \in Convs : LeftBy(convLock'[c], convLock[c], k)
<1>1. notebookLock' \in Seq(Calls) /\ LeftBy(notebookLock', notebookLock, k)
  BY Leaving DEF ChatTyped, Leave
<1>2. ASSUME NEW c \in Convs
      PROVE  /\ Without(convLock[c], k) \in Seq(Calls)
             /\ LeftBy(Without(convLock[c], k), convLock[c], k)
  BY Leaving DEF ChatTyped
<1>3. convLock' = [c \in Convs |-> Without(convLock[c], k)]
  BY DEF Leave
<1> QED
  BY <1>1, <1>2, <1>3

(* Who waits in a queue and finds himself its head holds the lock.         *)
LEMMA HolderIsFirst ==
  ASSUME ChatInv, NEW k \in Calls, at[k] \in {"waiting", "caching"},
         Head(Queue(conv[k])) = k
  PROVE  First(Queue(conv[k]), k)
BY NothingInEmpty DEF ChatInv, LocksOK, Awaiting, First

(* The head is before everybody else.                                      *)
LEMMA FirstIsBefore ==
  ASSUME NEW S, NEW s \in Seq(S), NEW j, NEW k, First(s, j), Contains(s, k), j # k
  PROVE  Before(s, j, k)
BY DEF First, Contains, Before

-----------------------------------------------------------------------------
(* The steps *)

(* A call takes its place at the end of a queue.                           *)
LEMMA StartKeeps ==
  ASSUME ChatInv, NEW k \in Calls, NEW c \in Convs \cup {NoConv}, Start(k, c)
  PROVE  ChatInv'
<1>1. /\ at[k] = "idle" /\ (k \in Deletes => c # NoConv) /\ conv[k] = NoConv /\ k \notin null
      /\ k \notin net \cup late
      /\ at' = [at EXCEPT ![k] = "waiting"] /\ conv' = [conv EXCEPT ![k] = c]
      /\ null' = IF c = NoConv THEN null \cup {k} ELSE null
      /\ UNCHANGED <<hist, lru, turns, net, stale, replays, late, log, gone, current, others, moved, unsure>>
  BY DEF ChatInv, StagesOK, Start, google, requests
<1>2. /\ notebookLock' \in Seq(Calls) /\ convLock' \in [Convs -> Seq(Calls)]
      /\ c = NoConv => JoinedBy(notebookLock', notebookLock, k) /\ convLock' = convLock
      /\ c # NoConv => /\ notebookLock' = notebookLock /\ JoinedBy(convLock'[c], convLock[c], k)
                     /\ \A d \in Convs : d # c => convLock'[d] = convLock[d]
  <2>1. CASE c = NoConv
    <3>1. notebookLock \in Seq(Calls) /\ convLock \in [Convs -> Seq(Calls)]
      BY DEF ChatInv, ChatTyped
    <3>2. /\ Append(notebookLock, k) \in Seq(Calls)
          /\ JoinedBy(Append(notebookLock, k), notebookLock, k)
      BY <3>1, Joining
    <3>3. notebookLock' = Append(notebookLock, k) /\ convLock' = convLock
      BY <2>1 DEF Start
    <3> QED
      BY <2>1, <3>1, <3>2, <3>3
  <2>2. CASE c # NoConv
    <3>1. c \in Convs /\ convLock[c] \in Seq(Calls)
      BY <2>2 DEF ChatInv, ChatTyped
    <3>2. /\ Append(convLock[c], k) \in Seq(Calls)
          /\ JoinedBy(Append(convLock[c], k), convLock[c], k)
      BY <3>1, Joining
    <3>3. convLock' = [convLock EXCEPT ![c] = Append(@, k)] /\ notebookLock' = notebookLock
      BY <2>2 DEF Start
    <3> QED
      BY <2>2, <3>2, <3>3 DEF ChatInv, ChatTyped
  <2> QED
    BY <2>1, <2>2
<1>3. ChatTyped'
  BY <1>1, <1>2 DEF ChatInv, ChatTyped, Stages, Calls
<1>4. CacheOK'
  BY <1>1 DEF ChatInv, CacheOK
<1>5. StagesOK'
  BY <1>1 DEF ChatInv, StagesOK, ChatTyped
<1>6. LocksOK'
  <2>1. Holding'
    <3> SUFFICES ASSUME NEW j \in Calls, at'[j] \in {"sent", "answered"}
                 PROVE  First(Queue(conv[j]), j)'
      BY DEF Holding
    <3>1. /\ j # k /\ conv'[j] = conv[j] /\ conv[j] \in Convs \cup {NoConv}
          /\ First(Queue(conv[j]), j)
      BY <1>1 DEF ChatInv, LocksOK, Holding, ChatTyped
    <3> QED
      BY <1>2, <3>1 DEF Queue, JoinedBy
  <2>2. Awaiting'
    <3> SUFFICES ASSUME NEW j \in Calls, at'[j] \in {"waiting", "caching"}
                 PROVE  Contains(Queue(conv[j]), j)'
      BY DEF Awaiting
    <3>1. CASE j = k
      BY <1>1, <1>2, <3>1 DEF ChatInv, ChatTyped, Queue, JoinedBy
    <3>2. CASE j # k
      <4>1. /\ conv'[j] = conv[j] /\ conv[j] \in Convs \cup {NoConv}
            /\ Contains(Queue(conv[j]), j)
        BY <1>1, <3>2 DEF ChatInv, LocksOK, Awaiting, ChatTyped
      <4> QED
        BY <1>2, <4>1 DEF Queue, JoinedBy
    <3> QED
      BY <3>1, <3>2
  <2>3. Queuing'
    <3> SUFFICES ASSUME NEW d \in Convs, NEW j, Contains(convLock'[d], j)
                 PROVE  j \in Calls /\ conv'[j] = d
      BY DEF Queuing
    <3>1. CASE Contains(convLock[d], j)
      BY <1>1, <3>1, ChatAssumption DEF ChatInv, LocksOK, Queuing
    <3>2. CASE ~Contains(convLock[d], j)
      <4>1. d = c /\ j = k
        BY <1>2, <3>2 DEF JoinedBy
      <4> QED
        BY <1>1, <4>1 DEF ChatInv, ChatTyped
    <3> QED
      BY <3>1, <3>2
  <2> QED
    BY <2>1, <2>2, <2>3 DEF LocksOK
<1>7. ExecutedOK'
  BY <1>1 DEF ChatInv, ExecutedOK, LoggedOK, CachedOK, FollowUpsLogged, NullsLogged
<1>8. OrderOK'
  <2>1. FollowUpOrder'
    BY <1>1 DEF ChatInv, OrderOK, FollowUpOrder, NotAfter
  <2>2. NullOrder'
    BY <1>1 DEF ChatInv, OrderOK, NullOrder, NotAfter
  <2>3. QueueOrder'
    <3> SUFFICES ASSUME NEW d \in Convs, NEW x \in null', NEW y \in null',
                        at'[x] = "caching", at'[y] = "caching", Before(convLock'[d], x, y),
                        x # y, x \notin late'
                 PROVE  NotAfter(x, y)'
      BY DEF QueueOrder
    <3>1. x \in null /\ y \in null /\ y # k /\ at[x] = "caching" /\ at[y] = "caching"
      BY <1>1
    <3>2. Before(convLock[d], x, y)
      BY <1>2, <3>1 DEF JoinedBy
    <3> QED
      BY <1>1, <3>2 DEF ChatInv, OrderOK, QueueOrder, NotAfter
  <2>4. CacheOrder'
    BY <1>1 DEF ChatInv, ExecutedOK, OrderOK, CacheOrder, NotAfter, CachedOK
  <2> QED
    BY <2>1, <2>2, <2>3, <2>4 DEF OrderOK
<1>9. LineageOK'
  BY <1>1 DEF ChatInv, LineageOK
<1>10. DeletedOK'
  <2>1. GoneLogged'
    BY <1>1 DEF ChatInv, DeletedOK, GoneLogged
  <2>2. CacheTold'
    BY <1>1 DEF ChatInv, DeletedOK, CacheTold, Told, Deleting, ChatTyped, Calls
  <2>3. HistoryTold'
    BY <1>1 DEF ChatInv, DeletedOK, HistoryTold, Told
  <2> QED
    BY <2>1, <2>2, <2>3 DEF DeletedOK
<1>11. CachedInServerOrder'
  <2> SUFFICES ASSUME NEW d \in Convs, NEW x \in Asks, NEW y \in Asks,
                      Before(turns'[d], x, y), x # y, x \notin late',
                      x \in null' <=> y \in null'
               PROVE  ~Before(log'[d], y, x)
    BY DEF CachedInServerOrder
  <2>1. /\ Contains(turns[d], x) /\ Contains(turns[d], y) /\ Before(turns[d], x, y)
    BY <1>1, Inside
  <2>2. at[x] = "done" /\ at[y] = "done"
    BY <2>1 DEF ChatInv, ExecutedOK, CachedOK
  <2>3. x \in null <=> y \in null
    BY <1>1, <2>2
  <2>4. ~Before(log[d], y, x)
    BY <1>1, <2>1, <2>3 DEF ChatInv, CachedInServerOrder
  <2> QED
    BY <1>1, <2>4
<1>12. Lineage'
  BY <1>1 DEF ChatInv, Lineage
<1> QED
  BY <1>3, <1>4, <1>5, <1>6, <1>7, <1>8, <1>9, <1>10, <1>11, <1>12 DEF ChatInv

(* The history a follow-up posts has nothing a told delete removed: while it*)
(* holds the lock no delete of its conversation has been posted.           *)
LEMMA SendKeeps ==
  ASSUME ChatInv, NEW k \in Calls, Send(k)
  PROVE  ChatInv'
<1>1. /\ at[k] = "waiting" /\ First(Queue(conv[k]), k)
      /\ at' = [at EXCEPT ![k] = "sent"] /\ net' = net \cup {k}
      /\ UNCHANGED <<conv, null, notebookLock, convLock, turns, stale, replays, late, log, gone,
                     current, others, moved, unsure>>
  BY HolderIsFirst DEF Send, HoldsLock, Post, locks, requests
<1>2. /\ k \in Asks /\ conv[k] # NoConv => /\ conv[k] \in Convs /\ lru' = Touched(conv[k])
                                        /\ hist' = [hist EXCEPT ![k] = ToSet(turns[conv[k]])]
      /\ ~(k \in Asks /\ conv[k] # NoConv) => UNCHANGED <<hist, lru>>
  BY DEF Send, Post, ChatInv, ChatTyped
<1>3. k \in Asks /\ conv[k] # NoConv =>
        /\ ToSet(turns[conv[k]]) \subseteq Asks
        /\ \A x : x \in ToSet(turns[conv[k]]) <=> Contains(turns[conv[k]], x)
  BY SetOf DEF ChatInv, ChatTyped
<1>4. ChatTyped'
  <2>1. hist' \in [Asks -> SUBSET Asks]
    BY <1>2, <1>3 DEF ChatInv, ChatTyped
  <2> QED
    BY <1>1, <2>1 DEF ChatInv, ChatTyped, Stages
<1>5. CacheOK'
  BY <1>1, <1>2, Touching DEF ChatInv, CacheOK
<1>6. StagesOK'
  BY <1>1 DEF ChatInv, StagesOK, ChatTyped
<1>7. LocksOK'
  BY <1>1 DEF ChatInv, LocksOK, Holding, Awaiting, Queuing, Queue
<1>8. ExecutedOK'
  BY <1>1 DEF ChatInv, ExecutedOK, LoggedOK, CachedOK, FollowUpsLogged, NullsLogged
<1>9. OrderOK'
  <2>1. FollowUpOrder'
    BY <1>1, Inside DEF ChatInv, ExecutedOK, OrderOK, FollowUpOrder, NotAfter, LoggedOK
  <2>2. NullOrder'
    BY <1>1, Inside DEF ChatInv, ExecutedOK, OrderOK, NullOrder, NotAfter, LoggedOK
  <2>3. QueueOrder'
    BY <1>1 DEF ChatInv, OrderOK, QueueOrder, NotAfter
  <2>4. CacheOrder'
    BY <1>1 DEF ChatInv, OrderOK, CacheOrder, NotAfter
  <2> QED
    BY <2>1, <2>2, <2>3, <2>4 DEF OrderOK
<1>10. LineageOK'
  BY <1>1, <1>2, SetOf DEF ChatInv, LineageOK, ExecutedOK, CachedOK, StagesOK, ChatTyped,
     Calls
<1>11. DeletedOK'
  <2>1. GoneLogged'
    BY <1>1 DEF ChatInv, DeletedOK, GoneLogged
  <2>2. CacheTold'
    BY <1>1 DEF ChatInv, DeletedOK, CacheTold, Told, Deleting
  <2>3. HistoryTold'
    <3> SUFFICES ASSUME NEW b \in Asks \ null', at'[b] = "sent"
                 PROVE  /\ b \notin Told' /\ hist'[b] \cap Told' = {}
                        /\ \A x \in hist'[b] \ null' : conv'[x] = conv'[b] /\ at'[x] = "done"
      BY DEF HistoryTold
    <3>1. Told' = Told
      BY <1>1 DEF Told
    <3>2. CASE b = k
      <4>1. conv[k] # NoConv /\ conv[k] \in Convs /\ k \notin gone
        BY <1>1, <3>2 DEF ChatInv, ChatTyped, StagesOK, ExecutedOK, LoggedOK, DeletedOK,
           GoneLogged
      <4>2. ~Deleting(conv[k])
        BY <1>1, OneFirst DEF Deleting, ChatInv, LocksOK, Holding, Calls
      <4>3. /\ hist'[k] = ToSet(turns[conv[k]])
            /\ \A x : x \in hist'[k] <=> Contains(turns[conv[k]], x)
        BY <1>2, <1>3, <3>2, <4>1 DEF ChatInv, ChatTyped
      <4>4. \A x \in hist'[k] : x \notin Told /\ at[x] = "done" /\ conv[x] = conv[k] /\ x \in Asks
        BY <4>1, <4>2, <4>3 DEF ChatInv, ExecutedOK, CachedOK, DeletedOK, CacheTold
      <4>5. \A x \in hist'[k] : at'[x] = "done" /\ conv'[x] = conv'[k]
        BY <1>1, <4>4
      <4> QED
        BY <3>1, <3>2, <4>1, <4>4, <4>5 DEF Told
    <3>3. CASE b # k
      <4>1. at[b] = "sent" /\ hist'[b] = hist[b] /\ conv'[b] = conv[b] /\ b \notin null
        BY <1>1, <1>2, <3>3 DEF ChatInv, ChatTyped
      <4>2. /\ b \notin Told /\ hist[b] \cap Told = {}
            /\ \A x \in hist[b] \ null : conv[x] = conv[b] /\ at[x] = "done"
        BY <4>1 DEF ChatInv, DeletedOK, HistoryTold
      <4> QED
        BY <1>1, <3>1, <4>1, <4>2
    <3> QED
      BY <3>2, <3>3
  <2> QED
    BY <2>1, <2>2, <2>3 DEF DeletedOK
<1>12. CachedInServerOrder'
  BY <1>1 DEF ChatInv, CachedInServerOrder
<1>13. Lineage'
  BY <1>1, <1>2 DEF ChatInv, Lineage, ChatTyped
<1> QED
  BY <1>4, <1>5, <1>6, <1>7, <1>8, <1>9, <1>10, <1>11, <1>12, <1>13 DEF ChatInv

(* The answer to a null ask changes nothing but where the call stands.     *)
LEMMA NullAnsweredKeeps ==
  ASSUME ChatInv, NEW a \in Calls, NullAnswered(a)
  PROVE  ChatInv'
<1>1. /\ a \in null /\ at[a] = "sent" /\ a \notin net /\ at' = [at EXCEPT ![a] = "answered"]
      /\ UNCHANGED <<conv, null, hist, notebookLock, convLock, lru, turns, net, stale, replays, late, log, gone,
                     current, others, moved, unsure>>
  BY DEF NullAnswered, locks, cache, google, requests
<1>2. ChatTyped'
  BY <1>1 DEF ChatInv, ChatTyped, Stages
<1>3. CacheOK'
  BY <1>1 DEF ChatInv, CacheOK
<1>4. StagesOK'
  BY <1>1 DEF ChatInv, StagesOK
<1>5. LocksOK'
  BY <1>1 DEF ChatInv, LocksOK, Holding, Awaiting, Queuing, Queue
<1>6. ExecutedOK'
  BY <1>1 DEF ChatInv, ExecutedOK, LoggedOK, CachedOK, FollowUpsLogged, NullsLogged
<1>7. OrderOK'
  BY <1>1 DEF ChatInv, OrderOK, FollowUpOrder, NullOrder, QueueOrder, CacheOrder, NotAfter
<1>8. LineageOK'
  BY <1>1 DEF ChatInv, LineageOK
<1>9. DeletedOK'
  <2>1. GoneLogged'
    BY <1>1 DEF ChatInv, DeletedOK, GoneLogged
  <2>2. CacheTold'
    BY <1>1, OneFirst, Inside, ChatAssumption DEF ChatInv, LocksOK, ExecutedOK, OrderOK,
           DeletedOK, CacheTold, Told, Deleting, CachedOK, LoggedOK, GoneLogged, HistoryTold,
           StagesOK, Holding, ChatTyped, Calls, Queue, Extended, Reduced
  <2>3. HistoryTold'
    BY <1>1 DEF ChatInv, DeletedOK, HistoryTold, Told
  <2> QED
    BY <2>1, <2>2, <2>3 DEF DeletedOK
<1>10. CachedInServerOrder'
  BY <1>1 DEF ChatInv, CachedInServerOrder
<1>11. Lineage'
  BY <1>1 DEF ChatInv, Lineage
<1> QED
  BY <1>2, <1>3, <1>4, <1>5, <1>6, <1>7, <1>8, <1>9, <1>10, <1>11 DEF ChatInv

(* The notebook's lock is exchanged for the conversation's: who queues there*)
(* already was answered, and executed, before.                             *)
LEMMA ResolveKeeps ==
  ASSUME ChatInv, NEW a \in Calls, Resolve(a)
  PROVE  ChatInv'
<1>1. /\ at[a] = "answered" /\ a \in null /\ conv[a] = NoConv /\ a \notin net
      /\ conv' = [conv EXCEPT ![a] = current]
      /\ at' = [at EXCEPT ![a] = IF current = NoConv THEN "failed" ELSE "caching"]
      /\ UNCHANGED <<null, hist, lru, turns, net, stale, replays, late, log, gone, current, others, moved, unsure>>
  BY DEF ChatInv, StagesOK, Resolve, cache, google, requests
<1>2. /\ notebookLock' \in Seq(Calls) /\ convLock' \in [Convs -> Seq(Calls)]
      /\ LeftBy(notebookLock', notebookLock, a)
      /\ \A c \in Convs : IF c = current THEN JoinedBy(convLock'[c], convLock[c], a)
                          ELSE convLock'[c] = convLock[c]
  <2>1. notebookLock' \in Seq(Calls) /\ LeftBy(notebookLock', notebookLock, a)
    BY Leaving DEF ChatInv, ChatTyped, Resolve
  <2>2. ASSUME NEW c \in Convs
        PROVE  /\ Append(convLock[c], a) \in Seq(Calls)
               /\ JoinedBy(Append(convLock[c], a), convLock[c], a)
    BY Joining DEF ChatInv, ChatTyped
  <2>3. convLock' = [c \in Convs |-> IF c = current THEN Append(convLock[c], a) ELSE convLock[c]]
    BY DEF Resolve
  <2> QED
    BY <2>1, <2>2, <2>3
<1>3. ChatTyped'
  BY <1>1, <1>2 DEF ChatInv, ChatTyped, Stages
<1>4. CacheOK'
  BY <1>1 DEF ChatInv, CacheOK
<1>5. StagesOK'
  BY <1>1 DEF ChatInv, StagesOK, ChatTyped
<1>6. LocksOK'
  <2>1. Holding'
    BY <1>1, <1>2, OneFirst DEF ChatInv, LocksOK, Holding, ChatTyped, Queue, JoinedBy
  <2>2. Awaiting'
    <3> SUFFICES ASSUME NEW j \in Calls, at'[j] \in {"waiting", "caching"}
                 PROVE  Contains(Queue(conv[j]), j)'
      BY DEF Awaiting
    <3>1. CASE j = a
      <4>1. current # NoConv /\ current \in Convs /\ conv'[j] = current
        BY <1>1, <3>1 DEF ChatInv, ChatTyped
      <4>2. Contains(convLock'[current], a)
        BY <1>2, <4>1 DEF JoinedBy
      <4> QED
        BY <3>1, <4>1, <4>2 DEF Queue
    <3>2. CASE j # a
      <4>1. /\ conv'[j] = conv[j] /\ conv[j] \in Convs \cup {NoConv}
            /\ Contains(Queue(conv[j]), j)
        BY <1>1, <3>2 DEF ChatInv, LocksOK, Awaiting, ChatTyped
      <4>2. CASE conv[j] = NoConv
        BY <1>2, <3>2, <4>1, <4>2 DEF Queue, LeftBy
      <4>3. CASE conv[j] # NoConv
        BY <1>2, <4>1, <4>3 DEF Queue, JoinedBy
      <4> QED
        BY <4>2, <4>3
    <3> QED
      BY <3>1, <3>2
  <2>3. Queuing'
    <3> SUFFICES ASSUME NEW d \in Convs, NEW j, Contains(convLock'[d], j)
                 PROVE  j \in Calls /\ conv'[j] = d
      BY DEF Queuing
    <3>1. CASE Contains(convLock[d], j)
      BY <1>1, <3>1, ChatAssumption DEF ChatInv, LocksOK, Queuing
    <3>2. CASE ~Contains(convLock[d], j)
      <4>1. d = current /\ j = a
        BY <1>2, <3>2 DEF JoinedBy
      <4> QED
        BY <1>1, <4>1 DEF ChatInv, ChatTyped
    <3> QED
      BY <3>1, <3>2
  <2> QED
    BY <2>1, <2>2, <2>3 DEF LocksOK
<1>7. ExecutedOK'
  BY <1>1 DEF ChatInv, ExecutedOK, LoggedOK, CachedOK, FollowUpsLogged, NullsLogged, ChatTyped
<1>8. OrderOK'
  <2>1. FollowUpOrder'
    BY <1>1 DEF ChatInv, OrderOK, FollowUpOrder, NotAfter
  <2>2. NullOrder'
    BY <1>1, OneFirst DEF ChatInv, LocksOK, NullOrder, Holding, StagesOK, ChatTyped, Calls
  <2>3. QueueOrder'
    <3> SUFFICES ASSUME NEW d \in Convs, NEW x \in null', NEW y \in null',
                        at'[x] = "caching", at'[y] = "caching", Before(convLock'[d], x, y),
                        x # y, x \notin late'
                 PROVE  NotAfter(x, y)'
      BY DEF QueueOrder
    <3>1. ~Contains(convLock[d], a)
      BY <1>1, ChatAssumption DEF ChatInv, LocksOK, Queuing
    <3>2. /\ x \in null /\ y \in null /\ x \in Calls /\ y \in Calls
          /\ x # a => at[x] = "caching"
          /\ y # a => at[y] = "caching"
      BY <1>1 DEF ChatInv, ChatTyped, Calls
    <3>3. CASE Before(convLock[d], x, y)
      <4>1. x # a /\ y # a
        BY <3>1, <3>3, Inside
      <4> QED
        BY <1>1, <3>3, <4>1 DEF ChatInv, OrderOK, QueueOrder, NotAfter
    <3>4. CASE ~Before(convLock[d], x, y)
      <4>1. y = a /\ Contains(convLock[d], x)
        BY <1>2, <3>4 DEF JoinedBy
      <4> QED
        BY <1>1, <3>1, <4>1 DEF ChatInv, OrderOK, NullOrder, NotAfter
    <3> QED
      BY <3>3, <3>4
  <2>4. CacheOrder'
    BY <1>1 DEF ChatInv, ExecutedOK, OrderOK, CacheOrder, NullOrder, NotAfter, CachedOK,
       ChatTyped, Calls
  <2> QED
    BY <2>1, <2>2, <2>3, <2>4 DEF OrderOK
<1>9. LineageOK'
  BY <1>1 DEF ChatInv, LineageOK
<1>10. DeletedOK'
  <2>1. GoneLogged'
    BY <1>1 DEF ChatInv, DeletedOK, GoneLogged
  <2>2. CacheTold'
    BY <1>1 DEF ChatInv, DeletedOK, CacheTold, Told, Deleting
  <2>3. HistoryTold'
    BY <1>1 DEF ChatInv, DeletedOK, HistoryTold, Told
  <2> QED
    BY <2>1, <2>2, <2>3 DEF DeletedOK
<1>11. CachedInServerOrder'
  BY <1>1 DEF ChatInv, CachedInServerOrder
<1>12. Lineage'
  BY <1>1 DEF ChatInv, Lineage
<1> QED
  BY <1>3, <1>4, <1>5, <1>6, <1>7, <1>8, <1>9, <1>10, <1>11, <1>12 DEF ChatInv

(* A follow-up caches its turn: no other call of its conversation is posted.*)
LEMMA FollowUpAnsweredKeeps ==
  ASSUME ChatInv, NEW a \in Calls, NEW text \in BOOLEAN,
         FollowUpAnswered(a, text)
  PROVE  ChatInv'
<1>1. /\ a \in Asks \ null /\ at[a] = "sent" /\ a \notin net /\ conv[a] \in Convs
      /\ First(convLock[conv[a]], a)
      /\ at' = [at EXCEPT ![a] = "done"]
      /\ UNCHANGED <<conv, null, hist, net, stale, replays, late, log, gone, current, others, moved, unsure>>
  BY DEF ChatInv, ChatTyped, StagesOK, LocksOK, Holding, Queue, FollowUpAnswered,
     google, requests
<1>2. /\ notebookLock' \in Seq(Calls) /\ convLock' \in [Convs -> Seq(Calls)]
      /\ LeftBy(notebookLock', notebookLock, a)
      /\ \A c \in Convs : LeftBy(convLock'[c], convLock[c], a)
  BY LeaveEffect DEF ChatInv, FollowUpAnswered
<1>3. CacheOK' /\ turns' \in [Convs -> Seq(Asks)] /\ Extended(a, conv[a])
  BY <1>1, CacheTurnEffect DEF ChatInv, FollowUpAnswered
<1>4. ChatTyped'
  BY <1>1, <1>2, <1>3 DEF ChatInv, ChatTyped, Stages
<1>5. CacheOK'
  BY <1>3
<1>6. StagesOK'
  BY <1>1, ChatAssumption DEF ChatInv, StagesOK
<1>7. LocksOK'
  BY <1>1, <1>2 DEF ChatInv, LocksOK, Holding, Awaiting, Queuing, ChatTyped, Queue, LeftBy
<1>8. ExecutedOK'
  BY <1>1, <1>3 DEF ChatInv, ExecutedOK, LoggedOK, CachedOK, FollowUpsLogged, NullsLogged,
     StagesOK, ChatTyped, Calls, Extended
<1>9. OrderOK'
  <2>1. FollowUpOrder'
    <3> SUFFICES ASSUME NEW x \in Asks \ null', NEW y \in Asks \ null',
                        at'[x] = "done", x \notin late', at'[y] = "sent"
                 PROVE  NotAfter(x, y)'
      BY DEF FollowUpOrder
    <3>1. y # a /\ at[y] = "sent" /\ y \notin null
      BY <1>1 DEF ChatInv, ChatTyped
    <3>2. CASE x = a
      <4> SUFFICES ASSUME NEW d \in Convs, Before(log[d], y, a) PROVE FALSE
        BY <1>1, <3>2 DEF NotAfter
      <4>1. conv[y] = d /\ conv[a] = d
        BY <1>1, Inside DEF ChatInv, ExecutedOK, LoggedOK
      <4>2. First(convLock[d], y)
        BY <3>1, <4>1, ChatAssumption DEF ChatInv, LocksOK, Holding, Queue, Calls
      <4> QED
        BY <1>1, <3>1, <4>1, <4>2, OneFirst
    <3>3. CASE x # a
      BY <1>1, <3>3 DEF ChatInv, OrderOK, FollowUpOrder, NotAfter
    <3> QED
      BY <3>2, <3>3
  <2>2. NullOrder'
    BY <1>1 DEF ChatInv, OrderOK, NullOrder, NotAfter
  <2>3. QueueOrder'
    BY <1>1, <1>2, <1>3, OneFirst, Inside DEF ChatInv, LocksOK, ExecutedOK, OrderOK, DeletedOK,
       QueueOrder, NullOrder, NotAfter, LoggedOK, Queuing, Holding, StagesOK, ChatTyped,
       Calls, Queue, JoinedBy, LeftBy
  <2>4. CacheOrder'
    <3> SUFFICES ASSUME NEW d \in Convs, NEW x \in null', NEW y \in null',
                        Contains(turns'[d], x), x \notin late',
                        at'[y] = "caching", conv'[y] = d
                 PROVE  NotAfter(x, y)'
      BY DEF CacheOrder
    <3>1. x \in null /\ y \in null /\ y # a /\ at[y] = "caching" /\ conv[y] = d
      BY <1>1
    <3>2. Contains(turns[d], x)
      BY <1>1, <1>3 DEF Extended
    <3> QED
      BY <1>1, <3>2 DEF ChatInv, OrderOK, CacheOrder, NotAfter
  <2> QED
    BY <2>1, <2>2, <2>3, <2>4 DEF OrderOK
<1>10. LineageOK'
  <2> SUFFICES ASSUME NEW b \in Asks \ null', at'[b] = "sent",
                      NEW x, Contains(turns'[conv'[b]], x)
               PROVE  x \in hist'[b]
    BY DEF LineageOK
  <2>1. b # a /\ at[b] = "sent" /\ b \notin null /\ b \in Calls
    BY <1>1 DEF ChatInv, ChatTyped, Calls
  <2>2. conv[b] \in Convs /\ conv[b] # NoConv
    BY <2>1 DEF ChatInv, ChatTyped, StagesOK
  <2>3. conv[b] # conv[a]
    BY <1>1, <2>1, OneFirst DEF ChatInv, LocksOK, Holding
  <2>4. Contains(turns[conv[b]], x)
    BY <1>1, <1>3, <2>2, <2>3 DEF Extended
  <2> QED
    BY <1>1, <2>4 DEF ChatInv, LineageOK
<1>11. DeletedOK'
  <2>1. GoneLogged'
    BY <1>1 DEF ChatInv, DeletedOK, GoneLogged
  <2>2. CacheTold'
    <3> SUFFICES ASSUME NEW d \in Convs, ~Deleting(d)', NEW x, Contains(turns'[d], x)
                 PROVE  x \notin Told'
      BY DEF CacheTold
    <3>1. Told' = Told /\ ~Deleting(d)
      BY <1>1, ChatAssumption DEF Told, Deleting
    <3>2. CASE Contains(turns[d], x)
      BY <3>1, <3>2 DEF ChatInv, DeletedOK, CacheTold
    <3>3. CASE ~Contains(turns[d], x)
      BY <1>1, <1>3, <3>1, <3>3 DEF Extended, ChatInv, DeletedOK, HistoryTold
    <3> QED
      BY <3>2, <3>3
  <2>3. HistoryTold'
    BY <1>1 DEF ChatInv, DeletedOK, HistoryTold, Told
  <2> QED
    BY <2>1, <2>2, <2>3 DEF DeletedOK
<1>12. CachedInServerOrder'
  BY <1>1, <1>3 DEF ChatInv, CachedInServerOrder, OrderOK, FollowUpOrder, NotAfter,
     ExecutedOK, CachedOK, Extended
<1>13. Lineage'
  <2> SUFFICES ASSUME NEW d \in Convs, NEW x \in Asks \ null', NEW b \in Asks \ null',
                      at'[b] = "done", x # b, b \notin late',
                      Before(log'[d], x, b), Contains(turns'[d], x)
               PROVE  x \in hist'[b]
    BY DEF Lineage
  <2>1. Before(log[d], x, b) /\ x \notin null /\ b \notin null
    BY <1>1
  <2>2. CASE b = a
    <3>1. conv[a] = d /\ x # a
      BY <2>1, <2>2, Inside DEF ChatInv, ExecutedOK, LoggedOK
    <3>2. Contains(turns[d], x)
      BY <1>3, <3>1 DEF Extended
    <3> QED
      BY <1>1, <2>2, <3>1, <3>2 DEF ChatInv, LineageOK
  <2>3. CASE b # a
    <3>1. at[b] = "done"
      BY <1>1, <2>3
    <3>2. x # a
      BY <1>1, <3>1 DEF ChatInv, OrderOK, FollowUpOrder, NotAfter
    <3>3. Contains(turns[d], x)
      BY <1>3, <3>2 DEF Extended
    <3> QED
      BY <1>1, <3>1, <3>3 DEF ChatInv, Lineage
  <2> QED
    BY <2>2, <2>3
<1> QED
  BY <1>4, <1>5, <1>6, <1>7, <1>8, <1>9, <1>10, <1>11, <1>12, <1>13 DEF ChatInv

(* A null ask caches its turn in the order of the queue, which is Google's.*)
LEMMA NullCachedKeeps ==
  ASSUME ChatInv, NEW a \in Calls, NEW text \in BOOLEAN, NullCached(a, text)
  PROVE  ChatInv'
<1>1. /\ a \in null /\ a \in Asks /\ at[a] = "caching" /\ a \notin net /\ conv[a] \in Convs
      /\ First(convLock[conv[a]], a)
      /\ at' = [at EXCEPT ![a] = "done"]
      /\ UNCHANGED <<conv, null, hist, net, stale, replays, late, log, gone, current, others, moved, unsure>>
  BY HolderIsFirst DEF ChatInv, ChatTyped, StagesOK, Queue, NullCached, google, requests
<1>2. /\ notebookLock' \in Seq(Calls) /\ convLock' \in [Convs -> Seq(Calls)]
      /\ LeftBy(notebookLock', notebookLock, a)
      /\ \A c \in Convs : LeftBy(convLock'[c], convLock[c], a)
  BY LeaveEffect DEF ChatInv, NullCached
<1>3. CacheOK' /\ turns' \in [Convs -> Seq(Asks)] /\ Extended(a, conv[a])
  BY <1>1, CacheTurnEffect DEF ChatInv, NullCached
<1>4. a \notin late =>
        \A b \in null : at[b] = "caching" /\ conv[b] = conv[a] /\ b # a => NotAfter(a, b)
  <2>1. ASSUME NEW b \in null, at[b] = "caching", conv[b] = conv[a], b # a
        PROVE  Before(convLock[conv[a]], a, b)
    <3>1. convLock[conv[a]] \in Seq(Calls) /\ conv[a] # NoConv /\ b \in Calls
      BY <1>1, ChatAssumption DEF ChatInv, ChatTyped, Calls
    <3>2. Contains(convLock[conv[a]], b)
      BY <2>1, <3>1 DEF ChatInv, LocksOK, Awaiting, Queue
    <3> QED
      BY <1>1, <2>1, <3>1, <3>2, FirstIsBefore
  <2> QED
    BY <1>1, <2>1 DEF ChatInv, OrderOK, QueueOrder
<1>5. ChatTyped'
  BY <1>1, <1>2, <1>3 DEF ChatInv, ChatTyped, Stages
<1>6. CacheOK'
  BY <1>3
<1>7. StagesOK'
  BY <1>1 DEF ChatInv, StagesOK
<1>8. LocksOK'
  BY <1>1, <1>2 DEF ChatInv, LocksOK, Holding, Awaiting, Queuing, ChatTyped, Queue, LeftBy
<1>9. ExecutedOK'
  BY <1>1, <1>3 DEF ChatInv, ExecutedOK, LoggedOK, CachedOK, FollowUpsLogged, NullsLogged,
     ChatTyped, Calls, Extended
<1>10. OrderOK'
  <2>1. FollowUpOrder'
    BY <1>1 DEF ChatInv, OrderOK, FollowUpOrder, NotAfter
  <2>2. NullOrder'
    BY <1>1 DEF ChatInv, OrderOK, NullOrder, NotAfter
  <2>3. QueueOrder'
    BY <1>1, <1>2, <1>3, <1>4, OneFirst, Inside DEF ChatInv, LocksOK, ExecutedOK, OrderOK,
       DeletedOK, QueueOrder, NullOrder, NotAfter, LoggedOK, Queuing, Holding, StagesOK,
       ChatTyped, Calls, Queue, JoinedBy, LeftBy
  <2>4. CacheOrder'
    <3> SUFFICES ASSUME NEW d \in Convs, NEW x \in null', NEW y \in null',
                        Contains(turns'[d], x), x \notin late',
                        at'[y] = "caching", conv'[y] = d
                 PROVE  NotAfter(x, y)'
      BY DEF CacheOrder
    <3>1. x \in null /\ y \in null /\ y # a /\ at[y] = "caching" /\ conv[y] = d
      BY <1>1 DEF ChatInv, ChatTyped
    <3>2. CASE Contains(turns[d], x)
      BY <1>1, <3>2 DEF ChatInv, OrderOK, CacheOrder, NotAfter
    <3>3. CASE ~Contains(turns[d], x)
      <4>1. x = a /\ d = conv[a]
        BY <1>3, <3>3 DEF Extended
      <4> QED
        BY <1>1, <1>4, <3>1, <4>1 DEF NotAfter
    <3> QED
      BY <3>2, <3>3
  <2> QED
    BY <2>1, <2>2, <2>3, <2>4 DEF OrderOK
<1>11. LineageOK'
  BY <1>1, <1>3, OneFirst DEF ChatInv, LineageOK, StagesOK, LocksOK, Holding, ChatTyped,
     Calls, Queue, Extended
<1>12. DeletedOK'
  <2>1. GoneLogged'
    BY <1>1 DEF ChatInv, DeletedOK, GoneLogged
  <2>2. CacheTold'
    <3> SUFFICES ASSUME NEW d \in Convs, ~Deleting(d)', NEW x, Contains(turns'[d], x)
                 PROVE  x \notin Told'
      BY DEF CacheTold
    <3>1. Told' = Told /\ ~Deleting(d)
      BY <1>1 DEF Told, Deleting
    <3>2. CASE Contains(turns[d], x)
      BY <3>1, <3>2 DEF ChatInv, DeletedOK, CacheTold
    <3>3. CASE ~Contains(turns[d], x)
      BY <1>1, <1>3, <3>3 DEF Extended, Told
    <3> QED
      BY <3>2, <3>3
  <2>3. HistoryTold'
    BY <1>1 DEF ChatInv, DeletedOK, HistoryTold, Told
  <2> QED
    BY <2>1, <2>2, <2>3 DEF DeletedOK
<1>13. CachedInServerOrder'
  BY <1>1, <1>3 DEF ChatInv, CachedInServerOrder, OrderOK, CacheOrder, NotAfter, Extended
<1>14. Lineage'
  BY <1>1, <1>3 DEF ChatInv, Lineage, Extended
<1> QED
  BY <1>5, <1>6, <1>7, <1>8, <1>9, <1>10, <1>11, <1>12, <1>13, <1>14 DEF ChatInv

(* From the answer of a delete on, no deleted turn is cached.              *)
LEMMA DeleteAnsweredKeeps ==
  ASSUME ChatInv, NEW k \in Calls, DeleteAnswered(k)
  PROVE  ChatInv'
<1>1. /\ k \in Deletes /\ k \notin Asks /\ at[k] = "sent" /\ k \notin net /\ conv[k] \in Convs
      /\ First(convLock[conv[k]], k)
      /\ at' = [at EXCEPT ![k] = "done"]
      /\ UNCHANGED <<conv, null, hist, net, stale, replays, late, log, gone, current, others, moved, unsure>>
  BY ChatAssumption DEF ChatInv, ChatTyped, StagesOK, LocksOK, Holding, Queue,
         DeleteAnswered, google, requests
<1>2. /\ notebookLock' \in Seq(Calls) /\ convLock' \in [Convs -> Seq(Calls)]
      /\ LeftBy(notebookLock', notebookLock, k)
      /\ \A c \in Convs : LeftBy(convLock'[c], convLock[c], k)
  BY LeaveEffect DEF ChatInv, DeleteAnswered
<1>3. /\ CacheOK' /\ turns' \in [Convs -> Seq(Asks)] /\ Reduced
      /\ \A x : ~Contains(turns'[conv[k]], x)
  BY <1>1, ClearEffect DEF ChatInv, DeleteAnswered
<1>4. ChatTyped'
  BY <1>1, <1>2, <1>3 DEF ChatInv, ChatTyped, Stages
<1>5. CacheOK'
  BY <1>3
<1>6. StagesOK'
  BY <1>1, <1>2, <1>3, OneFirst, SetOf, ChatAssumption DEF ChatInv, StagesOK, ChatTyped, Stages,
         Calls
<1>7. LocksOK'
  BY <1>1, <1>2 DEF ChatInv, LocksOK, Holding, Awaiting, Queuing, ChatTyped, Queue, LeftBy
<1>8. ExecutedOK'
  BY <1>1, <1>3 DEF ChatInv, ExecutedOK, LoggedOK, CachedOK, FollowUpsLogged, NullsLogged,
     ChatTyped, Calls, Reduced
<1>9. OrderOK'
  <2>1. FollowUpOrder'
    BY <1>1, ChatAssumption DEF ChatInv, OrderOK, FollowUpOrder, NotAfter
  <2>2. NullOrder'
    BY <1>1, ChatAssumption DEF ChatInv, ChatTyped, OrderOK, NullOrder, NotAfter
  <2>3. QueueOrder'
    BY <1>1, <1>2 DEF ChatInv, ChatTyped, OrderOK, QueueOrder, NotAfter, LeftBy
  <2>4. CacheOrder'
    BY <1>1, <1>3 DEF ChatInv, ChatTyped, OrderOK, CacheOrder, NotAfter, Reduced
  <2> QED
    BY <2>1, <2>2, <2>3, <2>4 DEF OrderOK
<1>10. LineageOK'
  BY <1>1, <1>2, <1>3, OneFirst, SetOf, ChatAssumption DEF ChatInv, LineageOK, ExecutedOK,
         LoggedOK, CachedOK, FollowUpsLogged, NullsLogged, StagesOK, LocksOK, Holding, Awaiting,
         Queuing, ChatTyped, Calls, Queue, Extended, Reduced
<1>11. DeletedOK'
  <2>1. GoneLogged'
    BY <1>1 DEF ChatInv, DeletedOK, GoneLogged
  <2>2. CacheTold'
    BY <1>1, <1>3 DEF ChatInv, DeletedOK, CacheTold, Told, Deleting, ChatTyped, Calls,
       Reduced
  <2>3. HistoryTold'
    BY <1>1 DEF ChatInv, DeletedOK, HistoryTold, Told
  <2> QED
    BY <2>1, <2>2, <2>3 DEF DeletedOK
<1>12. CachedInServerOrder'
  BY <1>1, <1>3 DEF ChatInv, CachedInServerOrder, Reduced
<1>13. Lineage'
  BY <1>1, <1>3 DEF ChatInv, Lineage, Reduced
<1> QED
  BY <1>4, <1>5, <1>6, <1>7, <1>8, <1>9, <1>10, <1>11, <1>12, <1>13 DEF ChatInv

(* A delete that fails after it was executed leaves this client unsure.    *)
LEMMA FailKeeps ==
  ASSUME ChatInv, NEW k \in Calls,
         at[k] \in {"waiting", "sent", "answered", "caching"}, Fail(k)
  PROVE  ChatInv'
<1>1. /\ at' = [at EXCEPT ![k] = "failed"]
      /\ UNCHANGED <<conv, null, hist, lru, turns, net, stale, replays, late, log, gone, current, others, moved>>
  BY DEF Fail, cache, requests
<1>2. /\ notebookLock' \in Seq(Calls) /\ convLock' \in [Convs -> Seq(Calls)]
      /\ LeftBy(notebookLock', notebookLock, k)
      /\ \A c \in Convs : LeftBy(convLock'[c], convLock[c], k)
  BY LeaveEffect DEF ChatInv, Fail
<1>3. /\ unsure \subseteq unsure' /\ unsure' \subseteq gone
      /\ k \in Deletes /\ at[k] = "sent"
           => conv[k] \in Convs /\ \A x \in gone : Contains(log[conv[k]], x) => x \in unsure'
  <2>1. CASE k \in Deletes /\ at[k] = "sent"
    <3>1. conv[k] \in Convs
      BY <2>1, ChatAssumption DEF ChatInv, StagesOK, ChatTyped
    <3>2. \A x : x \in ToSet(log[conv[k]]) <=> Contains(log[conv[k]], x)
      BY <3>1, SetOf DEF ChatInv, ChatTyped
    <3> QED
      BY <3>1, <3>2 DEF Fail, ChatInv, ChatTyped
  <2>2. CASE ~(k \in Deletes /\ at[k] = "sent")
    BY <2>2 DEF Fail, ChatInv, ChatTyped
  <2> QED
    BY <2>1, <2>2
<1>4. ChatTyped'
  BY <1>1, <1>2, <1>3 DEF ChatInv, ChatTyped, Stages
<1>5. CacheOK'
  BY <1>1 DEF ChatInv, CacheOK
<1>6. StagesOK'
  BY <1>1 DEF ChatInv, StagesOK
<1>7. LocksOK'
  BY <1>1, <1>2 DEF ChatInv, LocksOK, Holding, Awaiting, Queuing, ChatTyped, Queue,
     Calls, LeftBy
<1>8. ExecutedOK'
  BY <1>1 DEF ChatInv, ExecutedOK, LoggedOK, CachedOK, FollowUpsLogged, NullsLogged
<1>9. OrderOK'
  BY <1>1, <1>2, ChatAssumption DEF ChatInv, OrderOK, FollowUpOrder, NullOrder, QueueOrder,
         CacheOrder, NotAfter, LeftBy
<1>10. LineageOK'
  BY <1>1 DEF ChatInv, LineageOK
<1>11. DeletedOK'
  <2>1. GoneLogged'
    BY <1>1 DEF ChatInv, DeletedOK, GoneLogged
  <2>2. CacheTold'
    <3> SUFFICES ASSUME NEW d \in Convs, ~Deleting(d)', NEW x, Contains(turns'[d], x)
                 PROVE  x \notin Told'
      BY DEF CacheTold
    <3>1. Told' \subseteq Told /\ turns' = turns
      BY <1>1, <1>3 DEF Told
    <3>2. CASE ~Deleting(d)
      BY <3>1, <3>2 DEF ChatInv, DeletedOK, CacheTold
    <3>3. CASE Deleting(d)
      <4>1. k \in Deletes /\ at[k] = "sent" /\ conv[k] = d
        BY <1>1, <3>3 DEF Deleting
      <4> SUFFICES ASSUME x \in gone, x \notin null PROVE x \in unsure'
        BY <1>1 DEF Told
      <4>2. PICK c \in Convs : Contains(log[c], x)
        BY DEF ChatInv, DeletedOK, GoneLogged
      <4>3. c = d
        BY <3>1, <4>2 DEF ChatInv, ExecutedOK, LoggedOK, CachedOK
      <4> QED
        BY <1>3, <4>1, <4>2, <4>3
    <3> QED
      BY <3>2, <3>3
  <2>3. HistoryTold'
    BY <1>1, <1>3 DEF ChatInv, DeletedOK, HistoryTold, Told
  <2> QED
    BY <2>1, <2>2, <2>3 DEF DeletedOK
<1>12. CachedInServerOrder'
  BY <1>1 DEF ChatInv, CachedInServerOrder
<1>13. Lineage'
  BY <1>1 DEF ChatInv, Lineage
<1> QED
  BY <1>4, <1>5, <1>6, <1>7, <1>8, <1>9, <1>10, <1>11, <1>12, <1>13 DEF ChatInv

(* A request is posted again under the lock: nothing else changes.         *)
LEMMA PostAgainKeeps ==
  ASSUME ChatInv, NEW k \in Calls, PostAgain(k)
  PROVE  ChatInv'
<1>1. /\ at[k] = "sent" /\ net' = net \cup {k} /\ late \subseteq late'
      /\ replays' = replays + 1 /\ replays' \in 0 .. MaxReplays
      /\ UNCHANGED <<at, conv, null, hist, notebookLock, convLock, lru, turns, log, gone,
                     current, others, moved, unsure>>
  BY ChatAssumption DEF PostAgain, calls, locks, cache, ChatInv, ChatTyped
<1>2. \/ UNCHANGED <<stale, late>>
      \/ stale' = [stale EXCEPT ![k] = @ + 1] /\ late' = late \cup {k}
  BY DEF PostAgain
<1>3. stale' \in [Calls -> 0 .. replays']
  <2>1. stale \in [Calls -> 0 .. replays] /\ replays \in Nat
    BY DEF ChatInv, ChatTyped
  <2>2. \A j \in Calls : stale[j] \in 0 .. replays' /\ stale[j] + 1 \in 0 .. replays'
    BY <1>1, <2>1
  <2> QED
    BY <1>2, <2>1, <2>2
<1>4. ChatTyped'
  BY <1>1, <1>2, <1>3 DEF ChatInv, ChatTyped
<1>5. CacheOK'
  BY <1>1 DEF ChatInv, CacheOK
<1>6. StagesOK'
  <2>1. \A j \in Calls : j \in late' => j \in late \/ j = k
    BY <1>2
  <2>2. conv[k] # NoConv \/ k \in null
    BY <1>1 DEF ChatInv, StagesOK
  <2>3. \A j \in Calls : stale'[j] > 0 => stale[j] > 0 \/ (j = k /\ k \in late')
    BY <1>2 DEF ChatInv, ChatTyped
  <2> QED
    BY <1>1, <2>1, <2>2, <2>3 DEF ChatInv, StagesOK
<1>7. LocksOK'
  BY <1>1 DEF ChatInv, LocksOK, Holding, Awaiting, Queuing, Queue
<1>8. ExecutedOK'
  BY <1>1 DEF ChatInv, ExecutedOK, LoggedOK, CachedOK, FollowUpsLogged, NullsLogged
<1>9. OrderOK'
  BY <1>1 DEF ChatInv, OrderOK, FollowUpOrder, NullOrder, QueueOrder, CacheOrder, NotAfter
<1>10. LineageOK'
  BY <1>1 DEF ChatInv, LineageOK
<1>11. DeletedOK'
  BY <1>1 DEF ChatInv, DeletedOK, GoneLogged, CacheTold, HistoryTold, Told, Deleting
<1>12. CachedInServerOrder'
  BY <1>1 DEF ChatInv, CachedInServerOrder
<1>13. Lineage'
  BY <1>1 DEF ChatInv, Lineage
<1> QED
  BY <1>4, <1>5, <1>6, <1>7, <1>8, <1>9, <1>10, <1>11, <1>12, <1>13 DEF ChatInv

(* What is executed was posted, and is still awaited, given up or late.    *)
LEMMA Executing ==
  ASSUME ChatInv, NEW k \in Calls, Execute(k)
  PROVE  /\ net' \subseteq net /\ \A j : j \in net /\ j \notin net' => j = k
         /\ UNCHANGED <<replays, late>>
         /\ stale' \in [Calls -> 0 .. replays]
         /\ \A j \in Calls : stale'[j] > 0 => stale[j] > 0
         /\ at[k] \in {"sent", "failed"} \/ (k \in late /\ at[k] \notin {"idle", "waiting"})
         /\ k \notin null => conv[k] \in Convs
<1>1. CASE k \in net /\ net' = net \ {k} /\ UNCHANGED stale
  BY <1>1 DEF Execute, ChatInv, ChatTyped, StagesOK
<1>2. CASE stale[k] > 0 /\ stale' = [stale EXCEPT ![k] = @ - 1] /\ UNCHANGED net
  <2>1. stale[k] \in 0 .. replays /\ replays \in Nat /\ stale \in [Calls -> 0 .. replays]
    BY DEF ChatInv, ChatTyped
  <2>2. stale' \in [Calls -> 0 .. replays] /\ \A j \in Calls : stale'[j] > 0 => stale[j] > 0
    BY <1>2, <2>1
  <2> QED
    BY <1>2, <2>2 DEF Execute, ChatInv, ChatTyped, StagesOK
<1> QED
  BY <1>1, <1>2 DEF Execute

(* A null ask is executed: it is later than all that was answered.         *)
LEMMA RunNullAskKeeps ==
  ASSUME ChatInv, NEW a \in Calls, RunNullAsk(a)
  PROVE  ChatInv'
<1>1. /\ a \in null /\ a \in Asks /\ net' \subseteq net
      /\ at[a] \in {"sent", "failed"} \/ (a \in late /\ at[a] \notin {"idle", "waiting"})
      /\ \A j : j \in net /\ j \notin net' => j = a
      /\ UNCHANGED <<replays, late>>
      /\ stale' \in [Calls -> 0 .. replays]
      /\ \A j \in Calls : stale'[j] > 0 => stale[j] > 0
      /\ UNCHANGED <<at, conv, null, hist, notebookLock, convLock, lru, turns, gone, others,
                     moved, unsure>>
  BY Executing DEF ChatInv, ChatTyped, RunNullAsk, calls, locks, cache
<1>2. PICK c \in Convs : /\ current # NoConv => c = current
                       /\ log' = [log EXCEPT ![c] = Append(@, a)]
                       /\ current' = c
  BY DEF RunNullAsk
<1>3. /\ log' \in [Convs -> Seq(Asks)] /\ JoinedBy(log'[c], log[c], a)
      /\ \A d \in Convs : d # c => log'[d] = log[d]
  <2>1. c \in Convs /\ log[c] \in Seq(Asks) /\ a \in Asks
    BY <1>1 DEF ChatInv, ChatTyped
  <2>2. /\ Append(log[c], a) \in Seq(Asks)
        /\ JoinedBy(Append(log[c], a), log[c], a)
    BY <2>1, Joining
  <2>3. log' = [log EXCEPT ![c] = Append(@, a)]
    BY <1>2
  <2> QED
    BY <2>2, <2>3 DEF ChatInv, ChatTyped
<1>4. ChatTyped'
  BY <1>1, <1>2 DEF ChatInv, ChatTyped
<1>5. CacheOK'
  BY <1>1 DEF ChatInv, CacheOK
<1>6. StagesOK'
  BY <1>1 DEF ChatInv, StagesOK
<1>7. LocksOK'
  BY <1>1 DEF ChatInv, LocksOK, Holding, Awaiting, Queuing, Queue
<1>8. ExecutedOK'
  <2>1. LoggedOK'
    BY <1>1, <1>3, Inside DEF ChatInv, ExecutedOK, LoggedOK, JoinedBy
  <2>2. CachedOK'
    BY <1>1 DEF ChatInv, ExecutedOK, CachedOK
  <2>3. FollowUpsLogged'
    BY <1>1, <1>2, <1>3 DEF ChatInv, ExecutedOK, FollowUpsLogged, JoinedBy
  <2>4. NullsLogged'
    <3> SUFFICES ASSUME NEW b \in null' \ moved'
                 PROVE  /\ at'[b] \in {"sent", "answered"} /\ b \notin net'
                             => current' # NoConv /\ Contains(log'[current'], b)
                        /\ at'[b] \in {"caching", "done"} => Contains(log'[conv'[b]], b)
      BY DEF NullsLogged
    <3>1. \A d \in Convs : Contains(log[d], b) => Contains(log'[d], b)
      BY <1>3 DEF JoinedBy
    <3>2. b \in Calls /\ at'[b] = at[b] /\ conv'[b] = conv[b] /\ conv[b] \in Convs \cup {NoConv}
      BY <1>1 DEF ChatInv, ChatTyped, Calls
    <3>3. CASE b = a
      <4>1. current' # NoConv /\ Contains(log'[current'], b)
        BY <1>2, <1>3, <3>3, ChatAssumption DEF JoinedBy
      <4>2. at[b] \in {"caching", "done"} => Contains(log[conv[b]], b) /\ conv[b] # NoConv
        BY <1>1, <3>2 DEF ChatInv, ExecutedOK, NullsLogged, StagesOK
      <4> QED
        BY <3>1, <3>2, <4>1, <4>2
    <3>4. CASE b # a
      <4>1. /\ at[b] \in {"sent", "answered"} /\ b \notin net
                 => current # NoConv /\ Contains(log[current], b)
            /\ at[b] \in {"caching", "done"} => Contains(log[conv[b]], b) /\ conv[b] # NoConv
        BY <1>1, <3>2 DEF ChatInv, ExecutedOK, NullsLogged, StagesOK
      <4> QED
        BY <1>1, <1>2, <3>1, <3>4, <4>1
    <3> QED
      BY <3>3, <3>4
  <2> QED
    BY <2>1, <2>2, <2>3, <2>4 DEF ExecutedOK
<1>9. OrderOK'
  <2>1. ASSUME NEW x, NEW y, x # a \/ x \in late, NotAfter(x, y), NEW d \in Convs
        PROVE  x \notin late => ~Before(log'[d], y, x)
    BY <1>1, <1>3, <2>1 DEF NotAfter, JoinedBy
  <2>2. \A x, y : x \notin late /\ x # a /\ NotAfter(x, y) => NotAfter(x, y)'
    BY <2>1 DEF NotAfter
  <2>3. a \in late \/ at[a] \notin {"caching", "done"}
    BY <1>1
  <2>4. FollowUpOrder'
    BY <1>1, <2>2, <2>3 DEF ChatInv, OrderOK, FollowUpOrder
  <2>5. NullOrder'
    BY <1>1, <2>2, <2>3 DEF ChatInv, OrderOK, NullOrder
  <2>6. QueueOrder'
    BY <1>1, <2>2, <2>3 DEF ChatInv, OrderOK, QueueOrder
  <2>7. CacheOrder'
    BY <1>1, <2>2, <2>3 DEF ChatInv, OrderOK, CacheOrder, ExecutedOK, CachedOK
  <2> QED
    BY <2>4, <2>5, <2>6, <2>7 DEF OrderOK
<1>10. LineageOK'
  BY <1>1 DEF ChatInv, LineageOK
<1>11. DeletedOK'
  <2>1. GoneLogged'
    BY <1>1, <1>3 DEF ChatInv, DeletedOK, GoneLogged, JoinedBy
  <2>2. CacheTold'
    BY <1>1 DEF ChatInv, DeletedOK, CacheTold, Told, Deleting
  <2>3. HistoryTold'
    BY <1>1 DEF ChatInv, DeletedOK, HistoryTold, Told
  <2> QED
    BY <2>1, <2>2, <2>3 DEF DeletedOK
<1>12. CachedInServerOrder'
  <2> SUFFICES ASSUME NEW d \in Convs, NEW x \in Asks, NEW y \in Asks,
                      Before(turns'[d], x, y), x # y, x \notin late',
                      x \in null' <=> y \in null'
               PROVE  ~Before(log'[d], y, x)
    BY DEF CachedInServerOrder
  <2>1. /\ Contains(turns[d], x) /\ Contains(turns[d], y) /\ Before(turns[d], x, y)
    BY <1>1, Inside
  <2>2. at[x] = "done" /\ at[y] = "done"
    BY <2>1 DEF ChatInv, ExecutedOK, CachedOK
  <2>3. x \in null <=> y \in null
    BY <1>1, <2>2
  <2>4. ~Before(log[d], y, x)
    BY <1>1, <2>1, <2>3 DEF ChatInv, CachedInServerOrder
  <2> QED
    BY <1>1, <1>3, <2>2, <2>4 DEF JoinedBy
<1>13. Lineage'
  BY <1>1, <1>3 DEF ChatInv, Lineage, JoinedBy
<1> QED
  BY <1>4, <1>5, <1>6, <1>7, <1>8, <1>9, <1>10, <1>11, <1>12, <1>13 DEF ChatInv

(* A follow-up is executed.                                                *)
LEMMA RunFollowUpKeeps ==
  ASSUME ChatInv, NEW a \in Calls, RunFollowUp(a)
  PROVE  ChatInv'
<1>1. /\ a \in Asks /\ a \notin null /\ net' \subseteq net /\ conv[a] \in Convs
      /\ at[a] \in {"sent", "failed"} \/ (a \in late /\ at[a] \notin {"idle", "waiting"})
      /\ \A j : j \in net /\ j \notin net' => j = a
      /\ UNCHANGED <<replays, late>>
      /\ stale' \in [Calls -> 0 .. replays]
      /\ \A j \in Calls : stale'[j] > 0 => stale[j] > 0
      /\ log' = [log EXCEPT ![conv[a]] = Append(@, a)]
      /\ UNCHANGED <<at, conv, null, hist, notebookLock, convLock, lru, turns, gone, others,
                     unsure>>
  BY Executing DEF RunFollowUp, calls, locks, cache
<1>2. /\ current' \in Convs \cup {NoConv}
      /\ \A x : x \in moved' <=> \/ x \in moved
                                \/ /\ current' # current /\ x \in null
                                   /\ at[x] \in {"sent", "answered"} /\ x \notin net
  BY DEF ChatInv, ChatTyped, RunFollowUp, Disturb, Unresolved
<1>3. /\ log' \in [Convs -> Seq(Asks)] /\ JoinedBy(log'[conv[a]], log[conv[a]], a)
      /\ \A d \in Convs : d # conv[a] => log'[d] = log[d]
  <2>1. conv[a] \in Convs /\ log[conv[a]] \in Seq(Asks) /\ a \in Asks
    BY <1>1 DEF ChatInv, ChatTyped
  <2>2. /\ Append(log[conv[a]], a) \in Seq(Asks)
        /\ JoinedBy(Append(log[conv[a]], a), log[conv[a]], a)
    BY <2>1, Joining
  <2>3. log' = [log EXCEPT ![conv[a]] = Append(@, a)]
    BY <1>1
  <2> QED
    BY <2>1, <2>2, <2>3 DEF ChatInv, ChatTyped
<1>4. ChatTyped'
  BY <1>1, <1>2 DEF ChatInv, ChatTyped
<1>5. CacheOK'
  BY <1>1 DEF ChatInv, CacheOK
<1>6. StagesOK'
  BY <1>1 DEF ChatInv, StagesOK
<1>7. LocksOK'
  BY <1>1 DEF ChatInv, LocksOK, Holding, Awaiting, Queuing, Queue
<1>8. ExecutedOK'
  <2>1. LoggedOK'
    BY <1>1, <1>3, Inside DEF ChatInv, ExecutedOK, LoggedOK, JoinedBy
  <2>2. CachedOK'
    BY <1>1 DEF ChatInv, ExecutedOK, CachedOK
  <2>3. FollowUpsLogged'
    BY <1>1, <1>2, <1>3, OneFirst, Inside DEF ChatInv, LocksOK, ExecutedOK, OrderOK, DeletedOK,
       FollowUpsLogged, StagesOK, ChatTyped, Calls, JoinedBy
  <2>4. NullsLogged'
    BY <1>1, <1>2, <1>3 DEF ChatInv, LocksOK, ExecutedOK, DeletedOK, NullsLogged, JoinedBy
  <2> QED
    BY <2>1, <2>2, <2>3, <2>4 DEF ExecutedOK
<1>9. OrderOK'
  <2>1. ASSUME NEW x, NEW y, x # a \/ x \in late, NotAfter(x, y), NEW d \in Convs
        PROVE  x \notin late => ~Before(log'[d], y, x)
    BY <1>1, <1>3, <2>1 DEF NotAfter, JoinedBy
  <2>2. \A x, y : x \notin late /\ x # a /\ NotAfter(x, y) => NotAfter(x, y)'
    BY <2>1 DEF NotAfter
  <2>3. a \in late \/ at[a] \notin {"caching", "done"}
    BY <1>1
  <2>4. FollowUpOrder'
    BY <1>1, <2>2, <2>3 DEF ChatInv, OrderOK, FollowUpOrder
  <2>5. NullOrder'
    BY <1>1, <2>2, <2>3 DEF ChatInv, OrderOK, NullOrder
  <2>6. QueueOrder'
    BY <1>1, <2>2, <2>3 DEF ChatInv, OrderOK, QueueOrder
  <2>7. CacheOrder'
    BY <1>1, <2>2, <2>3 DEF ChatInv, OrderOK, CacheOrder, ExecutedOK, CachedOK
  <2> QED
    BY <2>4, <2>5, <2>6, <2>7 DEF OrderOK
<1>10. LineageOK'
  BY <1>1 DEF ChatInv, LineageOK
<1>11. DeletedOK'
  <2>1. GoneLogged'
    BY <1>1, <1>3 DEF ChatInv, DeletedOK, GoneLogged, JoinedBy
  <2>2. CacheTold'
    BY <1>1 DEF ChatInv, DeletedOK, CacheTold, Told, Deleting
  <2>3. HistoryTold'
    BY <1>1 DEF ChatInv, DeletedOK, HistoryTold, Told
  <2> QED
    BY <2>1, <2>2, <2>3 DEF DeletedOK
<1>12. CachedInServerOrder'
  <2> SUFFICES ASSUME NEW d \in Convs, NEW x \in Asks, NEW y \in Asks,
                      Before(turns'[d], x, y), x # y, x \notin late',
                      x \in null' <=> y \in null'
               PROVE  ~Before(log'[d], y, x)
    BY DEF CachedInServerOrder
  <2>1. /\ Contains(turns[d], x) /\ Contains(turns[d], y) /\ Before(turns[d], x, y)
    BY <1>1, Inside
  <2>2. at[x] = "done" /\ at[y] = "done"
    BY <2>1 DEF ChatInv, ExecutedOK, CachedOK
  <2>3. x \in null <=> y \in null
    BY <1>1, <2>2
  <2>4. ~Before(log[d], y, x)
    BY <1>1, <2>1, <2>3 DEF ChatInv, CachedInServerOrder
  <2> QED
    BY <1>1, <1>3, <2>2, <2>4 DEF JoinedBy
<1>13. Lineage'
  BY <1>1, <1>3 DEF ChatInv, Lineage, OrderOK, ExecutedOK, NullsLogged, JoinedBy
<1> QED
  BY <1>4, <1>5, <1>6, <1>7, <1>8, <1>9, <1>10, <1>11, <1>12, <1>13 DEF ChatInv

(* A delete is executed while its caller holds the lock, or has given up.  *)
LEMMA RunDeleteKeeps ==
  ASSUME ChatInv, NEW k \in Calls, RunDelete(k)
  PROVE  ChatInv'
<1>1. /\ k \in Deletes /\ k \notin Asks /\ net' \subseteq net /\ conv[k] \in Convs
      /\ \A j : j \in net /\ j \notin net' => j = k
      /\ UNCHANGED <<replays, late>>
      /\ stale' \in [Calls -> 0 .. replays]
      /\ \A j \in Calls : stale'[j] > 0 => stale[j] > 0
      /\ UNCHANGED <<at, conv, null, hist, notebookLock, convLock, lru, turns, log, others>>
  BY Executing, ChatAssumption DEF ChatInv, ChatTyped, RunDelete, calls, locks, cache
<1>2. /\ current' \in Convs \cup {NoConv}
      /\ \A x : x \in moved' <=> \/ x \in moved
                                \/ /\ current' # current /\ x \in null
                                   /\ at[x] \in {"sent", "answered"} /\ x \notin net
  BY DEF ChatInv, ChatTyped, RunDelete, DeleteTurns, Disturb, Unresolved
<1>3. \A x : /\ x \in ToSet(log[conv[k]]) <=> Contains(log[conv[k]], x)
             /\ x \in ToSet(log[conv[k]]) => x \in Asks
  BY <1>1, SetOf DEF ChatInv, ChatTyped
<1>4. /\ \A x : x \in gone' <=> x \in gone \/ Contains(log[conv[k]], x)
      /\ \A x : Contains(log[conv[k]], x) => x \in Asks
      /\ \A x : x \in unsure' <=> x \in unsure \/ (at[k] # "sent" /\ Contains(log[conv[k]], x))
  BY <1>3 DEF RunDelete, DeleteTurns
<1>5. ChatTyped'
  BY <1>1, <1>2, <1>4 DEF ChatInv, ChatTyped
<1>6. CacheOK'
  BY <1>1 DEF ChatInv, CacheOK
<1>7. StagesOK'
  BY <1>1 DEF ChatInv, StagesOK
<1>8. LocksOK'
  BY <1>1 DEF ChatInv, LocksOK, Holding, Awaiting, Queuing, Queue
<1>9. ExecutedOK'
  <2>1. \A b \in Asks : b \notin net' => b \notin net
    BY <1>1
  <2>2. LoggedOK' /\ CachedOK'
    BY <1>1 DEF ChatInv, ExecutedOK, LoggedOK, CachedOK
  <2>3. FollowUpsLogged'
    BY <1>1, <2>1 DEF ChatInv, ExecutedOK, FollowUpsLogged
  <2>4. NullsLogged'
    BY <1>1, <1>2, <2>1 DEF ChatInv, ChatTyped, ExecutedOK, NullsLogged
  <2> QED
    BY <2>2, <2>3, <2>4 DEF ExecutedOK
<1>10. OrderOK'
  BY <1>1 DEF ChatInv, OrderOK, FollowUpOrder, NullOrder, QueueOrder, CacheOrder, NotAfter
<1>11. LineageOK'
  BY <1>1 DEF ChatInv, LineageOK
<1>12. DeletedOK'
  <2>1. GoneLogged'
    BY <1>1, <1>4 DEF ChatInv, DeletedOK, GoneLogged
  <2>2. CacheTold'
    <3> SUFFICES ASSUME NEW d \in Convs, ~Deleting(d)', NEW x, Contains(turns'[d], x)
                 PROVE  x \notin Told'
      BY DEF CacheTold
    <3>1. Contains(turns[d], x) /\ ~Deleting(d)
      BY <1>1 DEF Deleting
    <3>2. x \notin Told /\ conv[x] = d
      BY <3>1 DEF ChatInv, DeletedOK, CacheTold, ExecutedOK, CachedOK
    <3>3. CASE d = conv[k]
      <4>1. at[k] # "sent"
        BY <1>1, <3>3 DEF Deleting
      <4> QED
        BY <1>1, <1>4, <3>2, <4>1 DEF Told
    <3>4. CASE d # conv[k]
      <4>1. Contains(log[conv[k]], x) => x \in null
        BY <1>1, <3>2, <3>4 DEF ChatInv, ExecutedOK, LoggedOK
      <4> QED
        BY <1>1, <1>4, <3>2, <4>1 DEF Told
    <3> QED
      BY <3>3, <3>4
  <2>3. HistoryTold'
    BY <1>1, <1>4, OneFirst DEF ChatInv, LocksOK, ExecutedOK, DeletedOK, HistoryTold, Told,
       LoggedOK, StagesOK, Holding, Calls
  <2> QED
    BY <2>1, <2>2, <2>3 DEF DeletedOK
<1>13. CachedInServerOrder'
  BY <1>1 DEF ChatInv, CachedInServerOrder
<1>14. Lineage'
  BY <1>1 DEF ChatInv, Lineage
<1> QED
  BY <1>5, <1>6, <1>7, <1>8, <1>9, <1>10, <1>11, <1>12, <1>13, <1>14 DEF ChatInv

(* What other clients delete, this client is unsure of.                    *)
LEMMA OtherClientKeeps ==
  ASSUME ChatInv, NEW c \in Convs, OtherClient(c)
  PROVE  ChatInv'
<1>1. /\ others' \in 0 .. MaxOthers
      /\ UNCHANGED <<at, conv, null, hist, notebookLock, convLock, lru, turns, net, stale, replays, late, log>>
  BY ChatAssumption DEF ChatInv, ChatTyped, OtherClient, calls, locks, cache, requests
<1>2. /\ current' \in Convs \cup {NoConv}
      /\ \A x : x \in moved' <=> \/ x \in moved
                                \/ /\ current' # current /\ x \in null
                                   /\ at[x] \in {"sent", "answered"} /\ x \notin net
  BY DEF ChatInv, ChatTyped, OtherClient, DeleteTurns, Disturb, Unresolved
<1>3. \A x : /\ x \in ToSet(log[c]) <=> Contains(log[c], x)
             /\ x \in ToSet(log[c]) => x \in Asks
  BY SetOf DEF ChatInv, ChatTyped
<1>4. /\ \A x : x \in gone' <=> x \in gone \/ Contains(log[c], x)
      /\ \A x : Contains(log[c], x) => x \in Asks
      /\ \A x : x \in unsure' <=> x \in unsure \/ Contains(log[c], x)
  BY <1>3 DEF OtherClient, DeleteTurns
<1>5. ChatTyped'
  BY <1>1, <1>2, <1>4 DEF ChatInv, ChatTyped
<1>6. CacheOK'
  BY <1>1 DEF ChatInv, CacheOK
<1>7. StagesOK'
  BY <1>1 DEF ChatInv, StagesOK
<1>8. LocksOK'
  BY <1>1 DEF ChatInv, LocksOK, Holding, Awaiting, Queuing, Queue
<1>9. ExecutedOK'
  BY <1>1, <1>2 DEF ChatInv, ExecutedOK, LoggedOK, CachedOK, FollowUpsLogged, NullsLogged
<1>10. OrderOK'
  BY <1>1, <1>2, <1>3, <1>4, OneFirst, SetOf, ChatAssumption DEF ChatInv, OrderOK, FollowUpOrder,
         NullOrder, QueueOrder, CacheOrder, NotAfter, ExecutedOK, LoggedOK, CachedOK,
         FollowUpsLogged, NullsLogged, StagesOK, LocksOK, Holding, Awaiting, Queuing, ChatTyped,
         Calls, Queue, JoinedBy, LeftBy, Extended, Reduced
<1>11. LineageOK'
  BY <1>1 DEF ChatInv, LineageOK
<1>12. DeletedOK'
  <2>1. GoneLogged'
    BY <1>1, <1>4 DEF ChatInv, DeletedOK, GoneLogged
  <2>2. CacheTold'
    BY <1>1, <1>4 DEF ChatInv, DeletedOK, CacheTold, Told, Deleting
  <2>3. HistoryTold'
    BY <1>1, <1>4 DEF ChatInv, DeletedOK, HistoryTold, Told
  <2> QED
    BY <2>1, <2>2, <2>3 DEF DeletedOK
<1>13. CachedInServerOrder'
  BY <1>1 DEF ChatInv, CachedInServerOrder
<1>14. Lineage'
  BY <1>1 DEF ChatInv, Lineage
<1> QED
  BY <1>5, <1>6, <1>7, <1>8, <1>9, <1>10, <1>11, <1>12, <1>13, <1>14 DEF ChatInv

(* clear_cache may come at any time: it only removes turns.                *)
LEMMA ClearCacheKeeps ==
  ASSUME ChatInv, ClearCache
  PROVE  ChatInv'
<1>1. UNCHANGED <<at, conv, null, hist, notebookLock, convLock, net, stale, replays, late, log, gone, current, others,
                  moved, unsure>>
  BY DEF ClearCache, calls, locks, google, requests
<1>2. CacheOK' /\ turns' \in [Convs -> Seq(Asks)] /\ Reduced
  BY ClearEffect, ClearAllEffect DEF ChatInv, ClearCache
<1>3. ChatTyped'
  BY <1>1, <1>2 DEF ChatInv, ChatTyped
<1>4. CacheOK'
  BY <1>2
<1>5. StagesOK'
  BY <1>1 DEF ChatInv, StagesOK
<1>6. LocksOK'
  BY <1>1 DEF ChatInv, LocksOK, Holding, Awaiting, Queuing, Queue
<1>7. ExecutedOK'
  BY <1>1, <1>2 DEF ChatInv, ExecutedOK, LoggedOK, CachedOK, FollowUpsLogged, NullsLogged,
     Reduced
<1>8. OrderOK'
  BY <1>1, <1>2 DEF ChatInv, OrderOK, FollowUpOrder, NullOrder, QueueOrder, CacheOrder,
     NotAfter, Reduced
<1>9. LineageOK'
  <2> SUFFICES ASSUME NEW b \in Asks \ null', at'[b] = "sent",
                      NEW x, Contains(turns'[conv'[b]], x)
               PROVE  x \in hist'[b]
    BY DEF LineageOK
  <2>1. conv[b] \in Convs
    BY <1>1 DEF ChatInv, ChatTyped, StagesOK, Calls
  <2>2. Contains(turns[conv[b]], x)
    BY <1>1, <1>2, <2>1 DEF Reduced
  <2> QED
    BY <1>1, <2>2 DEF ChatInv, LineageOK
<1>10. DeletedOK'
  <2>1. GoneLogged'
    BY <1>1 DEF ChatInv, DeletedOK, GoneLogged
  <2>2. CacheTold'
    BY <1>1, <1>2 DEF ChatInv, DeletedOK, CacheTold, Told, Deleting, Reduced
  <2>3. HistoryTold'
    BY <1>1 DEF ChatInv, DeletedOK, HistoryTold, Told
  <2> QED
    BY <2>1, <2>2, <2>3 DEF DeletedOK
<1>11. CachedInServerOrder'
  BY <1>1, <1>2 DEF ChatInv, CachedInServerOrder, Reduced
<1>12. Lineage'
  BY <1>1, <1>2 DEF ChatInv, Lineage, Reduced
<1> QED
  BY <1>3, <1>4, <1>5, <1>6, <1>7, <1>8, <1>9, <1>10, <1>11, <1>12 DEF ChatInv

LEMMA ChatStutters ==
  ASSUME ChatInv, UNCHANGED chatVars
  PROVE  ChatInv'
<1>1. UNCHANGED <<at, conv, null, hist, notebookLock, convLock, lru, turns, net, stale, replays, late, log, gone,
                  current, others, moved, unsure>>
  BY DEF chatVars, requests
<1>2. ChatTyped'
  BY <1>1 DEF ChatInv, ChatTyped
<1>3. CacheOK'
  BY <1>1 DEF ChatInv, CacheOK
<1>4. StagesOK'
  BY <1>1 DEF ChatInv, StagesOK
<1>5. LocksOK'
  BY <1>1 DEF ChatInv, LocksOK, Holding, Awaiting, Queuing, Queue
<1>6. ExecutedOK'
  BY <1>1 DEF ChatInv, ExecutedOK, LoggedOK, CachedOK, FollowUpsLogged, NullsLogged
<1>7. OrderOK'
  BY <1>1 DEF ChatInv, OrderOK, FollowUpOrder, NullOrder, QueueOrder, CacheOrder, NotAfter
<1>8. LineageOK'
  BY <1>1 DEF ChatInv, LineageOK
<1>9. DeletedOK'
  BY <1>1 DEF ChatInv, DeletedOK, GoneLogged, CacheTold, HistoryTold, Told, Deleting
<1>10. CachedInServerOrder'
  BY <1>1 DEF ChatInv, CachedInServerOrder
<1>11. Lineage'
  BY <1>1 DEF ChatInv, Lineage
<1> QED
  BY <1>2, <1>3, <1>4, <1>5, <1>6, <1>7, <1>8, <1>9, <1>10, <1>11 DEF ChatInv

LEMMA Single ==
  ASSUME NEW S, NEW e \in S
  PROVE  /\ <<e>> \in Seq(S) /\ Len(<<e>>) = 1 /\ IsInjective(<<e>>)
         /\ \A x : Contains(<<e>>, x) <=> x = e
         /\ \A x, y : ~Before(<<e>>, x, y)
BY DEF IsInjective, Contains, Before

-----------------------------------------------------------------------------
(* The theorems *)

(* The invariant holds initially: one conversation with the turn Past.     *)
LEMMA ChatStarts == ASSUME ChatInit PROVE ChatInv
<1>1. Past \in Asks /\ Past \in Calls /\ Past \notin Deletes /\ NoConv \notin Convs
  BY ChatAssumption DEF Calls
<1>2. PICK c \in Convs :
        /\ conv = [k \in Calls |-> IF k = Past THEN c ELSE NoConv]
        /\ lru = <<c>> /\ current = c
        /\ turns = [d \in Convs |-> IF d = c THEN <<Past>> ELSE <<>>]
        /\ log = turns
  BY DEF ChatInit
<1>3. /\ at = [k \in Calls |-> IF k = Past THEN "done" ELSE "idle"]
      /\ stale = [k \in Calls |-> 0] /\ replays = 0 /\ late = {}
      /\ null = {} /\ net = {} /\ gone = {} /\ moved = {} /\ unsure = {} /\ others = 0
      /\ hist = [a \in Asks |-> {}] /\ notebookLock = <<>>
      /\ convLock = [d \in Convs |-> <<>>]
  BY DEF ChatInit
<1>4. \A d \in Convs :
        /\ \A x : Contains(turns[d], x) <=> d = c /\ x = Past
        /\ \A x, y : ~Before(turns[d], x, y)
        /\ turns[d] \in Seq(Asks) /\ Len(turns[d]) <= 1 /\ (turns[d] # <<>> <=> d = c)
  <2>1. <<Past>> \in Seq(Asks) /\ Len(<<Past>>) = 1 /\ <<Past>> # <<>>
    BY <1>1
  <2>2. <<>> \in Seq(Asks) /\ Len(<<>>) = 0
    OBVIOUS
  <2>3. /\ \A x : Contains(<<Past>>, x) <=> x = Past
        /\ \A x, y : ~Before(<<Past>>, x, y)
    BY <1>1, Single
  <2>4. \A d \in Convs : turns[d] = IF d = c THEN <<Past>> ELSE <<>>
    BY <1>2
  <2>5. ASSUME NEW d \in Convs
        PROVE  /\ \A x : Contains(turns[d], x) <=> d = c /\ x = Past
               /\ \A x, y : ~Before(turns[d], x, y)
               /\ turns[d] \in Seq(Asks) /\ Len(turns[d]) <= 1 /\ (turns[d] # <<>> <=> d = c)
    <3>1. CASE d = c
      <4>1. turns[d] = <<Past>>
        BY <2>4, <3>1
      <4> QED
        BY <2>1, <2>3, <3>1, <4>1
    <3>2. CASE d # c
      <4>1. turns[d] = <<>>
        BY <2>4, <3>2
      <4> QED
        BY <2>2, <3>2, <4>1, NothingInEmpty
    <3> QED
      BY <3>1, <3>2
  <2> QED
    BY <2>5
<1>5. ChatTyped
  BY <1>2, <1>3, ChatAssumption DEF ChatTyped, Stages
<1>6. CacheOK
  BY <1>2, Single, ChatAssumption DEF CacheOK
<1>7. StagesOK
  BY <1>1, <1>2, <1>3 DEF StagesOK
<1>8. LocksOK
  BY <1>3, NothingInEmpty DEF LocksOK, Holding, Awaiting, Queuing
<1>9. ExecutedOK
  BY <1>1, <1>2, <1>3, <1>4 DEF ExecutedOK, LoggedOK, CachedOK, FollowUpsLogged, NullsLogged,
     Calls
<1>10. OrderOK
  BY <1>2, <1>4 DEF OrderOK, FollowUpOrder, NullOrder, QueueOrder, CacheOrder, NotAfter
<1>11. LineageOK /\ DeletedOK
  BY <1>3 DEF LineageOK, DeletedOK, GoneLogged, CacheTold, HistoryTold, Told, Calls
<1>12. CachedInServerOrder /\ Lineage
  BY <1>2, <1>4 DEF CachedInServerOrder, Lineage
<1> QED
  BY <1>5, <1>6, <1>7, <1>8, <1>9, <1>10, <1>11, <1>12 DEF ChatInv

(* Every step keeps it.                                                    *)
LEMMA ChatSteps == ASSUME ChatInv, [ChatNext]_chatVars PROVE ChatInv'
<1>1. CASE UNCHANGED chatVars
  BY <1>1, ChatStutters
<1>2. ASSUME NEW k \in Calls, CallStep(k) PROVE ChatInv'
  BY <1>2, SendKeeps, NullAnsweredKeeps, ResolveKeeps, DeleteAnsweredKeeps,
     FollowUpAnsweredKeeps, NullCachedKeeps, FailKeeps DEF CallStep, RequestFails
<1>3. ASSUME NEW k \in Calls, Cancel(k) PROVE ChatInv'
  BY <1>3, FailKeeps DEF Cancel
<1> QED
  BY <1>1, <1>2, <1>3, StartKeeps, PostAgainKeeps, RunNullAskKeeps, RunFollowUpKeeps, RunDeleteKeeps,
     OtherClientKeeps, ClearCacheKeeps DEF ChatNext

(* The invariant of the asks, for any number of calls and conversations and*)
(* any limits of the cache.                                                *)
THEOREM ChatInvariant == ChatSpec => []ChatInv
<1>1. ChatInit => ChatInv
  BY ChatStarts
<1>2. ChatInv /\ [ChatNext]_chatVars => ChatInv'
  BY ChatSteps
<1> QED
  BY <1>1, <1>2, PTL DEF ChatSpec

(* The conversation cache stays within its two limits and lists exactly the*)
(* conversations it has turns of, whichever asks, deletions, evictions and *)
(* clearings meet (_conversation_cache.py).                                *)
THEOREM ChatTypes == ChatSpec => []ChatTypeOK
<1>1. ChatInv => ChatTypeOK
  BY DEF ChatInv, ChatTyped, CacheOK, Stages, ChatTypeOK
<1> QED
  BY <1>1, ChatInvariant, PTL

(* However asks overlap, the turns of a conversation are cached in the order*)
(* in which Google has executed them, two follow-ups as well as two null   *)
(* asks: except behind an ask posted again with a request still on its way.*)
THEOREM ServerOrder == ChatSpec => []CachedInServerOrder
<1>1. ChatInv => CachedInServerOrder
  BY DEF ChatInv
<1> QED
  BY <1>1, ChatInvariant, PTL

(* A cached turn belongs to its conversation, unless somebody else changed *)
(* the most recent one before the answer of hPTbtc.                        *)
THEOREM RightConversation == ChatSpec => []CachedWhereItBelongs
<1>1. ASSUME ChatInv PROVE CachedWhereItBelongs
  <2> SUFFICES ASSUME NEW c \in Convs, NEW a \in ToSet(turns[c]), a \notin moved
               PROVE  a \in ToSet(log[c])
    BY DEF CachedWhereItBelongs
  <2>1. Contains(turns[c], a)
    BY <1>1, SetOf DEF ChatInv, ChatTyped
  <2>2. a \in Asks /\ at[a] = "done" /\ conv[a] = c
    BY <1>1, <2>1 DEF ChatInv, ExecutedOK, CachedOK
  <2>3. a \notin net
    BY <1>1, <2>2 DEF ChatInv, StagesOK, Calls
  <2>4. Contains(log[c], a)
    BY <1>1, <2>2, <2>3 DEF ChatInv, ExecutedOK, FollowUpsLogged, NullsLogged
  <2> QED
    BY <1>1, <2>4, SetOf DEF ChatInv, ChatTyped
<1> QED
  BY <1>1, ChatInvariant, PTL

(* An answered follow-up was posted with every earlier one that the cache  *)
(* still has: two of them never start from the same history, unless an     *)
(* earlier request of the second was still on its way.                     *)
THEOREM LineageHolds == ChatSpec => []Lineage
<1>1. ChatInv => Lineage
  BY DEF ChatInv
<1> QED
  BY <1>1, ChatInvariant, PTL

(* No awaited follow-up is executed with a turn from before a delete this  *)
(* client has been told of.                                                *)
THEOREM NoDeletedTurnIsSent == ChatSpec => NoDeletedHistory
<1>1. ChatInv => \A a \in Asks \ null :
                   at[a] = "sent" /\ (a \in net \ net' \/ stale'[a] < stale[a]) =>
                   hist[a] \cap (gone \ (null \cup unsure)) = {}
  BY DEF ChatInv, DeletedOK, HistoryTold, Told
<1> QED
  BY <1>1, ChatInvariant, PTL DEF NoDeletedHistory

=============================================================================
