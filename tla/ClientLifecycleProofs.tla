------------------------ MODULE ClientLifecycleProofs ------------------------
(***************************************************************************)
(* The tracker and the client that closes over it, for any number of       *)
(* operations, polls, tokens and overlapping close() calls.                *)
(*                                                                         *)
(* First the abstract tracker: its invariant joins the exact accounting    *)
(* (with the fact that no token belongs to two tasks, without which no     *)
(* count could be maintained) to the two properties close() depends on.    *)
(* Then the client: every step is a step of the tracker or leaves it       *)
(* alone, so all that was shown of the tracker holds here; and every       *)
(* teardown that counts as graceful began when the tracker was settled.    *)
(***************************************************************************)
EXTENDS ClientLifecycle, FiniteSetTheorems, TLAPS

(* The tracker. *)
TokensDisjoint ==
  \A s, t \in Tasks : s # t => held[s] \cap held[t] = {}

DrainInv ==
  /\ DrainTypeOK
  /\ TokensDisjoint
  /\ IsFiniteSet(OpenTokens)
  /\ Accounting
  /\ SettledIsEmpty
  /\ NoLostWakeup

-----------------------------------------------------------------------------
(* What a task holds is a finite part of what is out, so it can be counted. *)
LEMMA HeldFinite ==
  ASSUME DrainInv, NEW t \in Tasks
  PROVE  /\ held[t] \subseteq OpenTokens
         /\ IsFiniteSet(held[t])
         /\ Cardinality(held[t]) \in Nat
<1>1. held[t] \subseteq OpenTokens
  BY DEF OpenTokens
<1>2. IsFiniteSet(held[t])
  BY <1>1, FS_Subset DEF DrainInv
<1>3. QED
  BY <1>1, <1>2, FS_CardinalityType

(* A task with depth 0 holds nothing, and one with tokens has a depth.      *)
LEMMA DepthZero ==
  ASSUME DrainInv, NEW t \in Tasks
  PROVE  depth[t] = 0 <=> held[t] = {}
BY HeldFinite, FS_EmptySet DEF DrainInv, Accounting

(* With no token out, no task has a depth, so a draining tracker admits     *)
(* nobody.                                                                  *)
LEMMA EmptyRefusesAll ==
  ASSUME DrainInv, OpenTokens = {}, NEW t \in Tasks
  PROVE  depth[t] = 0
BY DepthZero, HeldFinite

-----------------------------------------------------------------------------
(* Handing out a fresh token keeps both counts, the finiteness and the      *)
(* disjointness.                                                            *)
LEMMA AdmitCounts ==
  ASSUME DrainInv, NEW t \in Tasks, Admit(t)
  PROVE  /\ DrainTypeOK'
         /\ TokensDisjoint'
         /\ IsFiniteSet(OpenTokens')
         /\ Accounting'
<1>1. PICK k \in Tokens \ OpenTokens : held' = [held EXCEPT ![t] = @ \cup {k}]
  BY DEF Admit
<1>2. OpenTokens' = OpenTokens \cup {k}
  BY <1>1 DEF OpenTokens, DrainInv, DrainTypeOK
<1>3. /\ IsFiniteSet(OpenTokens')
      /\ Cardinality(OpenTokens') = Cardinality(OpenTokens) + 1
  BY <1>1, <1>2, FS_AddElement DEF DrainInv
<1>4. \A u \in Tasks : held'[u] = IF u = t THEN held[t] \cup {k} ELSE held[u]
  BY <1>1 DEF DrainInv, DrainTypeOK
<1>5. k \notin held[t]
  BY <1>1 DEF OpenTokens
<1>6. Cardinality(held[t] \cup {k}) = Cardinality(held[t]) + 1
  BY <1>5, HeldFinite, FS_AddElement
<1>7. DrainTypeOK'
  BY <1>1 DEF Admit, DrainInv, DrainTypeOK
<1>8. TokensDisjoint'
  <2> SUFFICES ASSUME NEW a \in Tasks, NEW b \in Tasks, a # b
               PROVE  held'[a] \cap held'[b] = {}
    BY DEF TokensDisjoint
  <2>1. k \notin held[a] /\ k \notin held[b]
    BY <1>1 DEF OpenTokens
  <2> QED
    BY <2>1, <1>4 DEF DrainInv, TokensDisjoint
<1>9. Accounting'
  <2>1. inFlight' = Cardinality(OpenTokens')
    BY <1>3 DEF Admit, DrainInv, Accounting
  <2>2. ASSUME NEW u \in Tasks
        PROVE  depth'[u] = Cardinality(held'[u])
    <3>1. CASE u = t
      BY <3>1, <1>4, <1>6 DEF Admit, DrainInv, Accounting, DrainTypeOK
    <3>2. CASE u # t
      BY <3>2, <1>4 DEF Admit, DrainInv, Accounting, DrainTypeOK
    <3> QED
      BY <3>1, <3>2
  <2> QED
    BY <2>1, <2>2 DEF Accounting
<1> QED
  BY <1>3, <1>7, <1>8, <1>9

(* Giving a token back keeps them too: the clamp at depth 1 is never        *)
(* reached with more than one token out.                                    *)
LEMMA FinishCounts ==
  ASSUME DrainInv, NEW t \in Tasks, NEW k \in held[t], FinishTransportPost(t, k)
  PROVE  /\ DrainTypeOK'
         /\ TokensDisjoint'
         /\ IsFiniteSet(OpenTokens')
         /\ Accounting'
         /\ OpenTokens' \subseteq OpenTokens
<1>1. k \in OpenTokens
  BY DEF OpenTokens
<1>2. OpenTokens' = OpenTokens \ {k}
  BY DEF FinishTransportPost, GiveBack, OpenTokens, DrainInv, DrainTypeOK, TokensDisjoint
<1>3. /\ IsFiniteSet(OpenTokens')
      /\ Cardinality(OpenTokens') = Cardinality(OpenTokens) - 1
  BY <1>1, <1>2, FS_RemoveElement DEF DrainInv
<1>4. \A u \in Tasks : held'[u] = IF u = t THEN held[t] \ {k} ELSE held[u]
  BY DEF FinishTransportPost, GiveBack, DrainInv, DrainTypeOK
<1>5. Cardinality(held[t] \ {k}) = Cardinality(held[t]) - 1
  BY HeldFinite, FS_RemoveElement
<1>6. Cardinality(held[t]) \in Nat /\ Cardinality(held[t]) # 0
  BY HeldFinite, FS_EmptySet
<1>7. depth[t] \in Nat /\ depth[t] = Cardinality(held[t])
  BY DEF DrainInv, DrainTypeOK, Accounting
<1>8. depth' = [depth EXCEPT ![t] = depth[t] - 1]
  <2>1. (IF depth[t] <= 1 THEN 0 ELSE depth[t] - 1) = depth[t] - 1
    BY <1>6, <1>7
  <2> QED
    BY <2>1 DEF FinishTransportPost, GiveBack, DepthLeft
<1>9. inFlight = Cardinality(OpenTokens) /\ inFlight \in Nat /\ inFlight # 0
  BY <1>1, FS_EmptySet DEF DrainInv, Accounting, DrainTypeOK
<1>10. inFlight' = inFlight - 1
  BY DEF FinishTransportPost, GiveBack
<1>11. DrainTypeOK'
  <2>1. waiter' \in [Drainers -> WaiterState]
    BY DEF FinishTransportPost, GiveBack, Notify, WaiterState, DrainInv, DrainTypeOK
  <2>2. depth' \in [Tasks -> Nat]
    BY <1>6, <1>7, <1>8 DEF DrainInv, DrainTypeOK
  <2>3. held' \in [Tasks -> SUBSET Tokens]
    BY DEF FinishTransportPost, GiveBack, DrainInv, DrainTypeOK
  <2> QED
    BY <2>1, <2>2, <2>3, <1>9, <1>10
       DEF FinishTransportPost, GiveBack, DrainInv, DrainTypeOK
<1>12. TokensDisjoint'
  BY <1>4 DEF DrainInv, TokensDisjoint
<1>13. Accounting'
  <2>1. inFlight' = Cardinality(OpenTokens')
    BY <1>3, <1>9, <1>10
  <2>2. ASSUME NEW u \in Tasks
        PROVE  depth'[u] = Cardinality(held'[u])
    <3>1. CASE u = t
      BY <3>1, <1>4, <1>5, <1>7, <1>8 DEF DrainInv, DrainTypeOK
    <3>2. CASE u # t
      BY <3>2, <1>4, <1>8 DEF DrainInv, Accounting, DrainTypeOK
    <3> QED
      BY <3>1, <3>2
  <2> QED
    BY <2>1, <2>2 DEF Accounting
<1> QED
  BY <1>2, <1>3, <1>11, <1>12, <1>13

-----------------------------------------------------------------------------
(* Every step of the tracker keeps the invariant. *)
LEMMA InitIInv == DrainInit => DrainInv
<1> SUFFICES ASSUME DrainInit PROVE DrainInv
  OBVIOUS
<1>1. OpenTokens = {}
  BY DEF DrainInit, OpenTokens
<1>2. \A t \in Tasks : depth[t] = 0 /\ held[t] = {}
  BY DEF DrainInit
<1> QED
  BY <1>1, <1>2, FS_EmptySet
     DEF DrainInit, DrainInv, DrainTypeOK, WaiterState, TokensDisjoint, Accounting,
         SettledIsEmpty, NoLostWakeup

LEMMA AdmitIInv ==
  ASSUME DrainInv, NEW t \in Tasks, Admit(t),
         settled => FALSE
  PROVE  DrainInv'
<1>1. inFlight' # 0
  BY DEF Admit, DrainInv, DrainTypeOK
<1>2. NoLostWakeup'
  BY <1>1 DEF NoLostWakeup
<1>3. SettledIsEmpty'
  BY DEF Admit, SettledIsEmpty
<1> QED
  BY <1>2, <1>3, AdmitCounts DEF DrainInv

LEMMA FinishIInv ==
  ASSUME DrainInv, NEW t \in Tasks, NEW k \in held[t], FinishTransportPost(t, k)
  PROVE  DrainInv'
<1>1. NoLostWakeup'
  <2> SUFFICES ASSUME NEW d \in Drainers, waiter'[d] = "waiting"
               PROVE  inFlight' # 0
    BY DEF NoLostWakeup
  <2>1. CASE inFlight = 1
    BY <2>1 DEF FinishTransportPost, GiveBack, Notify, DrainInv, DrainTypeOK
  <2>2. CASE inFlight # 1
    BY <2>2 DEF FinishTransportPost, GiveBack
  <2> QED
    BY <2>1, <2>2
<1>2. SettledIsEmpty'
  BY FinishCounts DEF FinishTransportPost, GiveBack, SettledIsEmpty, DrainInv
<1> QED
  BY <1>1, <1>2, FinishCounts DEF DrainInv

(* The steps that touch no token. *)
LEMMA SameTokens ==
  ASSUME DrainInv, UNCHANGED <<inFlight, depth, held>>
  PROVE  /\ TokensDisjoint'
         /\ IsFiniteSet(OpenTokens')
         /\ Accounting'
         /\ OpenTokens' = OpenTokens
BY DEF DrainInv, TokensDisjoint, Accounting, OpenTokens

LEMMA NextIInv == DrainInv /\ [DrainNext]_drainVars => DrainInv'
<1> SUFFICES ASSUME DrainInv, [DrainNext]_drainVars PROVE DrainInv'
  OBVIOUS
<1>1. ASSUME NEW t \in Tasks, BeginTransportPost(t) PROVE DrainInv'
  <2>1. ~settled
    BY <1>1, EmptyRefusesAll DEF BeginTransportPost, DrainInv, SettledIsEmpty
  <2> QED
    BY <1>1, <2>1, AdmitIInv DEF BeginTransportPost
<1>2. ASSUME NEW t \in Tasks, RefuseTransportPost(t) PROVE DrainInv'
  BY <1>2, SameTokens
     DEF RefuseTransportPost, DrainInv, DrainTypeOK, SettledIsEmpty, NoLostWakeup
<1>3. ASSUME NEW s \in Tasks, NEW t \in Tasks, BeginTransportTask(s, t) PROVE DrainInv'
  <2>1. ~settled
    BY <1>3, EmptyRefusesAll DEF BeginTransportTask, DrainInv, SettledIsEmpty
  <2> QED
    BY <1>3, <2>1, AdmitIInv DEF BeginTransportTask
<1>4. ASSUME NEW t \in Tasks, NEW k \in held[t], FinishTransportPost(t, k) PROVE DrainInv'
  BY <1>4, FinishIInv
<1>5. ASSUME NEW d \in Drainers, DrainStart(d) PROVE DrainInv'
  <2>1. inFlight = 0 => OpenTokens = {}
    BY FS_EmptySet DEF DrainInv, Accounting
  <2>2. SettledIsEmpty'
    BY <1>5, <2>1, SameTokens DEF DrainStart, SettledIsEmpty, DrainInv
  <2>3. NoLostWakeup'
    BY <1>5 DEF DrainStart, NoLostWakeup, DrainInv, DrainTypeOK
  <2>4. DrainTypeOK'
    BY <1>5 DEF DrainStart, DrainInv, DrainTypeOK, WaiterState
  <2> QED
    BY <1>5, <2>2, <2>3, <2>4, SameTokens DEF DrainStart, DrainInv
<1>6. ASSUME NEW d \in Drainers, DrainWake(d) PROVE DrainInv'
  <2>1. inFlight = 0 => OpenTokens = {}
    BY FS_EmptySet DEF DrainInv, Accounting
  <2>2. SettledIsEmpty'
    BY <1>6, <2>1, SameTokens DEF DrainWake, SettledIsEmpty, DrainInv
  <2>3. NoLostWakeup'
    BY <1>6 DEF DrainWake, NoLostWakeup, DrainInv, DrainTypeOK
  <2>4. DrainTypeOK'
    BY <1>6 DEF DrainWake, DrainInv, DrainTypeOK, WaiterState
  <2> QED
    BY <1>6, <2>2, <2>3, <2>4, SameTokens DEF DrainWake, DrainInv
<1>7. ASSUME NEW d \in Drainers, DrainTimeout(d) PROVE DrainInv'
  BY <1>7, SameTokens
     DEF DrainTimeout, DrainInv, DrainTypeOK, WaiterState, SettledIsEmpty, NoLostWakeup
<1>8. ASSUME NEW d \in Drainers, DrainCancel(d) PROVE DrainInv'
  BY <1>8, SameTokens
     DEF DrainCancel, DrainInv, DrainTypeOK, WaiterState, SettledIsEmpty, NoLostWakeup
<1>9. CASE ResetAfterOpen
  BY <1>9, SameTokens
     DEF ResetAfterOpen, DrainInv, DrainTypeOK, SettledIsEmpty, NoLostWakeup
<1>10. CASE UNCHANGED drainVars
  BY <1>10, SameTokens
     DEF drainVars, DrainInv, DrainTypeOK, SettledIsEmpty, NoLostWakeup
<1> QED
  BY <1>1, <1>2, <1>3, <1>4, <1>5, <1>6, <1>7, <1>8, <1>9, <1>10 DEF DrainNext

-----------------------------------------------------------------------------
(* The tracker's counters are exact, a drained tracker stays empty until it *)
(* is reopened, and no drain() sleeps with nothing to wait for.             *)
THEOREM TrackerInvariant == DrainSpec => []DrainInv
BY InitIInv, NextIInv, PTL DEF DrainSpec

(* Type correctness of TransportDrain.                                      *)
THEOREM TrackerTypeOK == DrainSpec => []DrainTypeOK
<1>1. DrainInv => DrainTypeOK
  BY DEF DrainInv
<1> QED
  BY <1>1, TrackerInvariant, PTL

(* The count drain() waits on is the number of tokens that are out, and a   *)
(* task's depth the number it holds.                                        *)
THEOREM TrackerAccounting == DrainSpec => []Accounting
<1>1. DrainInv => Accounting
  BY DEF DrainInv
<1> QED
  BY <1>1, TrackerInvariant, PTL

(* After a drain() has returned normally nothing is in flight until the     *)
(* client is opened again.                                                  *)
THEOREM DrainedStaysEmpty == DrainSpec => []SettledIsEmpty
<1>1. DrainInv => SettledIsEmpty
  BY DEF DrainInv
<1> QED
  BY <1>1, TrackerInvariant, PTL

(* No drain() call is left asleep while nothing is in flight.               *)
THEOREM DrainWakesUp == DrainSpec => []NoLostWakeup
<1>1. DrainInv => NoLostWakeup
  BY DEF DrainInv
<1> QED
  BY <1>1, TrackerInvariant, PTL

(* A task that holds a token is never refused.                              *)
THEOREM AdmittedGoThrough == DrainSpec => AdmittedNeverRefused
<1>1. ASSUME DrainInv, [DrainNext]_drainVars
      PROVE  [\A t \in refused' \ refused : held[t] = {}]_drainVars
  <2> SUFFICES ASSUME DrainNext, NEW t \in refused' \ refused
               PROVE  held[t] = {}
    BY <1>1
  <2>1. RefuseTransportPost(t)
    BY DEF DrainNext, BeginTransportPost, BeginTransportTask, Admit,
           RefuseTransportPost, FinishTransportPost, GiveBack, DrainStart, DrainWake,
           DrainTimeout, DrainCancel, ResetAfterOpen
  <2>2. t \in Tasks
    BY <1>1, <2>1 DEF DrainNext, BeginTransportPost, BeginTransportTask, Admit,
           RefuseTransportPost, FinishTransportPost, GiveBack, DrainStart, DrainWake,
           DrainTimeout, DrainCancel, ResetAfterOpen, DrainInv, DrainTypeOK
  <2> QED
    BY <1>1, <2>1, <2>2, DepthZero DEF RefuseTransportPost
<1> QED
  BY <1>1, TrackerInvariant, PTL DEF DrainSpec, AdmittedNeverRefused

-----------------------------------------------------------------------------
(* The client. *)


(* What each stage of a close() knows about the drain.                     *)
CloseInv ==
  /\ closePc \in [Closers -> {"idle", "hooks", "drain", "lifecycle"}]
  /\ lifePc \in [Closers -> LifeStates]
  /\ waiter \in [Drainers -> WaiterState]
  /\ teardown \in {"graceful", "forced", "stale"}
  /\ \A c \in Closers : closePc[c] = "drain" => draining
  /\ \A c \in Closers : closePc[c] = "drain" /\ waiter[c] = "drained" => settled
  /\ \A c \in Closers :
       lifePc[c] # "none" /\ teardown = "graceful" => settled
  /\ ~http /\ teardown = "graceful" => settled

-----------------------------------------------------------------------------
(* Each action of the client does to the tracker one of the tracker's own   *)
(* actions, or nothing.                                                     *)
LEMMA StepIsDrainStep == [Next]_vars => [DrainNext]_drainVars
<1> SUFFICES ASSUME [Next]_vars PROVE [DrainNext]_drainVars
  OBVIOUS
<1>1. ASSUME NEW t \in Ops, OpStep(t) PROVE [DrainNext]_drainVars
  BY <1>1, TasksAssumption
     DEF OpStep, OpBegin, OpNested, OpFinish, DrainNext
<1>2. ASSUME NEW p \in Polls, PollStep(p) PROVE [DrainNext]_drainVars
  BY <1>2, TasksAssumption
     DEF PollStep, PollCreate, PollStart, PollEnd, DrainNext
<1>3. ASSUME NEW c \in Closers, NEW m \in Modes, CloseStart(c, m)
      PROVE [DrainNext]_drainVars
  BY <1>3 DEF CloseStart
<1>4. ASSUME NEW c \in Closers, CloserStep(c) PROVE [DrainNext]_drainVars
  BY <1>4 DEF CloserStep, CloseDrain, CloseWake, CloseDrained, LifeKeepaliveDone,
              LifeHooks, LifeSave, LifeSaved, LifeAclose, LifeStep, DrainNext, Closers
<1>5. ASSUME NEW c \in Closers,
             CloseTimeout(c) \/ CloseCancelEarly(c) \/ CloseCancelLate(c)
      PROVE [DrainNext]_drainVars
  BY <1>5 DEF CloseTimeout, CloseCancelEarly, CloseCancelLate, DrainNext, Closers
<1>6. CASE KeepaliveEnds
  BY <1>6 DEF KeepaliveEnds
<1>7. CASE Reopen
  BY <1>7 DEF Reopen, OpenAgain, DrainNext
<1>8. CASE UNCHANGED vars
  BY <1>8 DEF vars
<1> QED
  BY <1>1, <1>2, <1>3, <1>4, <1>5, <1>6, <1>7, <1>8 DEF Next

(* The tracker inside a client behaves as TransportDrain specifies it.      *)
THEOREM ClientImplementsTracker == Spec => DrainSpec
<1>1. Init => DrainInit
  BY DEF Init
<1> QED
  BY <1>1, StepIsDrainStep, PTL DEF Spec, DrainSpec

(* Every invariant of the tracker is one of the client.                     *)
LEMMA ClientTracker == Spec => []DrainInv
BY ClientImplementsTracker, TrackerInvariant, PTL

-----------------------------------------------------------------------------
(* Steps that touch neither a close() nor the transport: tokens come and    *)
(* go, and only drain() moves the drain flag or settles.                    *)
LEMMA TokenStepKeeps ==
  ASSUME CloseInv,
         UNCHANGED <<http, closePc, lifePc, teardown, draining, settled>>,
         waiter' = waiter \/ waiter' = Notify(waiter)
  PROVE  CloseInv'
<1>1. /\ waiter' \in [Drainers -> WaiterState]
      /\ \A c \in Closers : waiter'[c] = "drained" => waiter[c] = "drained"
  BY DEF Notify, CloseInv, WaiterState, Closers
<1> QED
  BY <1>1 DEF CloseInv

LEMMA OpKeeps == ASSUME CloseInv, NEW t \in Ops, OpStep(t) PROVE CloseInv'
BY TokenStepKeeps
   DEF OpStep, OpBegin, OpNested, OpFinish, BeginTransportPost, Admit,
       RefuseTransportPost, FinishTransportPost, GiveBack, lifeVars

LEMMA PollKeeps == ASSUME CloseInv, NEW p \in Polls, PollStep(p) PROVE CloseInv'
BY TokenStepKeeps
   DEF PollStep, PollCreate, PollStart, PollEnd, BeginTransportPost, Admit,
       RefuseTransportPost, FinishTransportPost, GiveBack, drainVars

(* A teardown that starts as graceful starts settled; any other start is    *)
(* recorded as forced.                                                      *)
LEMMA EnterKeeps ==
  ASSUME CloseInv, NEW c \in Closers, NEW how, NEW isForced \in BOOLEAN,
         EnterLifecycle(c, how, isForced),
         ~isForced => settled,
         UNCHANGED <<http, draining, settled>>,
         waiter' \in [Drainers -> WaiterState],
         \A e \in Closers : e # c => waiter'[e] = waiter[e]
  PROVE  CloseInv'
<1>1. closePc' = [closePc EXCEPT ![c] = "lifecycle"]
      /\ lifePc' = [lifePc EXCEPT ![c] = "keepalive"]
  BY DEF EnterLifecycle
<1>2. teardown' = IF isForced /\ teardown = "graceful" THEN "forced" ELSE teardown
  BY DEF EnterLifecycle
<1>3. teardown' = "graceful" => teardown = "graceful" /\ ~isForced
  BY <1>2
<1> QED
  BY <1>1, <1>2, <1>3 DEF CloseInv, LifeStates

LEMMA LifeKeeps ==
  ASSUME CloseInv, NEW c \in Closers, NEW from \in LifeStates \ {"none"},
         NEW to \in LifeStates, LifeStep(c, from, to)
  PROVE  CloseInv'
BY DEF LifeStep, CloseInv, drainVars

LEMMA CloserKeeps == ASSUME CloseInv, NEW c \in Closers, CloserStep(c) PROVE CloseInv'
<1>1. CASE CloseDrain(c)
  BY <1>1 DEF CloseDrain, DrainStart, CloseInv, WaiterState, Closers
<1>2. CASE CloseWake(c)
  BY <1>2 DEF CloseWake, DrainWake, lifeVars, CloseInv, WaiterState, Closers
<1>3. CASE CloseDrained(c)
  BY <1>3, EnterKeeps DEF CloseDrained, drainVars, CloseInv
<1>4. CASE LifeKeepaliveDone(c)
  BY <1>4, LifeKeeps DEF LifeKeepaliveDone, LifeStates
<1>5. CASE LifeHooks(c)
  BY <1>5, LifeKeeps DEF LifeHooks, LifeStates
<1>6. CASE LifeSave(c)
  BY <1>6, LifeKeeps DEF LifeSave, LifeStates
<1>7. CASE LifeSaved(c)
  BY <1>7, LifeKeeps DEF LifeSaved, LifeStates
<1>8. CASE LifeAclose(c)
  BY <1>8 DEF LifeAclose, CloseInv, drainVars, LifeStates
<1> QED
  BY <1>1, <1>2, <1>3, <1>4, <1>5, <1>6, <1>7, <1>8 DEF CloserStep

LEMMA NextKeeps == CloseInv /\ [Next]_vars => CloseInv'
<1> SUFFICES ASSUME CloseInv, [Next]_vars PROVE CloseInv'
  OBVIOUS
<1>1. ASSUME NEW c \in Closers, NEW m \in Modes, CloseStart(c, m) PROVE CloseInv'
  <2>1. CASE m = "immediate"
    BY <1>1, <2>1, EnterKeeps DEF CloseStart, drainVars, CloseInv
  <2>2. CASE m # "immediate"
    BY <1>1, <2>2 DEF CloseStart, drainVars, CloseInv
  <2> QED
    BY <2>1, <2>2
<1>2. ASSUME NEW c \in Closers, CloseTimeout(c) PROVE CloseInv'
  BY <1>2, EnterKeeps DEF CloseTimeout, DrainTimeout, CloseInv, WaiterState, Closers
<1>3. ASSUME NEW c \in Closers, CloseCancelEarly(c) PROVE CloseInv'
  <2>1. CASE closePc[c] = "hooks" /\ UNCHANGED drainVars
    BY <1>3, <2>1, EnterKeeps DEF CloseCancelEarly, drainVars, CloseInv
  <2>2. CASE closePc[c] = "drain" /\ DrainCancel(c)
    BY <1>3, <2>2, EnterKeeps
       DEF CloseCancelEarly, DrainCancel, CloseInv, WaiterState, Closers
  <2> QED
    BY <1>3, <2>1, <2>2 DEF CloseCancelEarly
<1>4. ASSUME NEW c \in Closers, CloseCancelLate(c) PROVE CloseInv'
  BY <1>4 DEF CloseCancelLate, drainVars, CloseInv, LifeStates
<1>5. CASE KeepaliveEnds
  BY <1>5, TokenStepKeeps DEF KeepaliveEnds, drainVars
<1>6. CASE Reopen
  BY <1>6 DEF Reopen, OpenAgain, ResetAfterOpen, CloseInv
<1>7. CASE UNCHANGED vars
  BY <1>7, TokenStepKeeps DEF vars, lifeVars, drainVars
<1> QED
  BY <1>1, <1>2, <1>3, <1>4, <1>5, <1>6, <1>7, OpKeeps, PollKeeps, CloserKeeps
     DEF Next

-----------------------------------------------------------------------------
(* A transport closed by graceful close() calls only has no operation and   *)
(* no poll left on it.                                                      *)
THEOREM GracefulCloseCutsNothing == Spec => []GracefulCutsNothing
<1>1. Init => CloseInv
  BY DEF Init, DrainInit, CloseInv, LifeStates, WaiterState, Closers
<1>2. CloseInv /\ DrainInv => GracefulCutsNothing
  BY DEF CloseInv, DrainInv, SettledIsEmpty, GracefulCutsNothing
<1>3. Spec => []CloseInv
  BY <1>1, NextKeeps, PTL DEF Spec
<1> QED
  BY <1>2, <1>3, ClientTracker, PTL

-----------------------------------------------------------------------------
(* The types of what the client adds to the tracker.                        *)
LifeTypeOK ==
  /\ http \in BOOLEAN
  /\ keepalive \in {"none", "running", "cancelled"}
  /\ todo \in [Ops -> 0 .. MaxNested]
  /\ poll \in [Polls -> {"none", "created", "running"}]
  /\ cancelled \in SUBSET Polls
  /\ closePc \in [Closers -> {"idle", "hooks", "drain", "lifecycle"}]
  /\ mode \in [Closers -> Modes]
  /\ outcome \in [Closers -> {"ok", "timeout", "cancelled"}]
  /\ hookWait \in [Closers -> SUBSET Polls]
  /\ lifePc \in [Closers -> LifeStates]
  /\ teardown \in {"graceful", "forced", "stale"}

LEMMA OpKeepsTypes ==
  ASSUME LifeTypeOK, NEW t \in Ops, OpStep(t) PROVE LifeTypeOK'
<1>1. MaxNested \in 0 .. MaxNested
  BY TasksAssumption
<1>2. CASE OpBegin(t)
  BY <1>1, <1>2 DEF OpBegin, LifeTypeOK
<1>3. CASE OpNested(t)
  <2>1. todo[t] - 1 \in 0 .. MaxNested
    BY <1>3, TasksAssumption DEF OpNested, LifeTypeOK
  <2> QED
    BY <1>3, <2>1 DEF OpNested, LifeTypeOK
<1>4. CASE OpFinish(t)
  BY <1>4 DEF OpFinish, lifeVars, LifeTypeOK
<1> QED
  BY <1>2, <1>3, <1>4 DEF OpStep

LEMMA PollKeepsTypes ==
  ASSUME LifeTypeOK, NEW p \in Polls, PollStep(p) PROVE LifeTypeOK'
BY DEF PollStep, PollCreate, PollStart, PollEnd, LifeTypeOK

LEMMA HooksKeepTypes ==
  ASSUME LifeTypeOK, NEW c \in Closers, RunDrainHooks(c)
  PROVE  cancelled' \in SUBSET Polls /\ hookWait' \in [Closers -> SUBSET Polls]
BY DEF RunDrainHooks, ActivePolls, LifeTypeOK

LEMMA EnterKeepsTypes ==
  ASSUME LifeTypeOK, NEW c \in Closers, NEW how \in {"ok", "timeout", "cancelled"},
         NEW isForced \in BOOLEAN, EnterLifecycle(c, how, isForced),
         UNCHANGED <<http, todo, poll, cancelled>>,
         mode' \in [Closers -> Modes], hookWait' \in [Closers -> SUBSET Polls]
  PROVE  LifeTypeOK'
BY DEF EnterLifecycle, CancelKeepalive, LifeTypeOK, LifeStates

LEMMA CloserKeepsTypes ==
  ASSUME LifeTypeOK, NEW c \in Closers, CloserStep(c) PROVE LifeTypeOK'
<1>1. CASE CloseDrain(c)
  BY <1>1 DEF CloseDrain, LifeTypeOK
<1>2. CASE CloseWake(c)
  BY <1>2 DEF CloseWake, lifeVars, LifeTypeOK
<1>3. CASE CloseDrained(c)
  BY <1>3, EnterKeepsTypes DEF CloseDrained, LifeTypeOK
<1>4. CASE LifeKeepaliveDone(c)
  BY <1>4 DEF LifeKeepaliveDone, LifeStep, LifeTypeOK, LifeStates
<1>5. CASE LifeHooks(c)
  BY <1>5, HooksKeepTypes DEF LifeHooks, LifeStep, LifeTypeOK, LifeStates
<1>6. CASE LifeSave(c)
  BY <1>6 DEF LifeSave, LifeStep, LifeTypeOK, LifeStates
<1>7. CASE LifeSaved(c)
  BY <1>7 DEF LifeSaved, LifeStep, LifeTypeOK, LifeStates
<1>8. CASE LifeAclose(c)
  BY <1>8 DEF LifeAclose, LifeTypeOK, LifeStates, Modes
<1> QED
  BY <1>1, <1>2, <1>3, <1>4, <1>5, <1>6, <1>7, <1>8 DEF CloserStep

LEMMA NextKeepsTypes == LifeTypeOK /\ [Next]_vars => LifeTypeOK'
<1> SUFFICES ASSUME LifeTypeOK, [Next]_vars PROVE LifeTypeOK'
  OBVIOUS
<1>1. ASSUME NEW c \in Closers, NEW m \in Modes, CloseStart(c, m) PROVE LifeTypeOK'
  <2>1. mode' \in [Closers -> Modes]
    BY <1>1 DEF CloseStart, LifeTypeOK
  <2>2. CASE m = "immediate"
    BY <1>1, <2>1, <2>2, EnterKeepsTypes DEF CloseStart, LifeTypeOK
  <2>3. CASE m # "immediate"
    BY <1>1, <2>1, <2>3, HooksKeepTypes DEF CloseStart, LifeTypeOK
  <2> QED
    BY <2>2, <2>3
<1>2. ASSUME NEW c \in Closers, CloseTimeout(c) PROVE LifeTypeOK'
  BY <1>2, EnterKeepsTypes DEF CloseTimeout, LifeTypeOK
<1>3. ASSUME NEW c \in Closers, CloseCancelEarly(c) PROVE LifeTypeOK'
  <2>1. hookWait' \in [Closers -> SUBSET Polls] /\ mode' \in [Closers -> Modes]
    BY <1>3 DEF CloseCancelEarly, LifeTypeOK
  <2> QED
    BY <1>3, <2>1, EnterKeepsTypes DEF CloseCancelEarly
<1>4. ASSUME NEW c \in Closers, CloseCancelLate(c) PROVE LifeTypeOK'
  BY <1>4 DEF CloseCancelLate, LifeTypeOK, LifeStates, Modes
<1>5. CASE KeepaliveEnds
  BY <1>5 DEF KeepaliveEnds, LifeTypeOK
<1>6. CASE Reopen
  BY <1>6 DEF Reopen, OpenAgain, LifeTypeOK
<1>7. CASE UNCHANGED vars
  BY <1>7 DEF vars, lifeVars, LifeTypeOK
<1> QED
  BY <1>1, <1>2, <1>3, <1>4, <1>5, <1>6, <1>7, OpKeepsTypes, PollKeepsTypes,
     CloserKeepsTypes DEF Next

LEMMA TypesHold == Spec => []LifeTypeOK
<1>1. Init => LifeTypeOK
  BY TasksAssumption DEF Init, LifeTypeOK, LifeStates, Modes
<1> QED
  BY <1>1, NextKeepsTypes, PTL DEF Spec

(* Every variable of the client, the tracker's included, has its type.      *)
THEOREM LifecycleTypeOK == Spec => []TypeOK
<1>1. LifeTypeOK /\ DrainTypeOK => TypeOK
  BY DEF LifeTypeOK, TypeOK
<1> QED
  BY <1>1, TypesHold, ClientImplementsTracker, TrackerTypeOK, PTL

-----------------------------------------------------------------------------
(* Every teardown begins by cancelling the keepalive task, and only open()  *)
(* starts another: while a teardown runs, and once the transport is gone,   *)
(* none runs, unless the teardown is older than the transport.              *)
KeepInv ==
  /\ lifePc \in [Closers -> LifeStates]
  /\ KeepaliveDiesWithTransport
  /\ \A c \in Closers :
       lifePc[c] # "none" /\ teardown # "stale" => keepalive # "running"

LEMMA QuietKeepsKeep ==
  ASSUME KeepInv, UNCHANGED <<http, lifePc, teardown>>,
         keepalive' = keepalive \/ keepalive' # "running"
  PROVE  KeepInv'
BY DEF KeepInv, KeepaliveDiesWithTransport

LEMMA EnterKeepsKeep ==
  ASSUME KeepInv, NEW c \in Closers, NEW how, NEW isForced,
         EnterLifecycle(c, how, isForced), UNCHANGED http
  PROVE  KeepInv'
<1>1. keepalive' # "running" /\ lifePc' = [lifePc EXCEPT ![c] = "keepalive"]
  BY DEF EnterLifecycle, CancelKeepalive
<1> QED
  BY <1>1 DEF KeepInv, KeepaliveDiesWithTransport, LifeStates

LEMMA CloserKeepsKeep == ASSUME KeepInv, NEW c \in Closers, CloserStep(c) PROVE KeepInv'
<1>1. CASE CloseDrain(c) \/ CloseWake(c)
  BY <1>1, QuietKeepsKeep DEF CloseDrain, CloseWake, lifeVars
<1>2. CASE CloseDrained(c)
  BY <1>2, EnterKeepsKeep DEF CloseDrained
<1>3. CASE LifeKeepaliveDone(c) \/ LifeHooks(c) \/ LifeSave(c) \/ LifeSaved(c)
  <2>1. /\ UNCHANGED <<http, keepalive, teardown>>
        /\ \E to \in LifeStates : lifePc' = [lifePc EXCEPT ![c] = to]
        /\ lifePc[c] # "none"
    BY <1>3 DEF LifeKeepaliveDone, LifeHooks, LifeSave, LifeSaved, LifeStep, LifeStates
  <2> QED
    BY <2>1 DEF KeepInv, KeepaliveDiesWithTransport
<1>4. CASE LifeAclose(c)
  BY <1>4 DEF LifeAclose, KeepInv, KeepaliveDiesWithTransport, LifeStates
<1> QED
  BY <1>1, <1>2, <1>3, <1>4 DEF CloserStep

LEMMA NextKeepsKeep == KeepInv /\ [Next]_vars => KeepInv'
<1> SUFFICES ASSUME KeepInv, [Next]_vars PROVE KeepInv'
  OBVIOUS
<1>1. ASSUME NEW t \in Ops, OpStep(t) PROVE KeepInv'
  BY <1>1, QuietKeepsKeep DEF OpStep, OpBegin, OpNested, OpFinish, lifeVars
<1>2. ASSUME NEW p \in Polls, PollStep(p) PROVE KeepInv'
  BY <1>2, QuietKeepsKeep DEF PollStep, PollCreate, PollStart, PollEnd
<1>3. ASSUME NEW c \in Closers, NEW m \in Modes, CloseStart(c, m) PROVE KeepInv'
  <2>1. CASE m = "immediate"
    BY <1>3, <2>1, EnterKeepsKeep DEF CloseStart
  <2>2. CASE m # "immediate"
    BY <1>3, <2>2, QuietKeepsKeep DEF CloseStart
  <2> QED
    BY <2>1, <2>2
<1>4. ASSUME NEW c \in Closers, CloseTimeout(c) \/ CloseCancelEarly(c) PROVE KeepInv'
  BY <1>4, EnterKeepsKeep DEF CloseTimeout, CloseCancelEarly
<1>5. ASSUME NEW c \in Closers, CloseCancelLate(c) PROVE KeepInv'
  BY <1>5 DEF CloseCancelLate, KeepInv, KeepaliveDiesWithTransport, LifeStates
<1>6. CASE KeepaliveEnds
  BY <1>6, QuietKeepsKeep DEF KeepaliveEnds
<1>7. CASE Reopen
  BY <1>7 DEF Reopen, OpenAgain, KeepInv, KeepaliveDiesWithTransport
<1>8. CASE UNCHANGED vars
  BY <1>8, QuietKeepsKeep DEF vars, lifeVars
<1> QED
  BY <1>1, <1>2, <1>3, <1>4, <1>5, <1>6, <1>7, <1>8, CloserKeepsKeep DEF Next

(* The keepalive task does not outlive the transport it pokes.              *)
THEOREM KeepaliveIsNeverOrphaned == Spec => []KeepaliveDiesWithTransport
<1>1. Init => KeepInv
  BY DEF Init, KeepInv, KeepaliveDiesWithTransport, LifeStates
<1>2. KeepInv => KeepaliveDiesWithTransport
  BY DEF KeepInv
<1> QED
  BY <1>1, <1>2, NextKeepsKeep, PTL DEF Spec

-----------------------------------------------------------------------------
(* A close() goes idle at the end of its teardown, which forgets the HTTP  *)
(* client in the same step, or by a cancellation.                          *)
LEMMA ReturnStep ==
  ASSUME LifeTypeOK, [Next]_vars, NEW c \in Closers,
         closePc[c] # "idle", closePc'[c] = "idle", outcome'[c] # "cancelled"
  PROVE  ~http'
<1> USE DEF LifeTypeOK
<1>1. ASSUME NEW d \in Closers, NEW how, NEW isForced, EnterLifecycle(d, how, isForced)
      PROVE  FALSE
  BY <1>1 DEF EnterLifecycle
<1>2. ASSUME UNCHANGED closePc
      PROVE  FALSE
  BY <1>2
<1>3. ASSUME NEW t \in Ops, OpStep(t) PROVE FALSE
  BY <1>2, <1>3 DEF OpStep, OpBegin, OpNested, OpFinish, lifeVars
<1>4. ASSUME NEW p \in Polls, PollStep(p) PROVE FALSE
  BY <1>2, <1>4 DEF PollStep, PollCreate, PollStart, PollEnd
<1>5. ASSUME NEW d \in Closers, NEW m \in Modes, CloseStart(d, m) PROVE FALSE
  BY <1>1, <1>5 DEF CloseStart
<1>6. ASSUME NEW d \in Closers, CloserStep(d) PROVE ~http'
  <2>1. CASE LifeAclose(d)
    BY <2>1 DEF LifeAclose
  <2>2. CASE CloseDrain(d)
    BY <2>2 DEF CloseDrain
  <2>3. CASE CloseDrained(d)
    BY <1>1, <2>3 DEF CloseDrained
  <2>4. CASE \/ CloseWake(d) \/ LifeKeepaliveDone(d) \/ LifeHooks(d) \/ LifeSave(d) \/ LifeSaved(d)
    BY <1>2, <2>4 DEF CloseWake, lifeVars, LifeKeepaliveDone, LifeHooks, LifeSave, LifeSaved, LifeStep
  <2> QED
    BY <1>6, <2>1, <2>2, <2>3, <2>4 DEF CloserStep
<1>7. ASSUME NEW d \in Closers, CloseTimeout(d) \/ CloseCancelEarly(d) PROVE FALSE
  BY <1>1, <1>7 DEF CloseTimeout, CloseCancelEarly
<1>8. ASSUME NEW d \in Closers, CloseCancelLate(d) PROVE FALSE
  BY <1>8 DEF CloseCancelLate
<1>9. CASE KeepaliveEnds \/ Reopen \/ UNCHANGED vars
  BY <1>2, <1>9 DEF KeepaliveEnds, Reopen, OpenAgain, vars, lifeVars
<1> QED
  BY <1>3, <1>4, <1>5, <1>6, <1>7, <1>8, <1>9 DEF Next

(* A close() that returns, or raises its drain timeout, leaves no open     *)
(* transport behind, in whichever mode it ran and whoever closed with it.  *)
THEOREM ReturnLeavesItClosed == Spec => ReturnMeansClosed
<1>1. LifeTypeOK /\ [Next]_vars
        => [\A c \in Closers :
              closePc[c] # "idle" /\ closePc'[c] = "idle" /\ outcome'[c] # "cancelled"
                => ~http']_vars
  BY ReturnStep
<1> QED
  BY <1>1, TypesHold, PTL DEF Spec, ReturnMeansClosed

=============================================================================
