--------------------------- MODULE ClientLifecycle ---------------------------
(***************************************************************************)
(* Opening and closing one NotebookLMClient while operations and artifact  *)
(* polls run: NotebookLMClient.close (client.py), ClientLifecycle.open and *)
(* close (_runtime/lifecycle.py) and the poll drain hook                   *)
(* (_artifact/polling.py), over the in-flight accounting of TransportDrain.*)
(*                                                                         *)
(* A step runs from one suspension (await that really waits) to the next.  *)
(* A drain() caller of TransportDrain is here one call of close().         *)
(***************************************************************************)
EXTENDS TransportDrain

CONSTANTS Ops,       \* tasks that run an API operation (RPC, upload)
          Polls,     \* poll tasks, one for each artifact being waited on
          MaxNested  \* bound: nested RPCs one operation makes

ASSUME TasksAssumption ==
  /\ Tasks = Ops \cup Polls
  /\ Ops \cap Polls = {}
  /\ MaxNested \in Nat

Closers == Drainers

VARIABLES http,      \* the kernel holds an open HTTP client
          keepalive, \* the keepalive task: "none", "running", "cancelled"
          todo,      \* nested RPCs an operation may still make
          poll,      \* "none", "created" (registered, not yet run), "running"
          cancelled, \* polls whose task has been cancelled and has not ended
          closePc,   \* where each close() call is
          mode,      \* its arguments: drain, drain with a timeout, no drain
          outcome,   \* how its drain ended: "ok", "timeout" or "cancelled"
          hookWait,  \* polls the drain hook it runs is waiting for
          lifePc,    \* where the ClientLifecycle.close it started is
          teardown   \* history, since the last open(): every lifecycle close
                     \* began after a drain ("graceful"), or one did not
                     \* ("forced"), or one is left over from before ("stale")

lifeVars == <<http, keepalive, todo, poll, cancelled, closePc, mode, outcome,
              hookWait, lifePc, teardown>>
vars == <<drainVars, lifeVars>>

Modes == {"graceful", "bounded", "immediate"}
LifeStates == {"none", "keepalive", "refresh", "hooks", "save", "aclose"}

-----------------------------------------------------------------------------

(* The client as __aenter__ leaves it. *)
Init ==
  /\ DrainInit
  /\ http = TRUE
  /\ keepalive = "running"
  /\ todo = [t \in Ops |-> 0]
  /\ poll = [p \in Polls |-> "none"]
  /\ cancelled = {}
  /\ closePc = [c \in Closers |-> "idle"]
  /\ mode = [c \in Closers |-> "graceful"]
  /\ outcome = [c \in Closers |-> "ok"]
  /\ hookWait = [c \in Closers |-> {}]
  /\ lifePc = [c \in Closers |-> "none"]
  /\ teardown = "graceful"

(***************************************************************************)
(* Operations: an outer token, and nested RPCs one at a time inside it.    *)
(***************************************************************************)
OpBegin(t) ==
  /\ held[t] = {}
  /\ \/ /\ BeginTransportPost(t)
        /\ todo' = [todo EXCEPT ![t] = MaxNested]
     \/ /\ RefuseTransportPost(t)
        /\ todo' = todo
  /\ UNCHANGED <<http, keepalive, poll, cancelled, closePc, mode, outcome,
                 hookWait, lifePc, teardown>>

OpNested(t) ==
  /\ Cardinality(held[t]) = 1
  /\ todo[t] > 0
  /\ BeginTransportPost(t) \/ RefuseTransportPost(t)
  /\ todo' = [todo EXCEPT ![t] = @ - 1]
  /\ UNCHANGED <<http, keepalive, poll, cancelled, closePc, mode, outcome,
                 hookWait, lifePc, teardown>>

(* The innermost call ends, with a result or an error. *)
OpFinish(t) ==
  /\ \E k \in held[t] : FinishTransportPost(t, k)
  /\ UNCHANGED lifeVars

(***************************************************************************)
(* Polls: wait_for_completion creates and registers the task; the task     *)
(* asks for its token when the loop first runs it.                         *)
(***************************************************************************)
PollCreate(p) ==
  /\ poll[p] = "none"
  /\ poll' = [poll EXCEPT ![p] = "created"]
  /\ UNCHANGED <<drainVars, http, keepalive, todo, cancelled, closePc, mode,
                 outcome, hookWait, lifePc, teardown>>

PollStart(p) ==
  /\ poll[p] = "created"
  /\ p \notin cancelled
  /\ \/ /\ BeginTransportPost(p)
        /\ poll' = [poll EXCEPT ![p] = "running"]
        /\ hookWait' = hookWait
     \/ /\ RefuseTransportPost(p)
        /\ poll' = [poll EXCEPT ![p] = "none"]
        /\ hookWait' = [c \in Closers |-> hookWait[c] \ {p}]
  /\ UNCHANGED <<http, keepalive, todo, cancelled, closePc, mode, outcome,
                 lifePc, teardown>>

(* The loop ends (result, deadline, error, or the cancellation reaches it) *)
(* and its scope gives the token back; a task cancelled before its first   *)
(* run never asked for one.                                                *)
PollEnd(p) ==
  /\ \/ /\ poll[p] = "running"
        /\ \E k \in held[p] : FinishTransportPost(p, k)
     \/ /\ poll[p] = "created"
        /\ p \in cancelled
        /\ UNCHANGED drainVars
  /\ poll' = [poll EXCEPT ![p] = "none"]
  /\ cancelled' = cancelled \ {p}
  /\ hookWait' = [c \in Closers |-> hookWait[c] \ {p}]
  /\ UNCHANGED <<http, keepalive, todo, closePc, mode, outcome, lifePc, teardown>>

ActivePolls == {p \in Polls : poll[p] # "none"}

(* run_drain_hooks: cancel every active poll, then wait for those.         *)
RunDrainHooks(c) ==
  /\ cancelled' = cancelled \cup ActivePolls
  /\ hookWait' = [hookWait EXCEPT ![c] = ActivePolls]

(***************************************************************************)
(* NotebookLMClient.close                                                  *)
(***************************************************************************)

(* The first thing a teardown does. *)
CancelKeepalive ==
  keepalive' = IF keepalive = "running" THEN "cancelled" ELSE keepalive

(* Hand over to ClientLifecycle.close, in a task of its own (shielded)     *)
(* except for an immediate close, which runs it directly.                  *)
EnterLifecycle(c, how, isForced) ==
  /\ closePc' = [closePc EXCEPT ![c] = "lifecycle"]
  /\ outcome' = [outcome EXCEPT ![c] = how]
  /\ lifePc' = [lifePc EXCEPT ![c] = "keepalive"]
  /\ teardown' = IF isForced /\ teardown = "graceful" THEN "forced" ELSE teardown
  /\ CancelKeepalive

CloseStart(c, m) ==
  /\ closePc[c] = "idle"
  /\ lifePc[c] = "none"
  /\ mode' = [mode EXCEPT ![c] = m]
  /\ IF m = "immediate"
     THEN /\ EnterLifecycle(c, "ok", TRUE)
          /\ UNCHANGED <<cancelled, hookWait>>
     ELSE /\ RunDrainHooks(c)
          /\ closePc' = [closePc EXCEPT ![c] = "hooks"]
          /\ UNCHANGED <<keepalive, outcome, lifePc, teardown>>
  /\ UNCHANGED <<drainVars, http, todo, poll>>

(* The hooks have settled: drain() starts in the same step.                *)
CloseDrain(c) ==
  /\ closePc[c] = "hooks"
  /\ hookWait[c] = {}
  /\ DrainStart(c)
  /\ closePc' = [closePc EXCEPT ![c] = "drain"]
  /\ UNCHANGED <<http, keepalive, todo, poll, cancelled, mode, outcome,
                 hookWait, lifePc, teardown>>

(* Mutant: close() does not wait for drain() to end.                       *)
CloseDrained_NoWait(c) ==
  /\ closePc[c] = "drain"
  /\ EnterLifecycle(c, "ok", FALSE)
  /\ UNCHANGED <<drainVars, http, todo, poll, cancelled, mode, hookWait>>

CloseDrained(c) ==
  /\ closePc[c] = "drain"
  /\ waiter[c] = "drained"
  /\ EnterLifecycle(c, "ok", FALSE)
  /\ UNCHANGED <<drainVars, http, todo, poll, cancelled, mode, hookWait>>

CloseWake(c) ==
  /\ closePc[c] = "drain"
  /\ DrainWake(c)
  /\ UNCHANGED lifeVars

(* Mutant: a timed out drain skips the teardown.                           *)
CloseTimeout_Returns(c) ==
  /\ closePc[c] = "drain"
  /\ mode[c] = "bounded"
  /\ DrainTimeout(c)
  /\ closePc' = [closePc EXCEPT ![c] = "idle"]
  /\ outcome' = [outcome EXCEPT ![c] = "timeout"]
  /\ UNCHANGED <<http, keepalive, todo, poll, cancelled, mode, hookWait,
                 lifePc, teardown>>

CloseTimeout(c) ==
  /\ closePc[c] = "drain"
  /\ mode[c] = "bounded"
  /\ DrainTimeout(c)
  /\ EnterLifecycle(c, "timeout", TRUE)
  /\ UNCHANGED <<http, todo, poll, cancelled, mode, hookWait>>

(* The caller is cancelled while the hooks or the drain are awaited: the   *)
(* teardown still runs, and is awaited.                                    *)
CloseCancelEarly(c) ==
  /\ \/ closePc[c] = "hooks" /\ UNCHANGED drainVars
     \/ closePc[c] = "drain" /\ DrainCancel(c)
  /\ EnterLifecycle(c, "cancelled", TRUE)
  /\ hookWait' = [hookWait EXCEPT ![c] = {}]
  /\ UNCHANGED <<http, todo, poll, cancelled, mode>>

(* Cancelled while the teardown is awaited: a shielded teardown goes on    *)
(* by itself and close() is over; an unshielded one jumps to its finally,  *)
(* whose aclose() is shielded in turn.                                     *)
CloseCancelLate(c) ==
  /\ closePc[c] = "lifecycle"
  /\ IF mode[c] = "immediate" /\ lifePc[c] \in {"keepalive", "refresh", "hooks", "save"}
     THEN /\ lifePc' = [lifePc EXCEPT ![c] = "aclose"]
          /\ hookWait' = [hookWait EXCEPT ![c] = {}]
          /\ closePc' = closePc
          /\ mode' = mode
     ELSE /\ closePc' = [closePc EXCEPT ![c] = "idle"]
          /\ mode' = [mode EXCEPT ![c] = "graceful"]
          /\ UNCHANGED <<lifePc, hookWait>>
  /\ outcome' = [outcome EXCEPT ![c] = "cancelled"]
  /\ UNCHANGED <<drainVars, http, keepalive, todo, poll, cancelled, teardown>>

(***************************************************************************)
(* ClientLifecycle.close                                                   *)
(***************************************************************************)

(* The loop ends at its cancellation, or finds no client when it wakes.    *)
KeepaliveEnds ==
  /\ keepalive = "cancelled" \/ (keepalive = "running" /\ ~http)
  /\ keepalive' = "none"
  /\ UNCHANGED <<drainVars, http, todo, poll, cancelled, closePc, mode,
                 outcome, hookWait, lifePc, teardown>>

LifeStep(c, from, to) ==
  /\ lifePc[c] = from
  /\ lifePc' = [lifePc EXCEPT ![c] = to]
  /\ UNCHANGED <<drainVars, http, todo, poll, closePc, mode, outcome, teardown>>

(* The keepalive task is gathered, then the refresh task is cancelled and  *)
(* awaited (its own end is not this module's subject).                     *)
LifeKeepaliveDone(c) ==
  /\ keepalive # "cancelled"
  /\ LifeStep(c, "keepalive", "refresh")
  /\ UNCHANGED <<keepalive, cancelled, hookWait>>

LifeHooks(c) ==
  /\ RunDrainHooks(c)
  /\ LifeStep(c, "refresh", "hooks")
  /\ UNCHANGED keepalive

LifeSave(c) ==
  /\ hookWait[c] = {}
  /\ LifeStep(c, "hooks", IF http THEN "save" ELSE "aclose")
  /\ UNCHANGED <<keepalive, cancelled, hookWait>>

(* The save returned or failed; its error is logged, never raised.         *)
LifeSaved(c) ==
  /\ LifeStep(c, "save", "aclose")
  /\ UNCHANGED <<keepalive, cancelled, hookWait>>

(* The kernel forgets its client whether or not aclose() raised, and the   *)
(* close() that still awaits the teardown returns.                         *)
LifeAclose(c) ==
  /\ lifePc[c] = "aclose"
  /\ lifePc' = [lifePc EXCEPT ![c] = "none"]
  /\ http' = FALSE
  /\ closePc' = [closePc EXCEPT ![c] = "idle"]
  /\ mode' = [mode EXCEPT ![c] = "graceful"]
  /\ outcome' = [outcome EXCEPT ![c] = "ok"]
  /\ UNCHANGED <<drainVars, keepalive, todo, poll, cancelled, hookWait,
                 teardown>>

(***************************************************************************)
(* ClientLifecycle.open, called again by an owner whose close() calls have *)
(* all returned.  An open client is left as it is.  A teardown that still  *)
(* runs in the background will take the new transport down: not graceful.  *)
(***************************************************************************)
OpenAgain(resetTracker) ==
  /\ \A c \in Closers : closePc[c] = "idle"
  /\ ~http
  /\ resetTracker
  /\ http' = TRUE
  /\ keepalive' = "running"
  /\ teardown' = IF \E c \in Closers : lifePc[c] # "none" THEN "stale" ELSE "graceful"
  /\ UNCHANGED <<todo, poll, cancelled, closePc, mode, outcome, hookWait, lifePc>>

Reopen_NewTracker ==  \* mutant: who is still in flight is forgotten
  OpenAgain(/\ inFlight' = 0 /\ draining' = FALSE /\ settled' = FALSE
            /\ UNCHANGED <<depth, held, waiter, refused>>)

Reopen == OpenAgain(ResetAfterOpen)

-----------------------------------------------------------------------------

OpStep(t) == OpBegin(t) \/ OpNested(t) \/ OpFinish(t)
PollStep(p) == PollCreate(p) \/ PollStart(p) \/ PollEnd(p)

(* What close() and its teardown do by themselves. *)
CloserStep(c) ==
  \/ CloseDrain(c) \/ CloseWake(c) \/ CloseDrained(c)
  \/ LifeKeepaliveDone(c) \/ LifeHooks(c) \/ LifeSave(c) \/ LifeSaved(c)
  \/ LifeAclose(c)

Next ==
  \/ \E t \in Ops : OpStep(t)
  \/ \E p \in Polls : PollStep(p)
  \/ \E c \in Closers :
       \/ \E m \in Modes : CloseStart(c, m)
       \/ CloserStep(c)
       \/ CloseTimeout(c) \/ CloseCancelEarly(c) \/ CloseCancelLate(c)
  \/ KeepaliveEnds
  \/ Reopen

Spec == Init /\ [][Next]_vars

(* The event loop runs what is ready: a call under way comes back (every   *)
(* HTTP request has a timeout), a poll ends (it has a deadline), a         *)
(* cancelled task ends, and a close() takes its next step.  Nobody has to  *)
(* start an operation, a poll or a close(), to time out or to cancel.      *)
Fairness ==
  /\ \A t \in Ops : WF_vars(OpFinish(t))
  /\ \A p \in Polls : WF_vars(PollStart(p)) /\ WF_vars(PollEnd(p))
  /\ \A c \in Closers : WF_vars(CloserStep(c))
  /\ WF_vars(KeepaliveEnds)

FairSpec == Spec /\ Fairness

-----------------------------------------------------------------------------
(* Properties *)

(* Every variable of the lifecycle has its type. *)
TypeOK ==
  /\ DrainTypeOK
  /\ http \in BOOLEAN
  /\ keepalive \in {"none", "running", "cancelled"}
  /\ todo \in [Ops -> 0 .. MaxNested]
  /\ poll \in [Polls -> {"none", "created", "running"}]
  /\ cancelled \in SUBSET Polls
  /\ closePc \in [Closers -> {"idle", "hooks", "drain", "lifecycle"}]
  /\ mode \in [Closers -> Modes]
  /\ outcome \in [Closers -> {"ok", "timeout", "cancelled"}]
  /\ hookWait \in [Closers -> SUBSET Polls]
  /\ lifePc \in [Closers -> LifeStates]
  /\ teardown \in {"graceful", "forced", "stale"}

(* A transport closed by graceful close() calls only, however many of them *)
(* overlap, was closed with no operation and no poll under way, and none   *)
(* starts on it afterwards.                                                *)
GracefulCutsNothing == ~http /\ teardown = "graceful" => OpenTokens = {}

(* The keepalive task never outlives the transport it pokes: once the      *)
(* HTTP client is gone it has at least been cancelled, unless the teardown  *)
(* was one left over from before the last open().                          *)
KeepaliveDiesWithTransport ==
  ~http /\ teardown # "stale" => keepalive # "running"

(* A close() that returns, or raises its drain timeout, has closed the     *)
(* transport; only a cancelled one may leave before.                       *)
ReturnMeansClosed ==
  [][\A c \in Closers :
       closePc[c] # "idle" /\ closePc'[c] = "idle" /\ outcome'[c] # "cancelled"
         => ~http']_vars

(* Every close() call ends, whatever its mode, however many run at once    *)
(* and whatever operations and polls were under way.                       *)
CloseEnds == \A c \in Closers : closePc[c] # "idle" ~> closePc[c] = "idle"

=============================================================================
