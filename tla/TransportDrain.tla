--------------------------- MODULE TransportDrain ---------------------------
(***************************************************************************)
(* The in-flight accounting of one client: TransportDrainTracker of        *)
(* src/gateway_server/notebooklm/_transport_drain.py.                      *)
(*                                                                         *)
(* Every RPC, upload and artifact wait holds a token while it runs.  A     *)
(* draining tracker refuses a task that holds none, and drain() returns    *)
(* when the last token is given back.  The condition's lock is never held  *)
(* over a suspension, so every critical section is one step; the callers   *)
(* of drain() and the tasks interleave between them.                       *)
(***************************************************************************)
EXTENDS Integers, FiniteSets

CONSTANTS Tasks,     \* asyncio tasks that run client operations
          Tokens,    \* _TransportOperationToken objects (identities)
          Drainers   \* calls of drain(), one at a time each

VARIABLES inFlight,  \* _in_flight_posts
          draining,  \* _draining
          depth,     \* _operation_depths, 0 for a task with no entry
          held,      \* the tokens each task has been given and not given back
          waiter,    \* where each drain() call is
          refused,   \* tasks whose last begin raised RuntimeError
          settled    \* history: a drain() returned normally since the last open()

drainVars ==
  <<inFlight, draining, depth, held, waiter, refused, settled>>

WaiterState == {"idle", "waiting", "notified", "drained", "timedOut", "cancelled"}

OpenTokens == UNION {held[t] : t \in Tasks}

-----------------------------------------------------------------------------

DrainInit ==
  /\ inFlight = 0
  /\ draining = FALSE
  /\ depth = [t \in Tasks |-> 0]
  /\ held = [t \in Tasks |-> {}]
  /\ waiter = [d \in Drainers |-> "idle"]
  /\ refused = {}
  /\ settled = FALSE

(* The successful half of both begin operations: hand out a token for t. *)
Admit(t) ==
  /\ \E k \in Tokens \ OpenTokens :
       held' = [held EXCEPT ![t] = @ \cup {k}]
  /\ depth' = [depth EXCEPT ![t] = @ + 1]
  /\ inFlight' = inFlight + 1
  /\ refused' = refused \ {t}
  /\ UNCHANGED <<draining, waiter, settled>>

(* A task asks for a token for itself: admitted, or refused when the       *)
(* tracker drains and the task holds no token yet.                         *)
BeginTransportPost(t) ==
  /\ ~(draining /\ depth[t] = 0)
  /\ Admit(t)

RefuseTransportPost(t) ==
  /\ draining
  /\ depth[t] = 0
  /\ refused' = refused \cup {t}
  /\ UNCHANGED <<inFlight, draining, depth, held, waiter, settled>>

(* Task s takes a token on behalf of the task t it has spawned: the        *)
(* spawner's depth decides.                                                *)
BeginTransportTask(s, t) ==
  /\ s # t
  /\ ~(draining /\ depth[s] = 0)
  /\ Admit(t)

(* notify_all(): every suspended drain() becomes runnable. *)
Notify(w) == [d \in Drainers |-> IF w[d] = "waiting" THEN "notified" ELSE w[d]]

GiveBack(t, left, newDepth, wake) ==
  /\ held' = [held EXCEPT ![t] = left]
  /\ depth' = [depth EXCEPT ![t] = newDepth]
  /\ inFlight' = inFlight - 1
  /\ waiter' = IF wake THEN Notify(waiter) ELSE waiter
  /\ UNCHANGED <<draining, refused, settled>>

DepthLeft(t) == IF depth[t] <= 1 THEN 0 ELSE depth[t] - 1

(* Mutant: a notification withheld while draining. *)
FinishTransportPost_NoNotify(t, k) ==
  k \in held[t] /\ GiveBack(t, held[t] \ {k}, DepthLeft(t), inFlight = 1 /\ ~draining)

FinishTransportPost(t, k) ==
  /\ k \in held[t]
  /\ GiveBack(t, held[t] \ {k}, DepthLeft(t), inFlight = 1)

(* drain(): the flag is set and the count read in one critical section. *)
DrainStart(d) ==
  /\ waiter[d] \notin {"waiting", "notified"}
  /\ draining' = TRUE
  /\ IF inFlight = 0
     THEN /\ waiter' = [waiter EXCEPT ![d] = "drained"]
          /\ settled' = TRUE
     ELSE /\ waiter' = [waiter EXCEPT ![d] = "waiting"]
          /\ settled' = settled
  /\ UNCHANGED <<inFlight, depth, held, refused>>

(* A notified drain() evaluates its predicate again before it returns: an  *)
(* open() in between may have let new operations in.  settled records only *)
(* a return under a drain flag that is still set.                          *)
DrainWake(d) ==
  /\ waiter[d] = "notified"
  /\ IF inFlight = 0
     THEN /\ waiter' = [waiter EXCEPT ![d] = "drained"]
          /\ settled' = (settled \/ draining)
     ELSE /\ waiter' = [waiter EXCEPT ![d] = "waiting"]
          /\ settled' = settled
  /\ UNCHANGED <<inFlight, draining, depth, held, refused>>

(* wait_for() gives up, or the caller is cancelled: the drain flag stays.  *)
DrainTimeout(d) ==
  /\ waiter[d] \in {"waiting", "notified"}
  /\ waiter' = [waiter EXCEPT ![d] = "timedOut"]
  /\ UNCHANGED <<inFlight, draining, depth, held, refused, settled>>

DrainCancel(d) ==
  /\ waiter[d] \in {"waiting", "notified"}
  /\ waiter' = [waiter EXCEPT ![d] = "cancelled"]
  /\ UNCHANGED <<inFlight, draining, depth, held, refused, settled>>

(* open() of the client: only the drain flag is cleared, the count and the *)
(* depths survive.                                                         *)
ResetAfterOpen ==
  /\ draining' = FALSE
  /\ settled' = FALSE
  /\ UNCHANGED <<inFlight, depth, held, waiter, refused>>

DrainNext ==
  \/ \E t \in Tasks : BeginTransportPost(t) \/ RefuseTransportPost(t)
  \/ \E s, t \in Tasks : BeginTransportTask(s, t)
  \/ \E t \in Tasks : \E k \in held[t] : FinishTransportPost(t, k)
  \/ \E d \in Drainers : \/ DrainStart(d) \/ DrainWake(d)
                         \/ DrainTimeout(d) \/ DrainCancel(d)
  \/ ResetAfterOpen

DrainSpec == DrainInit /\ [][DrainNext]_drainVars

-----------------------------------------------------------------------------
(* Properties *)

(* Every variable of the tracker has its type. *)
DrainTypeOK ==
  /\ inFlight \in Nat
  /\ draining \in BOOLEAN
  /\ depth \in [Tasks -> Nat]
  /\ held \in [Tasks -> SUBSET Tokens]
  /\ waiter \in [Drainers -> WaiterState]
  /\ refused \in SUBSET Tasks
  /\ settled \in BOOLEAN

(* The two counters never drift from the tokens that are really out, over  *)
(* any nesting, refusal, drain and reopen: the count drain() waits on is   *)
(* the number of tokens, and a task's depth is the number it holds.        *)
Accounting ==
  /\ inFlight = Cardinality(OpenTokens)
  /\ \A t \in Tasks : depth[t] = Cardinality(held[t])

(* Once a drain() has returned normally nothing is in flight, and nothing  *)
(* gets in again before the client is reopened: what close() relies on     *)
(* when it shuts the HTTP client down after the drain.                     *)
SettledIsEmpty == settled => draining /\ OpenTokens = {}

(* A drain() is never left asleep with nothing to wait for: notify_all is  *)
(* called at the one moment it is needed.                                  *)
NoLostWakeup ==
  \A d \in Drainers : waiter[d] = "waiting" => inFlight # 0

(* An operation that holds a token is never refused half-way: the RPCs     *)
(* nested in an admitted upload or wait go through while the client        *)
(* drains.                                                                 *)
AdmittedNeverRefused ==
  [][\A t \in refused' \ refused : held[t] = {}]_drainVars

=============================================================================
