----------------------------- MODULE RpcPipeline -----------------------------
(***************************************************************************)
(* The logical RPC calls of one client: the concurrency limit, the retry   *)
(* and the auth-refresh middleware of the chain (_middleware/), the        *)
(* terminal of RuntimeTransport, the decode-time retry of RpcExecutor, and *)
(* the single-flight refresh of AuthRefreshCoordinator they share.         *)
(*                                                                         *)
(* Tokens (CSRF and session id) are counted: tokens n are good until       *)
(* Google has expired them.  A refresh task is named after the call that   *)
(* started it.  A step goes from one suspension to the next.               *)
(***************************************************************************)
EXTENDS Integers, FiniteSets

CONSTANTS Calls,          \* logical calls, each reused when it has ended
          None,           \* no refresh task
          MaxConcurrent,  \* max_concurrent_rpcs
          RateLimitMax,   \* rate_limit_max_retries
          ServerErrorMax, \* server_error_max_retries
          MaxExpiries     \* bound: times Google expires the tokens

ASSUME PipelineAssumption ==
  /\ MaxConcurrent \in Nat \ {0}
  /\ RateLimitMax \in Nat
  /\ ServerErrorMax \in Nat
  /\ MaxExpiries \in Nat
  /\ None \notin Calls
  /\ IsFiniteSet(Calls)

VARIABLES call,    \* where each call is, and what it carries
          permits, \* free slots of the RPC semaphore
          auth,    \* the tokens the client holds
          good,    \* the tokens Google accepts
          slot,    \* _refresh_task: the call that started the latest one
          task     \* the refresh task each call has started

vars == <<call, permits, auth, good, slot, task>>

IdleCall == [at |-> "idle", kind |-> "rpc", strict |-> FALSE, budget |-> TRUE,
             leg |-> "first", layer |-> "wire", tokens |-> 0, limited |-> 0,
             erred |-> 0, joined |-> None, asked |-> 0, posts |-> 0]
NoTask == [at |-> "none", tokens |-> 0]

Running(t) == t # None /\ task[t].at \in {"fetching", "fetched", "applied"}

-----------------------------------------------------------------------------

Init ==
  /\ call = [c \in Calls |-> IdleCall]
  /\ permits = MaxConcurrent
  /\ auth = 0
  /\ good = 0
  /\ slot = None
  /\ task = [c \in Calls |-> NoTask]

(* A chat POST has no decode-time retry.  A strict call is an RPC that the *)
(* idempotency registry or its caller excludes from replays.               *)
Start(c, kind, strict) ==
  /\ call[c].at = "idle"
  /\ kind = "chat" => ~strict
  /\ ~Running(c)
  /\ \A d \in Calls : call[d].joined # c
  /\ call' = [call EXCEPT ![c] = [IdleCall EXCEPT !.at = "queued", !.kind = kind,
                                                  !.strict = strict]]
  /\ UNCHANGED <<permits, auth, good, slot, task>>

AcquirePermit(c) ==
  /\ call[c].at = "queued"
  /\ permits > 0
  /\ permits' = permits - 1
  /\ call' = [call EXCEPT ![c].at = "ready"]
  /\ UNCHANGED <<auth, good, slot, task>>

(* The terminal rebuilds the request from the tokens of this moment. *)
Post(c) ==
  /\ call[c].at = "ready"
  /\ call' = [call EXCEPT ![c].at = "posted", ![c].tokens = auth,
                          ![c].posts = @ + 1]
  /\ UNCHANGED <<permits, auth, good, slot, task>>

HoldsPermit(r) ==
  r.at \in {"ready", "posted", "backoff"} \/ (r.at = "refreshing" /\ r.layer = "wire")

GiveBack(c) == permits' = permits + (IF HoldsPermit(call[c]) THEN 1 ELSE 0)

(* The call leaves the chain for good, with a result or an error. *)
End(c) ==
  /\ call' = [call EXCEPT ![c] = IdleCall]
  /\ GiveBack(c)

(* Google expires the tokens of the page that was loaded last. *)
Expire ==
  /\ good < MaxExpiries
  /\ good' = good + 1
  /\ UNCHANGED <<call, permits, auth, slot, task>>

(* A result the caller gets, or an error nothing in the chain handles. *)
ReplyFinal(c) ==
  /\ call[c].at = "posted"
  /\ End(c)
  /\ UNCHANGED <<auth, good, slot, task>>

-----------------------------------------------------------------------------
(* RetryMiddleware: inside the permit, around the auth refresh. *)

Backoff(c, r) == call' = [call EXCEPT ![c] = [r EXCEPT !.at = "backoff", !.tokens = 0]]

ReplyRateLimited(c) ==
  LET r == call[c] IN
  /\ r.at = "posted"
  /\ IF r.strict \/ r.limited >= RateLimitMax
     THEN End(c)
     ELSE Backoff(c, [r EXCEPT !.limited = @ + 1]) /\ permits' = permits
  /\ UNCHANGED <<auth, good, slot, task>>

ReplyServerError(c) ==
  LET r == call[c] IN
  /\ r.at = "posted"
  /\ IF r.strict \/ r.erred >= ServerErrorMax
     THEN End(c)
     ELSE Backoff(c, [r EXCEPT !.erred = @ + 1]) /\ permits' = permits
  /\ UNCHANGED <<auth, good, slot, task>>

(* The sleep is over, or the deadline does not allow another attempt.      *)
BackoffOver(c) ==
  /\ call[c].at = "backoff"
  /\ \/ /\ call' = [call EXCEPT ![c].at = "ready", ![c].leg = "first"]
        /\ permits' = permits
     \/ End(c)
  /\ UNCHANGED <<auth, good, slot, task>>

-----------------------------------------------------------------------------
(* The two places that react to an auth error. *)

(* await_refresh: join the refresh that runs, or start one.                *)
JoinedBy_NoSlot(c) == c  \* mutant: everyone starts a refresh
JoinedBy(c) == IF Running(slot) THEN slot ELSE c

AwaitRefresh(c, r) ==
  LET t == JoinedBy(c) IN
  /\ call' = [call EXCEPT ![c] = [r EXCEPT !.at = "refreshing", !.joined = t,
                                           !.asked = r.asked + 1]]
  /\ slot' = t
  /\ task' = IF t = c THEN [task EXCEPT ![c] = [NoTask EXCEPT !.at = "fetching"]] ELSE task
  /\ UNCHANGED <<auth, good>>

MayRefreshWire_Strict(r) == r.leg = "first" /\ r.budget  \* mutant

(* AuthRefreshMiddleware: the retry it makes itself is not caught again,   *)
(* and a call that has refreshed before does not refresh again.            *)
MayRefreshWire(r) == r.leg = "first" /\ ~r.strict /\ r.budget

(* HTTP 400, 401 or 403: an expired token, or any other refusal. *)
ReplyAuthStatus(c) ==
  LET r == call[c] IN
  /\ r.at = "posted"
  /\ IF MayRefreshWire(r)
     THEN AwaitRefresh(c, [r EXCEPT !.layer = "wire"]) /\ permits' = permits
     ELSE End(c) /\ UNCHANGED <<auth, good, slot, task>>

RefreshDecoded(c, leave) ==
  LET r == call[c] IN
  /\ r.at = "posted"
  /\ r.kind = "rpc"
  /\ IF ~r.strict /\ r.budget
     THEN AwaitRefresh(c, [r EXCEPT !.layer = "decoded", !.budget = FALSE]) /\ leave
     ELSE End(c) /\ UNCHANGED <<auth, good, slot, task>>

ReplyAuthDecoded_KeepsPermit(c) == RefreshDecoded(c, permits' = permits)  \* mutant

(* RpcExecutor: HTTP 200 whose payload is an auth error.  The call has     *)
(* left the chain, and the budget is taken before the refresh.             *)
ReplyAuthDecoded(c) == RefreshDecoded(c, GiveBack(c))

(* The refresh the call has joined is over.  On the wire the call posts    *)
(* again under the permit it still holds; the executor sends it through    *)
(* the whole chain again, with fresh retry counters, unless its deadline   *)
(* has passed.                                                             *)
RefreshReturns(c) ==
  LET r == call[c] IN
  /\ r.at = "refreshing"
  /\ ~Running(r.joined)
  /\ \/ /\ task[r.joined].at = "done"
        /\ call' = [call EXCEPT ![c] =
             IF r.layer = "wire"
             THEN [r EXCEPT !.at = "ready", !.leg = "again", !.budget = FALSE,
                            !.joined = None, !.tokens = 0]
             ELSE [r EXCEPT !.at = "queued", !.leg = "first", !.layer = "wire",
                            !.joined = None, !.tokens = 0, !.limited = 0, !.erred = 0]]
        /\ permits' = permits
     \/ (task[r.joined].at # "done" \/ r.layer = "decoded") /\ End(c)
  /\ UNCHANGED <<auth, good, slot, task>>

(* The caller gives up: the permit goes back; a refresh it waits for runs  *)
(* on behind the shield of await_refresh.                                  *)
Cancel(c) ==
  /\ call[c].at # "idle"
  /\ End(c)
  /\ UNCHANGED <<auth, good, slot, task>>

-----------------------------------------------------------------------------
(* refresh_auth_session, in a task of its own. *)

RefreshStep(t, from, to) ==
  /\ task[t].at = from
  /\ task' = [task EXCEPT ![t] = to]
  /\ UNCHANGED <<call, permits, good, slot>>

FetchTokens(t) ==
  /\ RefreshStep(t, "fetching", [at |-> "fetched", tokens |-> good])
  /\ UNCHANGED auth

UpdateTokens(t) ==
  /\ RefreshStep(t, "fetched", [task[t] EXCEPT !.at = "applied"])
  /\ auth' = task[t].tokens

(* The cookies are saved. *)
RefreshDone(t) ==
  /\ RefreshStep(t, "applied", [task[t] EXCEPT !.at = "done"])
  /\ UNCHANGED auth

(* The page cannot be loaded or read, the save raises, or a forced close() *)
(* cancels the task.                                                       *)
RefreshFails(t) ==
  /\ Running(t)
  /\ RefreshStep(t, task[t].at, [task[t] EXCEPT !.at = "failed"])
  /\ UNCHANGED auth

-----------------------------------------------------------------------------

Reply(c) ==
  \/ ReplyFinal(c) \/ ReplyRateLimited(c) \/ ReplyServerError(c)
  \/ ReplyAuthStatus(c) \/ ReplyAuthDecoded(c)

RefreshProgress(t) ==
  FetchTokens(t) \/ UpdateTokens(t) \/ RefreshDone(t) \/ RefreshFails(t)

Next ==
  \/ Expire
  \/ \E c \in Calls :
       \/ \E kind \in {"rpc", "chat"}, strict \in BOOLEAN : Start(c, kind, strict)
       \/ AcquirePermit(c) \/ Post(c) \/ Reply(c) \/ BackoffOver(c)
       \/ RefreshReturns(c) \/ Cancel(c) \/ RefreshProgress(c)

Spec == Init /\ [][Next]_vars

(* Every HTTP request, the refresh's own included, has a timeout; sleeps   *)
(* end; asyncio.Semaphore serves its waiters in order, so that a call that *)
(* sees a free permit again and again gets one.  Nobody has to call, to    *)
(* cancel or to expire anything.                                           *)
Fairness ==
  \A c \in Calls :
    /\ SF_vars(AcquirePermit(c))
    /\ WF_vars(Post(c)) /\ WF_vars(Reply(c)) /\ WF_vars(BackoffOver(c))
    /\ WF_vars(RefreshReturns(c)) /\ WF_vars(RefreshProgress(c))

FairSpec == Spec /\ Fairness

-----------------------------------------------------------------------------
(* Properties *)

Tokens == 0 .. MaxExpiries

CallRecord ==
  [at : {"idle", "queued", "ready", "posted", "backoff", "refreshing"},
   kind : {"rpc", "chat"}, strict : BOOLEAN, budget : BOOLEAN,
   leg : {"first", "again"}, layer : {"wire", "decoded"}, tokens : Tokens,
   limited : 0 .. RateLimitMax, erred : 0 .. ServerErrorMax,
   joined : Calls \cup {None}, asked : Nat, posts : Nat]

TaskRecord ==
  [at : {"none", "fetching", "fetched", "applied", "done", "failed"}, tokens : Tokens]

(* Every variable has its type. *)
TypeOK ==
  /\ call \in [Calls -> CallRecord]
  /\ permits \in 0 .. MaxConcurrent
  /\ auth \in Tokens
  /\ good \in Tokens
  /\ slot \in Calls \cup {None}
  /\ task \in [Calls -> TaskRecord]

(* No permit is lost or invented, whatever becomes of a call while it      *)
(* posts, backs off, waits for a refresh or is cancelled.                  *)
PermitsAddUp ==
  permits + Cardinality({c \in Calls : HoldsPermit(call[c])}) = MaxConcurrent

(* At most one auth refresh for one logical call, over both layers that    *)
(* react to auth errors and all the retries between them.                  *)
OneRefreshPerCall == \A c \in Calls : call[c].asked <= 1

(* The retries of the two layers do not multiply: a call makes no more     *)
(* attempts than twice what RetryMiddleware allows, and one that must not  *)
(* be replayed reaches Google once.                                        *)
AttemptsBounded ==
  \A c \in Calls :
    call[c].posts <= IF call[c].strict THEN 1
                     ELSE 2 * (1 + RateLimitMax + ServerErrorMax)

(* One refresh runs at a time, and it is the one in the slot. *)
SingleFlight == \A t \in Calls : Running(t) => t = slot

(* A refresh never puts older tokens in the place of newer ones. *)
TokensNeverGoBack == [][auth' >= auth]_vars

(* Every call ends: permits held during a backoff or a refresh never keep  *)
(* the others waiting for good.                                            *)
CallsEnd == \A c \in Calls : call[c].at # "idle" ~> call[c].at = "idle"

(* The refresh as SharedFlight sees it. *)
Flight == INSTANCE SharedFlight WITH
  Callers <- Calls,
  flight <- IF Running(slot) THEN slot ELSE None,
  seat <- [c \in Calls |-> IF call[c].at # "refreshing" THEN "home"
                           ELSE IF Running(call[c].joined) THEN "aboard" ELSE "landed"]

(* The calls share the refresh as SharedFlight promises: a call that meets *)
(* an auth error joins the refresh in the air and starts one only when     *)
(* there is none, cancelled calls leave it alone, and its end lets go of   *)
(* everyone who has joined it at once.                                     *)
RefreshIsShared == Flight!Spec

=============================================================================
