-------------------------- MODULE RpcPipelineProofs --------------------------
(***************************************************************************)
(* What RpcPipeline guarantees for any number of calls, permits and        *)
(* retries.                                                                *)
(***************************************************************************)
EXTENDS RpcPipeline, FiniteSetTheorems, TLAPS

MaxRound == 1 + RateLimitMax + ServerErrorMax

(* One call: the refresh budget records the refresh, a strict call never   *)
(* gets beyond its first POST, and the attempts are those of the present   *)
(* round of RetryMiddleware, after at most one round before a refresh.     *)
CallInv(r) ==
  /\ r.asked <= 1
  /\ r.budget => r.asked = 0 \/ (r.at = "refreshing" /\ r.layer = "wire")
  /\ r.at = "refreshing" => r.asked = 1 /\ r.posts <= MaxRound
  /\ r.strict => /\ r.at \in {"queued", "ready", "posted"}
                 /\ r.posts = IF r.at = "posted" THEN 1 ELSE 0
  /\ r.posts <= (IF r.asked = 0 THEN 0 ELSE MaxRound) + r.limited + r.erred
                  + (IF r.at \in {"posted", "refreshing"} THEN 1 ELSE 0)

(* The refresh: a task that has fetched tokens and has not stored them     *)
(* holds none older than the client's.                                     *)
TokensInv ==
  /\ auth <= good
  /\ \A t \in Calls :
       task[t].at = "fetched" => auth <= task[t].tokens /\ task[t].tokens <= good

IInv ==
  /\ TypeOK
  /\ PermitsAddUp
  /\ SingleFlight
  /\ \A c \in Calls : CallInv(call[c])
  /\ TokensInv

Held(r) == IF HoldsPermit(r) THEN 1 ELSE 0

(* What every step of a call comes down to. *)
StepTo(c, r) ==
  /\ call' = [call EXCEPT ![c] = r]
  /\ r \in CallRecord
  /\ CallInv(r)
  /\ permits' = permits + Held(call[c]) - Held(r)

CallsPart ==
  /\ call \in [Calls -> CallRecord]
  /\ permits \in 0 .. MaxConcurrent
  /\ PermitsAddUp
  /\ \A c \in Calls : CallInv(call[c])

RefreshPart ==
  /\ auth \in Tokens
  /\ good \in Tokens
  /\ slot \in Calls \cup {None}
  /\ task \in [Calls -> TaskRecord]
  /\ SingleFlight
  /\ TokensInv

LEMMA Parts == IInv <=> CallsPart /\ RefreshPart
BY DEF IInv, CallsPart, RefreshPart, TypeOK

Holders == {c \in Calls : HoldsPermit(call[c])}

LEMMA HoldersFinite == IsFiniteSet(Holders) /\ IsFiniteSet(Holders')
BY PipelineAssumption, FS_Subset DEF Holders

(* The permits still add up when one call moves. *)
LEMMA StepKeepsPermits ==
  ASSUME CallsPart, NEW c \in Calls, NEW r, StepTo(c, r), permits' >= 0
  PROVE  CallsPart'
<1>1. call' \in [Calls -> CallRecord] /\ \A d \in Calls : CallInv(call'[d])
  BY DEF CallsPart, StepTo
<1>2. Cardinality(Holders) \in Nat /\ Cardinality(Holders') \in Nat
  BY HoldersFinite, FS_CardinalityType
<1>3. permits \in Int /\ MaxConcurrent \in Int
  BY PipelineAssumption DEF CallsPart
<1>4. permits' + Cardinality(Holders') = permits + Cardinality(Holders)
  <2>1. call'[c] = r /\ \A d \in Calls : d # c => call'[d] = call[d]
    BY DEF CallsPart, StepTo
  <2>2. CASE HoldsPermit(call[c]) <=> HoldsPermit(r)
    <3>1. Holders' = Holders
      BY <2>1, <2>2 DEF Holders, HoldsPermit
    <3> QED
      BY <1>2, <1>3, <2>2, <3>1 DEF StepTo, Held
  <2>3. CASE HoldsPermit(call[c]) /\ ~HoldsPermit(r)
    <3>1. Holders' = Holders \ {c} /\ c \in Holders
      BY <2>1, <2>3 DEF Holders, HoldsPermit
    <3>2. Cardinality(Holders') = Cardinality(Holders) - 1
      BY <3>1, HoldersFinite, FS_RemoveElement
    <3> QED
      BY <1>2, <1>3, <2>3, <3>2 DEF StepTo, Held
  <2>4. CASE ~HoldsPermit(call[c]) /\ HoldsPermit(r)
    <3>1. Holders' = Holders \cup {c} /\ c \notin Holders
      BY <2>1, <2>4 DEF Holders, HoldsPermit
    <3>2. Cardinality(Holders') = Cardinality(Holders) + 1
      BY <3>1, HoldersFinite, FS_AddElement
    <3> QED
      BY <1>2, <1>3, <2>4, <3>2 DEF StepTo, Held
  <2> QED
    BY <2>2, <2>3, <2>4
<1>5. PermitsAddUp' /\ permits' \in 0 .. MaxConcurrent
  <2>1. permits' \in Int
    BY <1>3 DEF StepTo, Held
  <2> QED
    BY <1>2, <1>3, <1>4, <2>1 DEF CallsPart, PermitsAddUp, Holders
<1> QED
  BY <1>1, <1>5 DEF CallsPart

-----------------------------------------------------------------------------
(* The steps of a call. *)

LEMMA RefreshUntouched ==
  ASSUME RefreshPart, UNCHANGED <<auth, good, slot, task>>
  PROVE  RefreshPart'
BY DEF RefreshPart, SingleFlight, Running, TokensInv

(* The numbers of a call are numbers. *)
LEMMA CallNumbers ==
  ASSUME CallsPart, NEW c \in Calls
  PROVE  /\ call[c] \in CallRecord
         /\ CallInv(call[c])
         /\ MaxRound \in Nat \ {0}
         /\ permits \in Nat
BY PipelineAssumption DEF CallsPart, MaxRound

LEMMA EndStep ==
  ASSUME CallsPart, NEW c \in Calls, End(c)
  PROVE  CallsPart'
<1>1. IdleCall \in CallRecord /\ CallInv(IdleCall) /\ Held(IdleCall) = 0
  BY PipelineAssumption DEF IdleCall, CallRecord, CallInv, Held, HoldsPermit, Tokens, MaxRound
<1>2. StepTo(c, IdleCall) /\ permits' >= 0
  BY <1>1, CallNumbers DEF End, GiveBack, StepTo, Held
<1> QED
  BY <1>2, StepKeepsPermits

(* A step that leaves the permits alone. *)
LEMMA QuietStep ==
  ASSUME CallsPart, NEW c \in Calls, NEW r,
         call' = [call EXCEPT ![c] = r], permits' = permits,
         r \in CallRecord, CallInv(r), HoldsPermit(call[c]) <=> HoldsPermit(r)
  PROVE  CallsPart'
<1>1. StepTo(c, r) /\ permits' >= 0
  BY CallNumbers DEF StepTo, Held
<1> QED
  BY <1>1, StepKeepsPermits

LEMMA StartKeepsCalls ==
  ASSUME CallsPart, NEW c \in Calls, NEW kind \in {"rpc", "chat"},
         NEW strict \in BOOLEAN, Start(c, kind, strict)
  PROVE  CallsPart'
<1> DEFINE r == [IdleCall EXCEPT !.at = "queued", !.kind = kind, !.strict = strict]
<1>1. r \in CallRecord /\ CallInv(r)
  <2>1. IdleCall \in CallRecord
    BY PipelineAssumption DEF IdleCall, CallRecord, Tokens
  <2>2. r \in CallRecord
    BY <2>1 DEF CallRecord
  <2>3. CallInv(r)
    BY PipelineAssumption DEF IdleCall, CallInv, MaxRound
  <2> QED
    BY <2>2, <2>3
<1>2. HoldsPermit(call[c]) <=> HoldsPermit(r)
  BY DEF Start, HoldsPermit, IdleCall
<1>3. call' = [call EXCEPT ![c] = r] /\ permits' = permits
  BY DEF Start
<1> QED
  BY <1>1, <1>2, <1>3, QuietStep

LEMMA AcquireKeepsCalls ==
  ASSUME CallsPart, NEW c \in Calls, AcquirePermit(c)
  PROVE  CallsPart'
<1> DEFINE r == [call[c] EXCEPT !.at = "ready"]
<1>1. r \in CallRecord /\ CallInv(r)
  BY CallNumbers DEF AcquirePermit, CallRecord, CallInv
<1>2. Held(call[c]) = 0 /\ Held(r) = 1
  BY CallNumbers DEF AcquirePermit, CallRecord, Held, HoldsPermit
<1>3. StepTo(c, r) /\ permits' >= 0
  BY <1>1, <1>2, CallNumbers DEF AcquirePermit, StepTo, CallsPart
<1> QED
  BY <1>3, StepKeepsPermits

LEMMA PostKeepsCalls ==
  ASSUME CallsPart, RefreshPart, NEW c \in Calls, Post(c)
  PROVE  CallsPart'
<1> DEFINE r == [call[c] EXCEPT !.at = "posted", !.tokens = auth, !.posts = @ + 1]
<1>1. r \in CallRecord
  <2>1. auth \in Tokens /\ call[c] \in CallRecord
    BY CallNumbers DEF RefreshPart
  <2>2. call[c].posts + 1 \in Nat
    BY <2>1 DEF CallRecord
  <2> QED
    BY <2>1, <2>2 DEF CallRecord
<1>2. CallInv(r)
  BY CallNumbers DEF Post, CallRecord, CallInv
<1>3. HoldsPermit(call[c]) <=> HoldsPermit(r)
  BY CallNumbers DEF Post, CallRecord, HoldsPermit
<1>4. call' = [call EXCEPT ![c] = r] /\ permits' = permits
  BY CallNumbers DEF Post, CallsPart
<1> QED
  BY <1>1, <1>2, <1>3, <1>4, QuietStep

LEMMA BackoffKeepsCalls ==
  ASSUME CallsPart, NEW c \in Calls, NEW r, Backoff(c, r), permits' = permits,
         call[c].at = "posted", ~call[c].strict,
         \/ /\ call[c].limited < RateLimitMax
            /\ r = [call[c] EXCEPT !.limited = call[c].limited + 1]
         \/ /\ call[c].erred < ServerErrorMax
            /\ r = [call[c] EXCEPT !.erred = call[c].erred + 1]
  PROVE  CallsPart'
<1> DEFINE q == [r EXCEPT !.at = "backoff", !.tokens = 0]
<1>1. q \in CallRecord
  <2>1. 0 \in Tokens /\ call[c] \in CallRecord
    BY CallNumbers, PipelineAssumption DEF Tokens
  <2>2. /\ call[c].limited < RateLimitMax => call[c].limited + 1 \in 0 .. RateLimitMax
        /\ call[c].erred < ServerErrorMax => call[c].erred + 1 \in 0 .. ServerErrorMax
    BY <2>1, PipelineAssumption DEF CallRecord
  <2> QED
    BY <2>1, <2>2 DEF CallRecord
<1>2. CallInv(q)
  BY CallNumbers DEF CallRecord, CallInv
<1>3. HoldsPermit(call[c]) <=> HoldsPermit(q)
  BY CallNumbers DEF CallRecord, HoldsPermit
<1> QED
  BY <1>1, <1>2, <1>3, QuietStep DEF Backoff

LEMMA RetryKeepsCalls ==
  ASSUME CallsPart, NEW c \in Calls, ReplyRateLimited(c) \/ ReplyServerError(c)
  PROVE  CallsPart'
<1>1. CASE End(c)
  BY <1>1, EndStep
<1>2. CASE ReplyRateLimited(c) /\ ~End(c)
  <2>1. call[c].limited < RateLimitMax
    BY <1>2, CallNumbers, PipelineAssumption
    DEF ReplyRateLimited, CallRecord
  <2> QED
    BY <1>2, <2>1, BackoffKeepsCalls DEF ReplyRateLimited
<1>3. CASE ReplyServerError(c) /\ ~End(c)
  <2>1. call[c].erred < ServerErrorMax
    BY <1>3, CallNumbers, PipelineAssumption DEF ReplyServerError, CallRecord
  <2> QED
    BY <1>3, <2>1, BackoffKeepsCalls DEF ReplyServerError
<1> QED
  BY <1>1, <1>2, <1>3

LEMMA BackoffOverKeepsCalls ==
  ASSUME CallsPart, NEW c \in Calls, BackoffOver(c)
  PROVE  CallsPart'
<1>1. CASE End(c)
  BY <1>1, EndStep
<1>2. CASE ~End(c)
  <2> DEFINE r == [call[c] EXCEPT !.at = "ready", !.leg = "first"]
  <2>1. r \in CallRecord
    BY CallNumbers DEF CallRecord
  <2>2. CallInv(r)
    BY CallNumbers DEF BackoffOver, CallRecord, CallInv
  <2>3. HoldsPermit(call[c]) <=> HoldsPermit(r)
    BY CallNumbers DEF BackoffOver, CallRecord, HoldsPermit
  <2>4. call' = [call EXCEPT ![c] = r] /\ permits' = permits
    BY <1>2, CallNumbers DEF BackoffOver, CallsPart
  <2> QED
    BY <2>1, <2>2, <2>3, <2>4, QuietStep
<1> QED
  BY <1>1, <1>2

(* Joining or starting a refresh. *)
LEMMA AwaitKeepsRefresh ==
  ASSUME RefreshPart, NEW c \in Calls, NEW r, AwaitRefresh(c, r)
  PROVE  RefreshPart'
<1> DEFINE t == JoinedBy(c)
<1>1. t \in Calls /\ slot' = t
  BY DEF AwaitRefresh, JoinedBy, Running, RefreshPart
<1>2. [NoTask EXCEPT !.at = "fetching"] \in TaskRecord
  BY PipelineAssumption DEF NoTask, TaskRecord, Tokens
<1>3. task' \in [Calls -> TaskRecord]
  BY <1>2 DEF AwaitRefresh, RefreshPart
<1>4. \A u \in Calls : task'[u] = task[u] \/ (u = c /\ u = t /\ task'[u].at = "fetching")
  BY DEF AwaitRefresh, RefreshPart, NoTask
<1>5. SingleFlight'
  BY <1>1, <1>4 DEF RefreshPart, SingleFlight, Running, JoinedBy
<1>6. TokensInv'
  BY <1>4 DEF RefreshPart, TokensInv, AwaitRefresh
<1> QED
  BY <1>1, <1>3, <1>5, <1>6 DEF RefreshPart, AwaitRefresh

LEMMA AuthStatusKeeps ==
  ASSUME CallsPart, RefreshPart, NEW c \in Calls, ReplyAuthStatus(c)
  PROVE  CallsPart' /\ RefreshPart'
<1>1. CASE ~MayRefreshWire(call[c])
  BY <1>1, EndStep, RefreshUntouched DEF ReplyAuthStatus
<1>2. CASE MayRefreshWire(call[c])
  <2> DEFINE p == [call[c] EXCEPT !.layer = "wire"]
             r == [p EXCEPT !.at = "refreshing", !.joined = JoinedBy(c), !.asked = @ + 1]
  <2>1. AwaitRefresh(c, p) /\ permits' = permits /\ call[c].at = "posted"
    BY <1>2 DEF ReplyAuthStatus
  <2>2. RefreshPart'
    BY <2>1, AwaitKeepsRefresh
  <2>3. call[c].asked + 1 \in Nat /\ JoinedBy(c) \in Calls
    BY CallNumbers DEF CallRecord, JoinedBy, Running, RefreshPart
  <2>4. r \in CallRecord
    BY <2>3, CallNumbers DEF CallRecord
  <2>5. CallInv(r)
    <3>1. /\ call[c].budget /\ ~call[c].strict /\ call[c].asked = 0
          /\ call[c].posts <= call[c].limited + call[c].erred + 1
      BY <1>2, <2>1, CallNumbers, PipelineAssumption DEF MayRefreshWire, CallInv, CallRecord
    <3>2. call[c].posts <= MaxRound
      BY <3>1, CallNumbers, PipelineAssumption DEF CallRecord, MaxRound
    <3>3. /\ r.asked = 1 /\ r.posts = call[c].posts /\ r.at = "refreshing" /\ ~r.strict
          /\ r.limited \in Nat /\ r.erred \in Nat
      BY <3>1, CallNumbers, PipelineAssumption DEF CallRecord
    <3> QED
      BY <3>2, <3>3, CallNumbers DEF CallInv, CallRecord
  <2>6. HoldsPermit(call[c]) <=> HoldsPermit(r)
    BY <2>1, CallNumbers DEF CallRecord, HoldsPermit
  <2>7. call' = [call EXCEPT ![c] = r]
    BY <2>1 DEF AwaitRefresh
  <2> QED
    BY <2>1, <2>2, <2>4, <2>5, <2>6, <2>7, QuietStep
<1> QED
  BY <1>1, <1>2

LEMMA AuthDecodedKeeps ==
  ASSUME CallsPart, RefreshPart, NEW c \in Calls, ReplyAuthDecoded(c)
  PROVE  CallsPart' /\ RefreshPart'
<1>1. CASE ~(~call[c].strict /\ call[c].budget)
  BY <1>1, EndStep, RefreshUntouched DEF ReplyAuthDecoded, RefreshDecoded
<1>2. CASE ~call[c].strict /\ call[c].budget
  <2> DEFINE p == [call[c] EXCEPT !.layer = "decoded", !.budget = FALSE]
             r == [p EXCEPT !.at = "refreshing", !.joined = JoinedBy(c), !.asked = @ + 1]
  <2>1. AwaitRefresh(c, p) /\ GiveBack(c) /\ call[c].at = "posted"
    BY <1>2 DEF ReplyAuthDecoded, RefreshDecoded
  <2>2. RefreshPart'
    BY <2>1, AwaitKeepsRefresh
  <2>3. call[c].asked + 1 \in Nat /\ JoinedBy(c) \in Calls
    BY CallNumbers DEF CallRecord, JoinedBy, Running, RefreshPart
  <2>4. r \in CallRecord
    BY <2>3, CallNumbers DEF CallRecord
  <2>5. CallInv(r)
    <3>1. /\ call[c].asked = 0
          /\ call[c].posts <= call[c].limited + call[c].erred + 1
      BY <1>2, <2>1, CallNumbers, PipelineAssumption DEF CallInv, CallRecord
    <3>2. call[c].posts <= MaxRound
      BY <3>1, CallNumbers, PipelineAssumption DEF CallRecord, MaxRound
    <3>3. /\ r.asked = 1 /\ r.posts = call[c].posts /\ r.at = "refreshing" /\ ~r.strict
          /\ r.limited \in Nat /\ r.erred \in Nat
      BY <1>2, <3>1, CallNumbers, PipelineAssumption DEF CallRecord
    <3> QED
      BY <3>2, <3>3, CallNumbers DEF CallInv, CallRecord
  <2>6. Held(call[c]) = 1 /\ Held(r) = 0 /\ permits' = permits + 1
    BY <2>1, CallNumbers DEF CallRecord, Held, HoldsPermit, GiveBack
  <2>7. call' = [call EXCEPT ![c] = r]
    BY <2>1 DEF AwaitRefresh
  <2>8. StepTo(c, r) /\ permits' >= 0
    BY <2>4, <2>5, <2>6, <2>7, CallNumbers DEF StepTo
  <2> QED
    BY <2>2, <2>8, StepKeepsPermits
<1> QED
  BY <1>1, <1>2

LEMMA ReturnKeepsCalls ==
  ASSUME CallsPart, NEW c \in Calls, RefreshReturns(c)
  PROVE  CallsPart'
<1> DEFINE wire == [call[c] EXCEPT !.at = "ready", !.leg = "again", !.budget = FALSE,
                                   !.joined = None, !.tokens = 0]
           decoded == [call[c] EXCEPT !.at = "queued", !.leg = "first", !.layer = "wire",
                                      !.joined = None, !.tokens = 0, !.limited = 0,
                                      !.erred = 0]
<1>1. CASE End(c)
  BY <1>1, EndStep
<1>2. CASE ~End(c) /\ call[c].layer = "wire"
  <2>1. call' = [call EXCEPT ![c] = wire] /\ permits' = permits
    BY <1>2 DEF RefreshReturns
  <2>2. 0 \in Tokens
    BY PipelineAssumption DEF Tokens
  <2>3. wire \in CallRecord
    BY <2>2, CallNumbers DEF CallRecord
  <2>4. CallInv(wire)
    <3>1. call[c].asked = 1 /\ ~call[c].strict /\ call[c].posts <= MaxRound
      BY CallNumbers DEF RefreshReturns, CallInv
    <3>2. call[c].limited \in Nat /\ call[c].erred \in Nat /\ call[c].posts \in Nat
      BY CallNumbers, PipelineAssumption DEF CallRecord
    <3> QED
      BY <3>1, <3>2, CallNumbers DEF CallInv, CallRecord
  <2>5. HoldsPermit(call[c]) <=> HoldsPermit(wire)
    BY <1>2, CallNumbers DEF RefreshReturns, CallRecord, HoldsPermit
  <2> QED
    BY <2>1, <2>3, <2>4, <2>5, QuietStep
<1>3. CASE ~End(c) /\ call[c].layer # "wire"
  <2>1. call' = [call EXCEPT ![c] = decoded] /\ permits' = permits
    BY <1>3 DEF RefreshReturns
  <2>2. 0 \in Tokens /\ 0 \in 0 .. RateLimitMax /\ 0 \in 0 .. ServerErrorMax
    BY PipelineAssumption DEF Tokens
  <2>3. decoded \in CallRecord
    BY <2>2, CallNumbers DEF CallRecord
  <2>4. CallInv(decoded)
    <3>1. /\ call[c].asked = 1 /\ ~call[c].strict /\ call[c].posts <= MaxRound
          /\ ~call[c].budget
      BY <1>3, CallNumbers DEF RefreshReturns, CallInv
    <3>2. call[c].posts \in Nat
      BY CallNumbers DEF CallRecord
    <3> QED
      BY <3>1, <3>2, CallNumbers DEF CallInv, CallRecord
  <2>5. HoldsPermit(call[c]) <=> HoldsPermit(decoded)
    BY <1>3, CallNumbers DEF RefreshReturns, CallRecord, HoldsPermit
  <2> QED
    BY <2>1, <2>3, <2>4, <2>5, QuietStep
<1> QED
  BY <1>1, <1>2, <1>3

-----------------------------------------------------------------------------
(* The steps of the refresh. *)

LEMMA ExpireKeepsRefresh ==
  ASSUME RefreshPart, Expire
  PROVE  RefreshPart'
<1>1. good' \in Tokens /\ good' >= good
  BY PipelineAssumption DEF Expire, RefreshPart, Tokens
<1>2. TokensInv'
  <2>1. auth \in Int /\ good \in Int /\ good' \in Int
    BY <1>1, PipelineAssumption DEF RefreshPart, Tokens
  <2>2. \A t \in Calls : task[t].tokens \in Int
    BY PipelineAssumption DEF RefreshPart, TaskRecord, Tokens
  <2> QED
    BY <1>1, <2>1, <2>2 DEF Expire, RefreshPart, TokensInv
<1> QED
  BY <1>1, <1>2 DEF Expire, RefreshPart, SingleFlight, Running

LEMMA ProgressKeepsRefresh ==
  ASSUME RefreshPart, NEW t \in Calls, RefreshProgress(t)
  PROVE  RefreshPart' /\ auth' >= auth
<1>1. /\ auth \in Int /\ good \in Int /\ auth <= good
      /\ \A u \in Calls : task[u].tokens \in Int
  BY PipelineAssumption DEF RefreshPart, TaskRecord, Tokens, TokensInv
<1>2. ASSUME NEW from, NEW to \in TaskRecord, RefreshStep(t, from, to), Running(t),
             auth' \in Tokens, auth' >= auth, auth' <= good,
             \/ /\ auth' = auth
                /\ to.at = "fetched" => auth <= to.tokens /\ to.tokens <= good
             \/ to.at = "applied"
      PROVE  RefreshPart'
  <2>1. t = slot /\ \A u \in Calls : u # t => ~Running(u)
    BY <1>2 DEF RefreshPart, SingleFlight
  <2>2. /\ task' \in [Calls -> TaskRecord] /\ task'[t] = to
        /\ \A u \in Calls : u # t => task'[u] = task[u]
    BY <1>2 DEF RefreshPart, RefreshStep
  <2>3. SingleFlight'
    BY <1>2, <2>1, <2>2 DEF SingleFlight, Running, RefreshStep
  <2>4. TokensInv'
    <3> SUFFICES ASSUME NEW u \in Calls, task'[u].at = "fetched"
                 PROVE  auth' <= task'[u].tokens /\ task'[u].tokens <= good
      BY <1>2 DEF TokensInv, RefreshStep
    <3>1. u = t
      BY <2>1, <2>2, PipelineAssumption DEF Running
    <3> QED
      BY <1>2, <2>2, <3>1
  <2> QED
    BY <1>2, <2>2, <2>3, <2>4 DEF RefreshPart, RefreshStep
<1>3. task[t] \in TaskRecord /\ t # None
  BY PipelineAssumption DEF RefreshPart
<1>4. CASE FetchTokens(t)
  <2>1. [at |-> "fetched", tokens |-> good] \in TaskRecord
    BY DEF TaskRecord, RefreshPart
  <2>2. RefreshStep(t, "fetching", [at |-> "fetched", tokens |-> good]) /\ auth' = auth
    BY <1>4 DEF FetchTokens
  <2>3. Running(t)
    BY <1>3, <2>2 DEF RefreshStep, Running
  <2>4. auth' \in Tokens /\ auth' >= auth /\ auth' <= good
    BY <1>1, <2>2 DEF RefreshPart
  <2> QED
    BY <1>1, <1>2, <2>1, <2>2, <2>3, <2>4
<1>5. CASE UpdateTokens(t)
  <2>1. [task[t] EXCEPT !.at = "applied"] \in TaskRecord
    BY <1>3 DEF TaskRecord
  <2>2. task[t].at = "fetched" /\ auth' = task[t].tokens
    BY <1>5 DEF UpdateTokens, RefreshStep
  <2>3. auth' \in Tokens /\ auth' >= auth /\ auth' <= good
    BY <1>1, <1>3, <2>2 DEF RefreshPart, TokensInv, TaskRecord
  <2>4. RefreshStep(t, "fetched", [task[t] EXCEPT !.at = "applied"]) /\ Running(t)
    BY <1>3, <2>2, <1>5 DEF UpdateTokens, Running
  <2> QED
    BY <1>2, <1>3, <2>1, <2>3, <2>4 DEF TaskRecord
<1>6. CASE RefreshDone(t)
  <2>1. [task[t] EXCEPT !.at = "done"] \in TaskRecord
    BY <1>3 DEF TaskRecord
  <2>2. RefreshStep(t, "applied", [task[t] EXCEPT !.at = "done"]) /\ auth' = auth
    BY <1>6 DEF RefreshDone
  <2>3. Running(t)
    BY <1>3, <2>2 DEF RefreshStep, Running
  <2>4. auth' \in Tokens /\ auth' >= auth /\ auth' <= good
    BY <1>1, <2>2 DEF RefreshPart
  <2> QED
    BY <1>2, <1>3, <2>1, <2>2, <2>3, <2>4 DEF TaskRecord
<1>7. CASE RefreshFails(t)
  <2>1. [task[t] EXCEPT !.at = "failed"] \in TaskRecord
    BY <1>3 DEF TaskRecord
  <2> QED
    BY <1>1, <1>2, <1>3, <1>7, <2>1 DEF RefreshFails, RefreshPart, TaskRecord
<1> QED
  BY <1>4, <1>5, <1>6, <1>7 DEF RefreshProgress

-----------------------------------------------------------------------------
(* The theorems. *)

LEMMA InitInvariant == Init => IInv
<1> SUFFICES ASSUME Init PROVE IInv
  OBVIOUS
<1>1. IdleCall \in CallRecord /\ CallInv(IdleCall) /\ ~HoldsPermit(IdleCall)
  BY PipelineAssumption DEF IdleCall, CallRecord, CallInv, HoldsPermit, Tokens, MaxRound
<1>2. NoTask \in TaskRecord /\ 0 \in Tokens /\ MaxConcurrent \in 0 .. MaxConcurrent
  BY PipelineAssumption DEF NoTask, TaskRecord, Tokens
<1>3. TypeOK
  BY <1>1, <1>2 DEF Init, TypeOK
<1>4. PermitsAddUp
  <2>1. {c \in Calls : HoldsPermit(call[c])} = {}
    BY <1>1 DEF Init
  <2>2. Cardinality({c \in Calls : HoldsPermit(call[c])}) = 0
    BY <2>1, FS_EmptySet
  <2> QED
    BY <2>2, PipelineAssumption DEF Init, PermitsAddUp
<1>5. SingleFlight /\ TokensInv
  BY DEF Init, SingleFlight, Running, NoTask, TokensInv
<1> QED
  BY <1>1, <1>3, <1>4, <1>5 DEF Init, IInv

LEMMA NextKeepsInvariant ==
  ASSUME IInv, [Next]_vars
  PROVE  IInv' /\ auth' >= auth
<1>1. CallsPart /\ RefreshPart
  BY Parts
<1>2. auth \in Int
  BY <1>1, PipelineAssumption DEF RefreshPart, Tokens
<1>3. CallsPart' /\ RefreshPart' => IInv'
  BY DEF IInv, CallsPart, RefreshPart, TypeOK
<1>4. ASSUME UNCHANGED <<call, permits>>
      PROVE  CallsPart'
  BY <1>1, <1>4 DEF CallsPart, PermitsAddUp
<1>5. CASE Expire
  BY <1>1, <1>2, <1>3, <1>4, <1>5, ExpireKeepsRefresh DEF Expire
<1>6. ASSUME NEW c \in Calls, RefreshProgress(c)
      PROVE  IInv' /\ auth' >= auth
  <2>1. UNCHANGED <<call, permits>>
    BY <1>6 DEF RefreshProgress, FetchTokens, UpdateTokens, RefreshDone, RefreshFails,
                RefreshStep
  <2> QED
    BY <1>1, <1>3, <1>4, <1>6, <2>1, ProgressKeepsRefresh
<1>7. ASSUME NEW c \in Calls, NEW kind \in {"rpc", "chat"}, NEW strict \in BOOLEAN,
             Start(c, kind, strict)
      PROVE  IInv' /\ auth' >= auth
  <2>1. UNCHANGED <<auth, good, slot, task>>
    BY <1>7 DEF Start
  <2> QED
    BY <1>1, <1>2, <1>3, <1>7, <2>1, StartKeepsCalls, RefreshUntouched
<1>8. ASSUME NEW c \in Calls,
             \/ AcquirePermit(c) \/ Post(c) \/ ReplyFinal(c) \/ ReplyRateLimited(c)
             \/ ReplyServerError(c) \/ BackoffOver(c) \/ RefreshReturns(c) \/ Cancel(c)
      PROVE  IInv' /\ auth' >= auth
  <2>1. UNCHANGED <<auth, good, slot, task>>
    BY <1>8 DEF AcquirePermit, Post, ReplyFinal, ReplyRateLimited,
                ReplyServerError, BackoffOver, RefreshReturns, Cancel
  <2>2. CallsPart'
    BY <1>1, <1>8, AcquireKeepsCalls, PostKeepsCalls, RetryKeepsCalls,
       BackoffOverKeepsCalls, ReturnKeepsCalls, EndStep DEF ReplyFinal, Cancel
  <2> QED
    BY <1>1, <1>2, <1>3, <2>1, <2>2, RefreshUntouched
<1>9. ASSUME NEW c \in Calls, ReplyAuthStatus(c) \/ ReplyAuthDecoded(c)
      PROVE  IInv' /\ auth' >= auth
  <2>1. auth' = auth
    BY <1>9 DEF ReplyAuthStatus, ReplyAuthDecoded, RefreshDecoded, AwaitRefresh
  <2> QED
    BY <1>1, <1>2, <1>3, <1>9, <2>1, AuthStatusKeeps, AuthDecodedKeeps
<1>10. CASE UNCHANGED vars
  BY <1>1, <1>2, <1>3, <1>4, <1>10, RefreshUntouched DEF vars
<1> QED
  BY <1>5, <1>6, <1>7, <1>8, <1>9, <1>10 DEF Next, Reply

(* The inductive invariant of the RPC pipeline. *)
THEOREM PipelineInvariant == Spec => []IInv
<1>1. IInv /\ [Next]_vars => IInv'
  BY NextKeepsInvariant
<1> QED
  BY InitInvariant, <1>1, PTL DEF Spec

(* Every variable has its type, for any number of calls and permits. *)
THEOREM PipelineTypeOK == Spec => []TypeOK
<1>1. IInv => TypeOK
  BY DEF IInv
<1> QED
  BY <1>1, PipelineInvariant, PTL

(* No permit of the RPC semaphore is lost or invented. *)
THEOREM PermitsAreConserved == Spec => []PermitsAddUp
<1>1. IInv => PermitsAddUp
  BY DEF IInv
<1> QED
  BY <1>1, PipelineInvariant, PTL

(* The wire and the decode layer together refresh at most once for a call. *)
THEOREM RefreshesOnce == Spec => []OneRefreshPerCall
<1>1. IInv => OneRefreshPerCall
  BY DEF IInv, CallInv, OneRefreshPerCall
<1> QED
  BY <1>1, PipelineInvariant, PTL

(* The retries of the two layers add up, they do not multiply, and a call  *)
(* excluded from replays is posted at most once.                           *)
THEOREM AttemptsAddUp == Spec => []AttemptsBounded
<1>1. ASSUME IInv, NEW c \in Calls
      PROVE  call[c].posts <= IF call[c].strict THEN 1
                              ELSE 2 * (1 + RateLimitMax + ServerErrorMax)
  <2>1. /\ call[c] \in CallRecord
        /\ CallInv(call[c])
    BY <1>1 DEF IInv, TypeOK
  <2>2. /\ call[c].posts \in Nat
        /\ call[c].limited \in 0 .. RateLimitMax
        /\ call[c].erred \in 0 .. ServerErrorMax
    BY <2>1 DEF CallRecord
  <2> QED
    BY <2>1, <2>2, PipelineAssumption DEF CallInv, MaxRound
<1>2. IInv => AttemptsBounded
  BY <1>1 DEF AttemptsBounded
<1> QED
  BY <1>2, PipelineInvariant, PTL

(* At most one refresh task runs, the one that the next caller would join. *)
THEOREM RefreshIsSingleFlight == Spec => []SingleFlight
<1>1. IInv => SingleFlight
  BY DEF IInv
<1> QED
  BY <1>1, PipelineInvariant, PTL

(* The tokens of a client are never replaced by older ones. *)
THEOREM TokensOnlyAdvance == Spec => TokensNeverGoBack
<1>1. IInv /\ [Next]_vars => [auth' >= auth]_vars
  BY NextKeepsInvariant
<1> QED
  BY <1>1, PipelineInvariant, PTL DEF Spec, TokensNeverGoBack

-----------------------------------------------------------------------------
(* The refinement of SharedFlight. *)

CallSeat(c) ==
  IF call[c].at # "refreshing" THEN "home"
  ELSE IF Running(call[c].joined) THEN "aboard" ELSE "landed"
Seats == [c \in Calls |-> CallSeat(c)]
InAir == IF Running(slot) THEN slot ELSE None

(* Nobody sits in the refresh that a call has yet to start: the name of a  *)
(* flight that has landed is not given to the next while it has passengers. *)
NamesAreFree ==
  \A c \in Calls : call[c].at # "idle" /\ call[c].asked = 0 =>
    /\ ~Running(c)
    /\ \A d \in Calls : call[d].at = "refreshing" => call[d].joined # c

FlightStep == [Flight!Next]_(Flight!vars)

LEMMA SeatsDone ==
  ASSUME Seats' = Seats, InAir' = InAir
  PROVE  FlightStep
BY DEF FlightStep, Flight!vars, Seats, CallSeat, InAir

LEMMA LeaveDone ==
  ASSUME NEW c \in Calls, Seats[c] # "home", Seats' = [Seats EXCEPT ![c] = "home"],
         InAir' = InAir
  PROVE  FlightStep
<1>1. Flight!Leave(c)
  BY DEF Flight!Leave, Seats, CallSeat, InAir
<1> QED
  BY <1>1 DEF FlightStep, Flight!Next

(* A step of one call that starts and joins no refresh. *)
LEMMA CallMoves ==
  ASSUME IInv, NamesAreFree, NEW c \in Calls, NEW r, call[c].at # "idle",
         call' = [call EXCEPT ![c] = r], r.at # "refreshing",
         r.at = "idle" \/ r.asked = call[c].asked, UNCHANGED <<slot, task>>
  PROVE  NamesAreFree' /\ FlightStep
<1>1. call'[c] = r /\ \A d \in Calls \ {c} : call'[d] = call[d]
  BY DEF IInv, TypeOK
<1>2. \A t : Running(t)' <=> Running(t)
  BY DEF Running
<1>3. NamesAreFree'
  BY <1>1, <1>2 DEF NamesAreFree
<1>4. InAir' = InAir
  BY <1>2 DEF InAir
<1>5. \A d \in Calls : CallSeat(d)' = IF d = c THEN "home" ELSE CallSeat(d)
  BY <1>1, <1>2 DEF CallSeat
<1>6. Seats' = [Seats EXCEPT ![c] = "home"]
  BY <1>5 DEF Seats
<1>7. CASE Seats[c] = "home"
  <2>1. Seats = [d \in Calls |-> Seats[d]]
    BY DEF Seats
  <2>2. Seats' = Seats
    BY <1>6, <1>7, <2>1
  <2> QED
    BY <1>3, <1>4, <2>2, SeatsDone
<1>8. CASE Seats[c] # "home"
  BY <1>3, <1>4, <1>6, <1>8, LeaveDone
<1> QED
  BY <1>7, <1>8

LEMMA StartMoves ==
  ASSUME IInv, NamesAreFree, NEW c \in Calls, NEW kind, NEW strict, Start(c, kind, strict)
  PROVE  NamesAreFree' /\ FlightStep
<1> DEFINE r == [IdleCall EXCEPT !.at = "queued", !.kind = kind, !.strict = strict]
<1>1. r.at = "queued" /\ call[c].at = "idle"
  BY DEF Start, IdleCall
<1>2. call'[c] = r /\ \A d \in Calls \ {c} : call'[d] = call[d]
  BY DEF Start, IInv, TypeOK
<1>3. \A t : Running(t)' <=> Running(t)
  BY DEF Running, Start
<1>4. NamesAreFree'
  BY <1>1, <1>2, <1>3 DEF NamesAreFree, Start
<1>5. InAir' = InAir
  BY <1>3 DEF InAir, Start
<1>6. \A d \in Calls : CallSeat(d)' = CallSeat(d)
  BY <1>1, <1>2, <1>3 DEF CallSeat
<1> QED
  BY <1>4, <1>5, <1>6, SeatsDone DEF Seats

LEMMA BoardMoves ==
  ASSUME IInv, NamesAreFree, NEW c \in Calls, NEW r, AwaitRefresh(c, r),
         call[c].at = "posted", call[c].asked = 0, r.asked = 0
  PROVE  NamesAreFree' /\ FlightStep
<1>0. PICK t \in Calls : t = JoinedBy(c)
  BY DEF JoinedBy, IInv, TypeOK, Running
<1> DEFINE n == [r EXCEPT !.at = "refreshing", !.joined = t, !.asked = r.asked + 1]
<1>1. /\ call'[c] = n
      /\ \A d \in Calls \ {c} : call'[d] = call[d]
      /\ n.at = "refreshing" /\ n.joined = t /\ n.asked = 1
  BY <1>0 DEF AwaitRefresh, IInv, TypeOK
<1>2. slot' = t
  BY <1>0 DEF AwaitRefresh
<1>3. ~Running(c) /\ \A d \in Calls : call[d].at = "refreshing" => call[d].joined # c
  BY DEF NamesAreFree
<1>4. \A u \in Calls \cup {None} : u # c => (Running(u)' <=> Running(u))
  BY DEF AwaitRefresh, IInv, TypeOK, Running
<1>5. Running(t)'
  BY <1>0, PipelineAssumption DEF AwaitRefresh, IInv, TypeOK, Running, JoinedBy, NoTask
<1> HIDE DEF n
<1>6. NamesAreFree'
  <2> SUFFICES ASSUME NEW e \in Calls, call'[e].at # "idle", call'[e].asked = 0
               PROVE  /\ ~Running(e)'
                      /\ \A d \in Calls : call'[d].at = "refreshing" => call'[d].joined # e
    BY DEF NamesAreFree
  <2>1. e # c /\ call'[e] = call[e]
    BY <1>1
  <2>2. ~Running(e) /\ \A d \in Calls : call[d].at = "refreshing" => call[d].joined # e
    BY <2>1 DEF NamesAreFree
  <2>3. t # e
    BY <1>0, <2>1, <2>2 DEF JoinedBy
  <2> QED
    BY <1>1, <1>4, <2>1, <2>2, <2>3
<1>7. InAir' = IF InAir = None THEN c ELSE InAir
  <2>1. InAir' = t
    BY <1>2, <1>5 DEF InAir
  <2>2. Running(slot) => slot # None
    BY DEF Running
  <2> QED
    BY <1>0, <2>1, <2>2 DEF InAir, JoinedBy
<1>8. \A d \in Calls : CallSeat(d)' = IF d = c THEN "aboard" ELSE CallSeat(d)
  <2> SUFFICES ASSUME NEW d \in Calls
               PROVE  CallSeat(d)' = IF d = c THEN "aboard" ELSE CallSeat(d)
    OBVIOUS
  <2>1. CASE d = c
    <3>1. call'[d].at = "refreshing" /\ call'[d].joined = t
      BY <1>1, <2>1
    <3> QED
      BY <1>5, <2>1, <3>1 DEF CallSeat
  <2>2. CASE d # c
    <3>1. call'[d] = call[d]
      BY <1>1, <2>2
    <3>2. call[d].at = "refreshing" => call[d].joined # c
      BY <1>3
    <3>3. call[d].joined \in Calls \cup {None}
      BY DEF IInv, TypeOK, CallRecord
    <3> QED
      BY <1>4, <2>2, <3>1, <3>2, <3>3 DEF CallSeat
  <2> QED
    BY <2>1, <2>2
<1>9. Seats' = [Seats EXCEPT ![c] = "aboard"] /\ Seats[c] = "home"
  BY <1>8 DEF Seats, CallSeat
<1>10. Flight!Board(c)
  BY <1>7, <1>9 DEF Flight!Board, Seats, CallSeat, InAir
<1> QED
  BY <1>6, <1>10 DEF FlightStep, Flight!Next

LEMMA ProgressMoves ==
  ASSUME IInv, NamesAreFree, NEW t \in Calls, RefreshProgress(t)
  PROVE  NamesAreFree' /\ FlightStep
<1>1. UNCHANGED <<call, slot>> /\ Running(t)
  BY PipelineAssumption DEF RefreshProgress, FetchTokens, UpdateTokens, RefreshDone,
     RefreshFails, RefreshStep, Running
<1>2. \A u \in Calls \cup {None} : u # t => (Running(u)' <=> Running(u))
  BY DEF RefreshProgress, FetchTokens, UpdateTokens, RefreshDone, RefreshFails, RefreshStep,
         Running, IInv, TypeOK
<1>3. t = slot /\ t # None /\ \A c \in Calls : call[c].joined \in Calls \cup {None}
  BY <1>1, PipelineAssumption DEF IInv, SingleFlight, TypeOK, CallRecord
<1>4. NamesAreFree'
  BY <1>1, <1>2 DEF NamesAreFree
<1>5. CASE Running(t)'
  <2>1. \A u \in Calls \cup {None} : Running(u)' <=> Running(u)
    BY <1>1, <1>2, <1>5
  <2>2. \A c \in Calls : CallSeat(c)' = CallSeat(c)
    BY <1>1, <1>3, <2>1 DEF CallSeat
  <2>3. Seats' = Seats
    BY <2>2 DEF Seats
  <2>4. InAir' = InAir
    BY <1>1, <1>3, <2>1 DEF InAir
  <2> QED
    BY <1>4, <2>3, <2>4, SeatsDone
<1>6. CASE ~Running(t)'
  <2>1. InAir' = None /\ InAir # None
    BY <1>1, <1>3, <1>6 DEF InAir
  <2>2. \A c \in Calls : Running(call[c].joined) <=> call[c].joined = t
    BY <1>1, <1>3 DEF IInv, TypeOK, CallRecord, SingleFlight, Running
  <2>3. \A c \in Calls : CallSeat(c)' = IF CallSeat(c) = "aboard" THEN "landed"
                                         ELSE CallSeat(c)
    BY <1>1, <1>2, <1>3, <1>6, <2>2 DEF CallSeat
  <2>4. Seats' = [c \in Calls |-> IF Seats[c] = "aboard" THEN "landed" ELSE Seats[c]]
    BY <2>3 DEF Seats
  <2>5. Flight!Land
    BY <2>1, <2>4 DEF Flight!Land, Seats, CallSeat, InAir
  <2> QED
    BY <1>4, <2>5 DEF FlightStep, Flight!Next
<1> QED
  BY <1>5, <1>6

(* A call that may still refresh has not refreshed. *)
LEMMA AuthMoves ==
  ASSUME IInv, NamesAreFree, NEW c \in Calls, ReplyAuthStatus(c) \/ ReplyAuthDecoded(c)
  PROVE  NamesAreFree' /\ FlightStep
<1>1. call[c] \in CallRecord /\ CallInv(call[c]) /\ call[c].at = "posted"
  BY DEF IInv, TypeOK, ReplyAuthStatus, ReplyAuthDecoded, RefreshDecoded
<1>2. CASE End(c) /\ UNCHANGED <<slot, task>>
  <2>1. IdleCall.at = "idle" /\ call' = [call EXCEPT ![c] = IdleCall]
    BY <1>2 DEF End, IdleCall
  <2> QED
    BY <1>1, <1>2, <2>1, CallMoves
<1>3. CASE ReplyAuthStatus(c) /\ MayRefreshWire(call[c])
  <2> DEFINE r == [call[c] EXCEPT !.layer = "wire"]
  <2>1. call[c].asked = 0 /\ r.asked = 0
    BY <1>1, <1>3 DEF CallInv, CallRecord, MayRefreshWire
  <2>2. AwaitRefresh(c, r)
    BY <1>3 DEF ReplyAuthStatus
  <2> QED
    BY <1>1, <2>1, <2>2, BoardMoves
<1>4. CASE ReplyAuthDecoded(c) /\ call[c].budget /\ ~call[c].strict
  <2> DEFINE r == [call[c] EXCEPT !.layer = "decoded", !.budget = FALSE]
  <2>1. call[c].asked = 0 /\ r.asked = 0
    BY <1>1, <1>4 DEF CallInv, CallRecord
  <2>2. AwaitRefresh(c, r)
    BY <1>4 DEF ReplyAuthDecoded, RefreshDecoded
  <2> QED
    BY <1>1, <2>1, <2>2, BoardMoves
<1> QED
  BY <1>2, <1>3, <1>4 DEF ReplyAuthStatus, ReplyAuthDecoded, RefreshDecoded

LEMMA OtherMoves ==
  ASSUME IInv, NamesAreFree, NEW c \in Calls,
         \/ AcquirePermit(c) \/ Post(c) \/ ReplyFinal(c) \/ ReplyRateLimited(c)
         \/ ReplyServerError(c) \/ BackoffOver(c) \/ RefreshReturns(c) \/ Cancel(c)
  PROVE  NamesAreFree' /\ FlightStep
<1>1. call[c] \in CallRecord /\ call[c].at # "idle" /\ UNCHANGED <<slot, task>>
  BY DEF IInv, TypeOK, AcquirePermit, Post, ReplyFinal, ReplyRateLimited,
         ReplyServerError, BackoffOver, RefreshReturns, Cancel
<1>2. CASE End(c)
  <2>1. IdleCall.at = "idle" /\ call' = [call EXCEPT ![c] = IdleCall]
    BY <1>2 DEF End, IdleCall
  <2> QED
    BY <1>1, <1>2, <2>1, CallMoves
<1>3. CASE AcquirePermit(c)
  <2> DEFINE r == [call[c] EXCEPT !.at = "ready"]
  <2>1. r.at = "ready" /\ r.asked = call[c].asked /\ call' = [call EXCEPT ![c] = r]
    BY <1>1, <1>3 DEF AcquirePermit, CallRecord
  <2> QED
    BY <1>1, <2>1, CallMoves
<1>4. CASE Post(c)
  <2> DEFINE r == [call[c] EXCEPT !.at = "posted", !.tokens = auth, !.posts = @ + 1]
  <2>1. r.at = "posted" /\ r.asked = call[c].asked /\ call' = [call EXCEPT ![c] = r]
    BY <1>1, <1>4 DEF Post, CallRecord, IInv, TypeOK
  <2> QED
    BY <1>1, <2>1, CallMoves
<1>5. CASE ReplyRateLimited(c)
  <2> DEFINE r == [call[c] EXCEPT !.limited = call[c].limited + 1]
             n == [r EXCEPT !.at = "backoff", !.tokens = 0]
  <2>1. n.at = "backoff" /\ n.asked = call[c].asked
    BY <1>1 DEF CallRecord
  <2>2. End(c) \/ call' = [call EXCEPT ![c] = n]
    BY <1>5 DEF ReplyRateLimited, Backoff
  <2> QED
    BY <1>1, <1>2, <2>1, <2>2, CallMoves
<1>6. CASE ReplyServerError(c)
  <2> DEFINE r == [call[c] EXCEPT !.erred = @ + 1]
             n == [r EXCEPT !.at = "backoff", !.tokens = 0]
  <2>1. n.at = "backoff" /\ n.asked = call[c].asked
    BY <1>1 DEF CallRecord
  <2>2. End(c) \/ call' = [call EXCEPT ![c] = n]
    BY <1>6 DEF ReplyServerError, Backoff
  <2> QED
    BY <1>1, <1>2, <2>1, <2>2, CallMoves
<1>7. CASE BackoffOver(c)
  <2> DEFINE n == [call[c] EXCEPT !.at = "ready", !.leg = "first"]
  <2>1. n.at = "ready" /\ n.asked = call[c].asked
    BY <1>1 DEF CallRecord
  <2>2. End(c) \/ call' = [call EXCEPT ![c] = n]
    BY <1>1, <1>7 DEF BackoffOver, IInv, TypeOK
  <2> QED
    BY <1>1, <1>2, <2>1, <2>2, CallMoves
<1>8. CASE RefreshReturns(c)
  <2> DEFINE m == [call[c] EXCEPT !.at = "ready", !.leg = "again", !.budget = FALSE,
                                  !.joined = None, !.tokens = 0]
             n == [call[c] EXCEPT !.at = "queued", !.leg = "first", !.layer = "wire",
                                  !.joined = None, !.tokens = 0, !.limited = 0, !.erred = 0]
  <2>1. m.at = "ready" /\ m.asked = call[c].asked /\ n.at = "queued" /\ n.asked = call[c].asked
    BY <1>1 DEF CallRecord
  <2>2. End(c) \/ call' = [call EXCEPT ![c] = m] \/ call' = [call EXCEPT ![c] = n]
    BY <1>8 DEF RefreshReturns
  <2> QED
    BY <1>1, <1>2, <2>1, <2>2, CallMoves
<1> QED
  BY <1>2, <1>3, <1>4, <1>5, <1>6, <1>7, <1>8 DEF ReplyFinal, Cancel

(* Expiry of the tokens is nothing the flights know of. *)
LEMMA ExpireMoves ==
  ASSUME IInv, NamesAreFree, Expire \/ UNCHANGED vars
  PROVE  NamesAreFree' /\ FlightStep
<1>1. UNCHANGED <<call, slot, task>>
  BY DEF Expire, vars
<1>2. \A u : Running(u)' <=> Running(u)
  BY <1>1 DEF Running
<1>3. NamesAreFree'
  BY <1>1, <1>2 DEF NamesAreFree
<1>4. Seats' = Seats /\ InAir' = InAir
  BY <1>1, <1>2 DEF Seats, CallSeat, InAir
<1> QED
  BY <1>3, <1>4, SeatsDone

(* The refresh that calls share implements SharedFlight, for any number of *)
(* calls.                                                                  *)
THEOREM RefreshImplementsFlight == Spec => RefreshIsShared
<1>1. Init => NamesAreFree /\ Flight!Init
  BY DEF Init, NamesAreFree, Flight!Init, IdleCall, Running
<1>2. IInv /\ NamesAreFree /\ [Next]_vars => NamesAreFree' /\ FlightStep
  <2> SUFFICES ASSUME IInv, NamesAreFree, [Next]_vars PROVE NamesAreFree' /\ FlightStep
    OBVIOUS
  <2>1. CASE Expire \/ UNCHANGED vars
    BY <2>1, ExpireMoves
  <2>2. ASSUME NEW c \in Calls, NEW kind \in {"rpc", "chat"}, NEW strict \in BOOLEAN,
               Start(c, kind, strict)
        PROVE  NamesAreFree' /\ FlightStep
    BY <2>2, StartMoves
  <2>3. ASSUME NEW c \in Calls,
               \/ AcquirePermit(c) \/ Post(c) \/ ReplyFinal(c) \/ ReplyRateLimited(c)
               \/ ReplyServerError(c) \/ BackoffOver(c) \/ RefreshReturns(c) \/ Cancel(c)
        PROVE  NamesAreFree' /\ FlightStep
    BY <2>3, OtherMoves
  <2>4. ASSUME NEW c \in Calls, ReplyAuthStatus(c) \/ ReplyAuthDecoded(c)
        PROVE  NamesAreFree' /\ FlightStep
    BY <2>4, AuthMoves
  <2>5. ASSUME NEW t \in Calls, RefreshProgress(t)
        PROVE  NamesAreFree' /\ FlightStep
    BY <2>5, ProgressMoves
  <2> QED
    BY <2>1, <2>2, <2>3, <2>4, <2>5 DEF Next, Reply
<1> QED
  BY <1>1, <1>2, PipelineInvariant, PTL DEF Spec, RefreshIsShared, Flight!Spec, FlightStep

=============================================================================
