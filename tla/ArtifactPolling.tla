---------------------------- MODULE ArtifactPolling ----------------------------
(***************************************************************************)
(* Waiting for one artifact: ArtifactPollingService.wait_for_completion    *)
(* (_artifact/polling.py) with its PollRegistry (_polling_registry.py).    *)
(* The first caller, the leader, starts a poll task that lives on when he  *)
(* is cancelled; who calls while it is registered follows it.              *)
(*                                                                         *)
(* A poll is named after its leader.  Everything runs on one event loop: a *)
(* step goes from one suspension to the next, and the done-callback of a   *)
(* task runs a step after its end.  Time is two flags of each poll, which  *)
(* a clock raises: its deadline is over, and min_not_found_window (taken   *)
(* to be positive) has passed since the first miss in a row.               *)
(***************************************************************************)
EXTENDS Integers

CONSTANTS Waiters,        \* callers of wait_for_completion, one call at a time
          MaxNotFound,    \* max_not_found
          PollMaxRetries, \* POLL_MAX_RETRIES
          None            \* no poll

ASSUME PollingAssumption ==
  /\ MaxNotFound \in Nat \ {0}
  /\ PollMaxRetries \in Nat
  /\ None \notin Waiters

VARIABLES waiter,   \* where each caller is
          poll,     \* the latest poll that each caller has led
          registry, \* the poll that is registered for the artifact
          closing,  \* close() has run the drain hook
          absent    \* history: answers in a row that did not list the artifact

vars == <<waiter, poll, registry, closing, absent>>

Answers == {"working", "not_found", "completed", "failed"}
Outcomes == {"completed", "failed", "removed", "timeout", "error", "cancelled"}

Away == [at |-> "away", poll |-> None, got |-> "none"]
NoPoll == [at |-> "none", last |-> "none", misses |-> 0, window |-> "none",
           errors |-> 0, expired |-> FALSE, outcome |-> "none"]

Ended(o) == [NoPoll EXCEPT !.at = "ended", !.outcome = o]

Unfinished(t) == poll[t].at \in {"created", "asking", "telling", "sleeping", "backoff"}

-----------------------------------------------------------------------------

Init ==
  /\ waiter = [w \in Waiters |-> Away]
  /\ poll = [w \in Waiters |-> NoPoll]
  /\ registry = None
  /\ closing = FALSE
  /\ absent = [w \in Waiters |-> 0]

Follow(w) ==
  /\ waiter[w].at = "away"
  /\ registry # None
  /\ waiter' = [waiter EXCEPT ![w] = [Away EXCEPT !.at = "waiting", !.poll = registry]]
  /\ UNCHANGED <<poll, registry, closing, absent>>

Lead(w) ==
  /\ waiter[w].at = "away"
  /\ registry = None
  /\ waiter' = [waiter EXCEPT ![w] = [Away EXCEPT !.at = "waiting", !.poll = w]]
  /\ poll' = [poll EXCEPT ![w] = [NoPoll EXCEPT !.at = "created"]]
  /\ registry' = w
  /\ UNCHANGED <<closing, absent>>

(* The caller, leader or follower, is cancelled: the shield keeps it from  *)
(* the shared future.                                                      *)
Leaves(w, newPoll, newRegistry) ==
  /\ waiter[w].at # "away"
  /\ waiter' = [waiter EXCEPT ![w] = Away]
  /\ poll' = newPoll /\ registry' = newRegistry
  /\ UNCHANGED <<closing, absent>>

CancelWaiter_Unregisters(w) ==  \* mutant: the leader takes his poll with him
  Leaves(w, poll, IF waiter[w].poll = w THEN None ELSE registry)

CancelWaiter_Unshielded(w) ==  \* mutant: the shared poll is cancelled with him
  Leaves(w, [t \in Waiters |-> IF t = registry /\ Unfinished(t) THEN Ended("cancelled")
                               ELSE poll[t]], registry)

CancelWaiter(w) == Leaves(w, poll, registry)

Resume(w) ==
  /\ waiter[w].at = "woken"
  /\ waiter' = [waiter EXCEPT ![w] = Away]
  /\ UNCHANGED <<poll, registry, closing, absent>>

-----------------------------------------------------------------------------
(* The poll task *)

Becomes(t, r) ==
  /\ poll' = [poll EXCEPT ![t] = r]
  /\ UNCHANGED <<waiter, registry, closing, absent>>

(* The scope is refused once the client drains. *)
Begin(t) ==
  /\ poll[t].at = "created"
  /\ \/ Becomes(t, [poll[t] EXCEPT !.at = "asking"])
     \/ closing /\ Becomes(t, Ended("error"))

WaitsFor(r, at) == IF r.expired THEN Ended("timeout") ELSE [r EXCEPT !.at = at]

Gone(r) == \/ r.misses >= MaxNotFound /\ r.window = "over"
           \/ r.misses >= 2 * MaxNotFound

Found_KeepsMisses(r) == r  \* mutant
Found(r) == [r EXCEPT !.misses = 0, !.window = "none"]

Missed(r) == [r EXCEPT !.misses = r.misses + 1,
                       !.window = IF r.window = "none" THEN "open" ELSE r.window]

(* What the loop makes of a status. *)
Judged(r) ==
  CASE r.last \in {"completed", "failed", "removed"} -> Ended(r.last)
    [] r.last = "working" -> WaitsFor(Found(r), "sleeping")
    [] r.last = "not_found" ->
         IF Gone(Missed(r)) THEN [Missed(r) EXCEPT !.at = "telling", !.last = "removed"]
         ELSE WaitsFor(Missed(r), "sleeping")

(* A new status is first told to the leader's callback, which may suspend. *)
Answer(t, a) ==
  /\ poll[t].at = "asking"
  /\ LET r == [poll[t] EXCEPT !.last = a, !.errors = 0]
     IN  poll' = [poll EXCEPT ![t] = IF a = poll[t].last THEN Judged(r)
                                     ELSE [r EXCEPT !.at = "telling"]]
  /\ absent' = [absent EXCEPT ![t] = IF a = "not_found" THEN absent[t] + 1 ELSE 0]
  /\ UNCHANGED <<waiter, registry, closing>>

Told(t) ==
  /\ poll[t].at = "telling"
  /\ Becomes(t, Judged(poll[t]))

(* Transient: the network, a timeout of the RPC, a 5xx. *)
AskFails(t) ==
  /\ poll[t].at = "asking"
  /\ IF poll[t].errors >= PollMaxRetries
     THEN Becomes(t, Ended("error"))
     ELSE Becomes(t, WaitsFor([poll[t] EXCEPT !.errors = poll[t].errors + 1], "backoff"))

(* Any other error of the request, or an error of the callback. *)
Raises(t) ==
  /\ poll[t].at \in {"asking", "telling"}
  /\ Becomes(t, Ended("error"))

Slept(t) ==
  /\ poll[t].at = "sleeping"
  /\ Becomes(t, [poll[t] EXCEPT !.at = "asking"])

BackoffOver(t) ==
  /\ poll[t].at = "backoff"
  /\ Becomes(t, WaitsFor(poll[t], "asking"))

Deadline(t) ==
  /\ Unfinished(t) /\ ~poll[t].expired
  /\ Becomes(t, [poll[t] EXCEPT !.expired = TRUE])

WindowOver(t) ==
  /\ Unfinished(t) /\ poll[t].window = "open"
  /\ Becomes(t, [poll[t] EXCEPT !.window = "over"])

(* The done-callback: unregister, then resolve the future.                 *)
Resolve(t, awaited) ==
  /\ poll[t].at = "ended"
  /\ poll' = [poll EXCEPT ![t] = NoPoll]
  /\ absent' = [absent EXCEPT ![t] = 0]
  /\ registry' = None
  /\ waiter' = [w \in Waiters |-> IF w \in awaited
       THEN [waiter[w] EXCEPT !.at = "woken", !.got = poll[t].outcome] ELSE waiter[w]]
  /\ UNCHANGED closing

Awaiting(t) == {w \in Waiters : waiter[w].at = "waiting" /\ waiter[w].poll = t}

ResolvePoll_NotCancelled(t) ==  \* mutant: a cancelled task leaves its future open
  Resolve(t, IF poll[t].outcome = "cancelled" THEN {} ELSE Awaiting(t))

ResolvePoll(t) == Resolve(t, Awaiting(t))

(* The drain hook cancels the registered polls that have not ended. *)
CancelPolls ==
  /\ closing' = TRUE
  /\ poll' = [t \in Waiters |-> IF registry = t /\ Unfinished(t)
                                THEN Ended("cancelled") ELSE poll[t]]
  /\ UNCHANGED <<waiter, registry, absent>>

-----------------------------------------------------------------------------

PollRuns(t) ==
  \/ Begin(t) \/ (\E a \in Answers : Answer(t, a)) \/ Told(t) \/ AskFails(t) \/ Raises(t)
  \/ Slept(t) \/ BackoffOver(t) \/ ResolvePoll(t)

Next ==
  \/ \E w \in Waiters :
       \/ Follow(w) \/ Lead(w) \/ CancelWaiter(w) \/ Resume(w)
       \/ PollRuns(w) \/ Deadline(w) \/ WindowOver(w)
  \/ CancelPolls

Spec == Init /\ [][Next]_vars

(* The loop runs what is ready, requests and sleeps end, and time passes.  *)
Fairness == \A w \in Waiters : WF_vars(PollRuns(w)) /\ WF_vars(Deadline(w)) /\ WF_vars(Resume(w))

FairSpec == Spec /\ Fairness

-----------------------------------------------------------------------------
(* Properties *)

WaiterRecord ==
  [at : {"away", "waiting", "woken"}, poll : Waiters \cup {None}, got : Outcomes \cup {"none"}]

PollRecord ==
  [at : {"none", "created", "asking", "telling", "sleeping", "backoff", "ended"},
   last : Answers \cup {"removed", "none"}, misses : 0 .. 2 * MaxNotFound,
   window : {"none", "open", "over"}, errors : 0 .. PollMaxRetries,
   expired : BOOLEAN, outcome : Outcomes \cup {"none"}]

(* Every variable has its type; the two counters of the loop are bounded.  *)
TypeOK ==
  /\ waiter \in [Waiters -> WaiterRecord]
  /\ poll \in [Waiters -> PollRecord]
  /\ registry \in Waiters \cup {None}
  /\ closing \in BOOLEAN
  /\ absent \in [Waiters -> Nat]

(* A poll that runs is the registered one: there is one for the artifact,  *)
(* whoever of its callers has gone, and the drain hook can find it.        *)
PollsAreRegistered == \A t \in Waiters : Unfinished(t) => registry = t

(* Nobody waits on a future that no poll will resolve any more: the task   *)
(* runs, or has ended and its done-callback is still to come.              *)
NobodyWaitsInVain ==
  \A w \in Waiters : waiter[w].at = "waiting" =>
    LET t == waiter[w].poll
    IN  t # None /\ registry = t /\ (Unfinished(t) \/ poll[t].at = "ended")

(* CancelledError reaches a caller that was not cancelled itself only when *)
(* the client closes: a cancelled leader leaves his followers their poll.  *)
OthersAreNotCancelled ==
  \A w \in Waiters : waiter[w].got = "cancelled" => closing

(* "removed" means that the artifact stayed absent: its last MaxNotFound   *)
(* answers in a row did not list it, however errors came between them.     *)
RemovedStayedAbsent ==
  \A t \in Waiters : poll[t].outcome = "removed" => absent[t] >= MaxNotFound

(* Every waiter returns, also when the leader has left and the artifact    *)
(* never gets ready.                                                       *)
WaitersReturn == \A w \in Waiters : waiter[w].at # "away" ~> waiter[w].at = "away"

(* The poll as SharedFlight sees it: in the air until its done-callback. *)
Flight == INSTANCE SharedFlight WITH
  Callers <- Waiters,
  flight <- registry,
  seat <- [w \in Waiters |-> CASE waiter[w].at = "away" -> "home"
                               [] waiter[w].at = "waiting" -> "aboard"
                               [] waiter[w].at = "woken" -> "landed"]

(* The waiters share the poll as SharedFlight promises: the poll survives  *)
(* the cancellation of its leader, late callers join it until its future   *)
(* is resolved, and the resolution wakes everyone who waits.               *)
PollIsShared == Flight!Spec

=============================================================================
