---------------------------- MODULE PendingRegistry ----------------------------
(***************************************************************************)
(* The REST server's memory of what it has created (server/_pending.py)    *)
(* and the routes that use it (server/routes/sources.py, artifacts.py):    *)
(* whether a poll that finds nothing answers "pending" or 404.  One        *)
(* notebook.                                                               *)
(*                                                                         *)
(* A route suspends only in its request to Google.  So a poll is a read of *)
(* the list at Google and, later, the rest of the handler in one step; a   *)
(* create or a retry likewise.  The registry does not survive a restart.   *)
(***************************************************************************)
EXTENDS Integers, Sequences, FiniteSets

CONSTANTS Sources, Artifacts, \* the ids Google can give to each
          Polls,              \* concurrent polls
          MaxEntries,         \* _MAX_ENTRIES
          None                \* no id

ASSUME RegistryAssumption ==
  /\ MaxEntries \in Nat \ {0}
  /\ Sources \cap Artifacts = {}
  /\ None \notin Sources \cup Artifacts

Ids == Sources \cup Artifacts

VARIABLES status,   \* at Google: the state of each resource
          creating, \* resources whose answer is on its way to the server
          deleting, \* sources whose deletion is on its way back to the server
          ids,      \* _ids
          order,    \* _order
          poll,     \* where each poll is, what it has seen and answered
          told,     \* history: ids whose creation was answered to a caller
          served,   \* history: ids whose end was answered to a caller
          deleted,  \* history: sources whose deletion was asked for
          lost,     \* history: ids evicted, or lost with an answer or a restart
          raced     \* history: ids of which two calls have overlapped

callers == <<told, served, deleted>>
vars == <<status, creating, deleting, ids, order, poll, told, served, deleted, lost, raced>>

NoPoll == [at |-> "idle", id |-> None, saw |-> "none", reply |-> "none"]

Init ==
  /\ status = [i \in Ids |-> "unborn"]
  /\ creating = {}
  /\ deleting = {}
  /\ ids = {}
  /\ order = <<>>
  /\ poll = [p \in Polls |-> NoPoll]
  /\ told = {}
  /\ served = {}
  /\ deleted = {}
  /\ lost = {}
  /\ raced = {}

(* A call that concerns i begins while another has not returned.           *)
Called(i) ==
  raced' = IF i \in creating \/ \E p \in Polls : poll[p].at = "answered" /\ poll[p].id = i
           THEN raced \cup {i} ELSE raced

-----------------------------------------------------------------------------
(* Google *)

(* At first a new resource is missing in the list. *)
Create(i) ==
  /\ status[i] = "unborn"
  /\ status' = [status EXCEPT ![i] = "lagging"]
  /\ creating' = creating \cup {i}
  /\ UNCHANGED <<deleting, ids, order, poll, callers, lost, raced>>

(* POST /artifacts/{id}/retry keeps the id; it may lag again.              *)
Retry(i) ==
  /\ i \in Artifacts /\ status[i] = "failed"
  /\ Called(i)
  /\ status' = [status EXCEPT ![i] = "lagging"]
  /\ creating' = creating \cup {i}
  /\ served' = served \ {i}
  /\ UNCHANGED <<deleting, ids, order, poll, told, deleted, lost>>

Progress(i) ==
  /\ \/ status[i] = "lagging" /\ status' = [status EXCEPT ![i] = "working"]
     \/ status[i] = "working"
        /\ \E s \in {"ready", "failed"} : status' = [status EXCEPT ![i] = s]
  /\ UNCHANGED <<creating, deleting, ids, order, poll, callers, lost, raced>>

-----------------------------------------------------------------------------
(* PendingRegistry *)

(* Past the cap the head of the queue goes, and its id with it.            *)
Record(i) ==
  LET grown == Append(order, i)
      head == Head(grown) IN
  \/ /\ i \in ids
     /\ lost' = lost \ {i}
     /\ UNCHANGED <<ids, order>>
  \/ /\ i \notin ids /\ Len(grown) <= MaxEntries
     /\ ids' = ids \cup {i} /\ order' = grown /\ lost' = lost \ {i}
  \/ /\ i \notin ids /\ Len(grown) > MaxEntries
     /\ ids' = (ids \cup {i}) \ {head} /\ order' = Tail(grown)
     /\ lost' = (lost \ {i}) \cup ({head} \cap (ids \cup {i}))

(* The queue keeps what is dropped. *)
Drop(i) == ids' = ids \ {i} /\ UNCHANGED order

-----------------------------------------------------------------------------
(* The routes *)

Reply(i, record) ==
  /\ i \in creating
  /\ creating' = creating \ {i}
  /\ IF record THEN Record(i) ELSE UNCHANGED <<ids, order, lost>>
  /\ told' = told \cup {i}
  /\ UNCHANGED <<status, deleting, poll, served, deleted, raced>>

Created_FirstOnly(i) == Reply(i, i \notin told)  \* mutant: a retry is not recorded

Created(i) == Reply(i, TRUE)

(* The call of a creation or a retry raises: nothing is recorded. *)
ReplyLost(i) ==
  /\ i \in creating
  /\ creating' = creating \ {i}
  /\ lost' = lost \cup {i}
  /\ UNCHANGED <<status, deleting, ids, order, poll, callers, raced>>

(* Google answers the poll of an id that a caller can know.  Its list can  *)
(* leave out what it has listed before.                                    *)
Answer(p, i) ==
  /\ poll[p].at = "idle" /\ i \in told
  /\ Called(i)
  /\ \E saw \in {"nothing"} \cup ({status[i]} \ {"lagging", "gone"}) :
       poll' = [poll EXCEPT ![p] =
                  [NoPoll EXCEPT !.at = "answered", !.id = i, !.saw = saw]]
  /\ UNCHANGED <<status, creating, deleting, ids, order, callers, lost>>

(* A source with an error is not terminal for the registry.                *)
Terminal(i) == IF i \in Sources THEN {"ready"} ELSE {"ready", "failed"}

PollReturns(p) ==
  LET i == poll[p].id
      reply == CASE poll[p].saw # "nothing" -> "view"
                 [] poll[p].saw = "nothing" /\ i \in ids -> "pending"
                 [] poll[p].saw = "nothing" /\ i \notin ids -> "404" IN
  /\ poll[p].at = "answered"
  /\ IF poll[p].saw \in Terminal(i)
     THEN Drop(i) /\ served' = served \cup {i}
     ELSE UNCHANGED <<ids, order, served>>
  /\ poll' = [poll EXCEPT ![p] = [NoPoll EXCEPT !.reply = reply]]
  /\ UNCHANGED <<status, creating, deleting, told, deleted, lost, raced>>

(* At Google, a deletion of what it does not list also succeeds, and may   *)
(* have no effect.  Only the source route has something to do afterwards.  *)
Delete(i) ==
  /\ i \in told \ deleting
  /\ \/ status' = [status EXCEPT ![i] = "gone"]
     \/ status[i] = "lagging" /\ UNCHANGED status
  /\ deleting' = deleting \cup ({i} \cap Sources)
  /\ deleted' = deleted \cup ({i} \cap Sources)
  /\ UNCHANGED <<creating, ids, order, poll, told, served, lost, raced>>

(* The call of the deletion returns, or raises. *)
DeleteReturns(i) ==
  /\ i \in deleting
  /\ deleting' = deleting \ {i}
  /\ Drop(i) \/ UNCHANGED <<ids, order>>
  /\ UNCHANGED <<status, creating, poll, callers, lost, raced>>

Restart ==
  /\ ids # {} \/ creating # {}
  /\ ids' = {} /\ order' = <<>> /\ creating' = {} /\ deleting' = {}
  /\ lost' = lost \cup ids \cup creating
  /\ poll' = [p \in Polls |-> NoPoll]
  /\ UNCHANGED <<status, callers, raced>>

-----------------------------------------------------------------------------

Next ==
  \/ \E i \in Ids : Create(i) \/ Retry(i) \/ Progress(i) \/ Created(i) \/ ReplyLost(i)
                      \/ Delete(i) \/ DeleteReturns(i)
  \/ \E p \in Polls : (\E i \in Ids : Answer(p, i)) \/ PollReturns(p)
  \/ Restart

Spec == Init /\ [][Next]_vars

-----------------------------------------------------------------------------
(* Properties *)

(* Every variable has its type; the queue, and with it the registry, is    *)
(* never longer than the cap.                                              *)
TypeOK ==
  /\ status \in [Ids -> {"unborn", "lagging", "working", "ready", "failed", "gone"}]
  /\ creating \subseteq Ids /\ deleting \subseteq Sources /\ ids \subseteq Ids
  /\ told \subseteq Ids /\ served \subseteq Ids /\ deleted \subseteq Sources
  /\ lost \subseteq Ids /\ raced \subseteq Ids
  /\ order \in Seq(Ids) /\ Len(order) <= MaxEntries
  /\ poll \in [Polls -> [at : {"idle", "answered"}, id : Ids \cup {None},
                         saw : {"none", "nothing", "working", "ready", "failed"},
                         reply : {"none", "view", "pending", "404"}]]

(* What is tracked is queued: the cap can evict it, so that no id is kept  *)
(* for ever.                                                               *)
TrackedIsQueued == ids \subseteq {order[n] : n \in 1 .. Len(order)}

(* What this server has created stays "pending" until Google lists it and  *)
(* after that, while the list comes and goes, until a caller was told its  *)
(* end; a retry starts this anew.  A poll answers 404 only for what does   *)
(* not exist any more, a source someone asked to delete, what has ended    *)
(* and was served so, what was evicted or lost with a restart or a failed  *)
(* answer, or what had another call of its own under way at the same time: *)
(* whatever the calls for other ids do.                                    *)
NoSpurious404 ==
  [][\A p \in Polls : poll'[p].reply = "404" /\ poll[p].at = "answered" =>
       LET i == poll[p].id IN
       \/ status[i] = "gone" \/ i \in deleted
       \/ i \in served /\ status[i] \in Terminal(i)
       \/ i \in lost \/ i \in raced]_vars

=============================================================================
