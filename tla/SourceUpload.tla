------------------------------ MODULE SourceUpload ------------------------------
(***************************************************************************)
(* Uploading files as sources (_source/upload.py add_file, its waits in    *)
(* _source/polling.py) and the upload links of the MCP server              *)
(* (mcp/_fileroutes.py upload_route, mcp/_filelink.py ConsumedJtiStore).   *)
(*                                                                         *)
(* A caller takes an upload permit, opens the file, registers a source,    *)
(* starts a resumable session and hands the file to a finalize task of its *)
(* own, which streams it; the caller waits for it behind asyncio.shield.   *)
(* So a cancelled caller and its task part ways: before the request the    *)
(* task is cancelled and the session dropped in the background; after it   *)
(* the caller waits for the task once more, unless it is cancelled again.  *)
(*                                                                         *)
(* External: Google's sources and sessions; the registration is one step   *)
(* here (IdempotentCreate has its detail), and a poll of the list gets any *)
(* answer.                                                                 *)
(***************************************************************************)
EXTENDS Integers, FiniteSets

CONSTANTS Uploads,        \* calls of add_file, through a link or directly
          Links,          \* upload links (jti)
          MaxConcurrent,  \* max_concurrent_uploads of the client
          MaxInflight,    \* _MAX_CONCURRENT_UPLOADS of the route
          MaxSeen,        \* _MAX_SEEN_JTIS
          NoLink          \* no link

ASSUME UploadAssumption ==
  /\ MaxConcurrent \in Nat \ {0} /\ MaxInflight \in Nat \ {0} /\ MaxSeen \in Nat \ {0}
  /\ NoLink \notin Links

VARIABLES at,        \* where each call is
          plan,      \* what it does after the upload
          link,      \* the link it came by
          fd,        \* its open file
          task,      \* its finalize task
          dropping,  \* background tasks that drop a session
          session,   \* at Google: the resumable session
          active, seen,  \* the store of consumed links
          expired,   \* links past their time to live
          abandoned, \* history: calls cancelled again while their task streams
          evicted    \* history: links the full store has forgotten

calls == <<at, plan, link>>
links == <<active, seen, expired, evicted>>
uploadVars ==
  <<at, plan, link, fd, task, dropping, session, active, seen, expired, abandoned, evicted>>

Plans == {"plain", "wait", "rename", "waitAndRename"}

UploadInit ==
  /\ at = [u \in Uploads |-> "idle"]
  /\ plan = [u \in Uploads |-> "plain"]
  /\ link = [u \in Uploads |-> NoLink]
  /\ fd = [u \in Uploads |-> "none"]
  /\ task = [u \in Uploads |-> "none"]
  /\ dropping = {}
  /\ session = [u \in Uploads |-> "none"]
  /\ active = {} /\ seen = {} /\ expired = {}
  /\ abandoned = {} /\ evicted = {}

Go(u, to) == at' = [at EXCEPT ![u] = to]

(* The permit, and with it the operation token a drain waits for, is held  *)
(* from the semaphore to the end of the upload.                            *)
Permits == {u \in Uploads :
  at[u] \in {"opening", "registering", "starting", "announcing", "streaming", "landing"}}
Ended(u) == at[u] \in {"done", "failed", "cancelled"}
Live(u) == at[u] # "idle" /\ ~Ended(u)
Streaming == {u \in Uploads : task[u] = "posting"}

-----------------------------------------------------------------------------
(* The link store and the route *)

Inflight == {u \in Uploads : Live(u) /\ link[u] # NoLink}

TryBegin_ActiveOnly(l) == l \notin active  \* mutant
TryBegin(l) == l \notin active \cup seen

Commit_NoCap(l) ==  \* mutant
  active' = active \ {l} /\ seen' = (seen \ expired) \cup {l} /\ UNCHANGED evicted

(* A commit sweeps what has expired, and a full store forgets one more.    *)
Commit(l) ==
  /\ active' = active \ {l}
  /\ LET kept == seen \ expired IN
     IF l \in kept \/ Cardinality(kept) < MaxSeen
     THEN seen' = kept \cup {l} /\ UNCHANGED evicted
     ELSE \E old \in kept : /\ seen' = (kept \ {old}) \cup {l}
                            /\ evicted' = evicted \cup {old}

(* How a call ends for its link: burnt by success, given back otherwise.   *)
Settle(u, outcome) ==
  /\ Go(u, outcome)
  /\ UNCHANGED <<plan, link, expired>>
  /\ IF link[u] = NoLink THEN UNCHANGED <<active, seen, evicted>>
     ELSE IF outcome = "done" THEN Commit(link[u])
     ELSE active' = active \ {link[u]} /\ UNCHANGED <<seen, evicted>>

(* upload_route: a link that is valid, unused and idle, while there is room*)
(* (anything else is answered 403 or 429 and leaves no trace); the body    *)
(* then comes in.                                                          *)
RouteBegin(u, l) ==
  /\ at[u] = "idle" /\ l \notin expired /\ TryBegin(l) /\ Cardinality(Inflight) < MaxInflight
  /\ active' = active \cup {l}
  /\ link' = [link EXCEPT ![u] = l]
  /\ Go(u, "spooling")
  /\ UNCHANGED <<plan, fd, task, dropping, session, seen, expired, abandoned, evicted>>

Spooled(u) ==
  /\ at[u] = "spooling"
  /\ \E p \in {"plain", "rename"} : plan' = [plan EXCEPT ![u] = p]
  /\ Go(u, "queued")
  /\ UNCHANGED <<link, links, fd, task, dropping, session, abandoned>>

Expire(l) ==
  /\ expired' = expired \cup {l}
  /\ UNCHANGED <<calls, fd, task, dropping, session, active, seen, abandoned, evicted>>

-----------------------------------------------------------------------------
(* add_file *)

Call(u, p) ==
  /\ at[u] = "idle"
  /\ plan' = [plan EXCEPT ![u] = p]
  /\ Go(u, "queued")
  /\ UNCHANGED <<link, links, fd, task, dropping, session, abandoned>>

Acquire(u) ==
  /\ at[u] = "queued" /\ Cardinality(Permits) < MaxConcurrent
  /\ Go(u, "opening")
  /\ UNCHANGED <<plan, link, links, fd, task, dropping, session, abandoned>>

Opened(u) ==
  /\ at[u] = "opening"
  /\ fd' = [fd EXCEPT ![u] = "open"]
  /\ Go(u, "registering")
  /\ UNCHANGED <<plan, link, links, task, dropping, session, abandoned>>

Registered(u) ==
  /\ at[u] = "registering"
  /\ Go(u, "starting")
  /\ UNCHANGED <<plan, link, links, fd, task, dropping, session, abandoned>>

(* The session is open; the file now belongs to upload_file_streaming,     *)
(* which first reports a progress of zero.                                 *)
Started(u) ==
  /\ at[u] = "starting" /\ session[u] = "open"
  /\ Go(u, "announcing")
  /\ UNCHANGED <<plan, link, links, fd, task, dropping, session, abandoned>>

Announced(u) ==
  /\ at[u] = "announcing"
  /\ task' = [task EXCEPT ![u] = "created"]
  /\ Go(u, "streaming")
  /\ UNCHANGED <<plan, link, links, fd, dropping, session, abandoned>>

GiveUp_NotHandedOff(u, outcome) ==  \* mutant: the first progress report may leak the file
  /\ at[u] \in {"spooling", "queued", "opening", "registering", "starting", "announcing"}
  /\ Settle(u, outcome)
  /\ fd' = [fd EXCEPT ![u] = IF @ = "open" /\ at[u] # "announcing" THEN "closed" ELSE @]
  /\ UNCHANGED <<task, dropping, session, abandoned>>

(* An error or a cancellation before the task exists: the file is closed   *)
(* by whoever holds it.  One that a thread is about to open is nobody's.   *)
GiveUp(u, outcome) ==
  /\ at[u] \in {"spooling", "queued", "opening", "registering", "starting", "announcing"}
  /\ Settle(u, outcome)
  /\ \E f \in IF at[u] = "opening" THEN {"none", "orphan"}
              ELSE IF fd[u] = "open" THEN {"closed"} ELSE {"none"} : fd' = [fd EXCEPT ![u] = f]
  /\ UNCHANGED <<task, dropping, session, abandoned>>

(* The shield returns what the task has come to.                           *)
Streamed(u) ==
  /\ at[u] = "streaming" /\ task[u] \in {"sent", "broken"}
  /\ IF task[u] = "broken" THEN Settle(u, "failed")
     ELSE IF plan[u] = "plain" THEN Settle(u, "done")
     ELSE Go(u, "waiting") /\ UNCHANGED <<plan, link, links>>
  /\ UNCHANGED <<fd, task, dropping, session, abandoned>>

(* Cancelled before the request: the task goes, the session is dropped.    *)
CancelUnstarted(u) ==
  /\ at[u] = "streaming" /\ task[u] \in {"created", "stillborn"}
  /\ task' = [task EXCEPT ![u] = IF @ = "created" THEN "dying" ELSE @]
  /\ dropping' = dropping \cup {u}
  /\ Settle(u, "cancelled")
  /\ UNCHANGED <<fd, session, abandoned>>

(* Mutant: finalize_started is not looked at.                              *)
CancelStarted_Drops(u) ==
  /\ at[u] = "streaming" /\ task[u] \in {"posting", "sent", "broken"}
  /\ dropping' = dropping \cup {u}
  /\ Settle(u, "cancelled")
  /\ UNCHANGED <<fd, task, session, abandoned>>

(* Mutant: the caller does not wait for the task.                          *)
CancelStarted_Leaves(u) ==
  /\ at[u] = "streaming" /\ task[u] \in {"posting", "sent", "broken"}
  /\ Settle(u, "cancelled")
  /\ UNCHANGED <<fd, task, dropping, session, abandoned>>

(* Cancelled after it: the caller waits again.                             *)
CancelStarted(u) ==
  /\ at[u] = "streaming" /\ task[u] \in {"posting", "sent", "broken"}
  /\ Go(u, "landing")
  /\ UNCHANGED <<plan, link, links, fd, task, dropping, session, abandoned>>

Landed(u) ==
  /\ at[u] = "landing" /\ task[u] \in {"sent", "broken"}
  /\ Settle(u, "cancelled")
  /\ UNCHANGED <<fd, task, dropping, session, abandoned>>

CancelAgain(u) ==
  /\ at[u] = "landing"
  /\ abandoned' = IF task[u] = "posting" THEN abandoned \cup {u} ELSE abandoned
  /\ Settle(u, "cancelled")
  /\ UNCHANGED <<fd, task, dropping, session>>

(* wait_until_ready, or wait_until_registered before a mere rename: one    *)
(* answer of the list.  An error status may be a transient one, and a      *)
(* missing source is an error only to the first.                           *)
Waits(u) == plan[u] \in {"wait", "waitAndRename"}

Polled(u) ==
  /\ at[u] = "waiting"
  /\ \E s \in {"processing", "ready", "error", "missing"} :
       \/ /\ s = "ready" \/ (s = "processing" /\ ~Waits(u))
          /\ IF plan[u] = "wait" THEN Settle(u, "done")
             ELSE Go(u, "renaming") /\ UNCHANGED <<plan, link, links>>
       \/ /\ s = "error" \/ (s = "missing" /\ Waits(u))
          /\ Settle(u, "failed")
  /\ UNCHANGED <<fd, task, dropping, session, abandoned>>

(* The deadline, an error of the list, or a cancellation.                  *)
WaitEnds(u, outcome) ==
  /\ at[u] \in {"waiting", "renaming"}
  /\ Settle(u, outcome)
  /\ UNCHANGED <<fd, task, dropping, session, abandoned>>

WaitFails_NoDeadline(u) == at[u] = "waiting" /\ ~Waits(u) /\ WaitEnds(u, "failed")  \* mutant
WaitFails(u) == at[u] = "waiting" /\ WaitEnds(u, "failed")

(* A rename that fails is logged only. *)
Renamed(u) == at[u] = "renaming" /\ WaitEnds(u, "done")

-----------------------------------------------------------------------------
(* The finalize task: its HTTP client opens, then the request starts.  When*)
(* it is over its callback closes the file.                                *)

TaskOver(u, to) ==
  /\ task' = [task EXCEPT ![u] = to]
  /\ fd' = [fd EXCEPT ![u] = "closed"]
  /\ UNCHANGED <<calls, links, dropping, session, abandoned>>

TaskStarts(u) ==
  /\ task[u] = "created"
  /\ task' = [task EXCEPT ![u] = "posting"]
  /\ UNCHANGED <<calls, links, fd, dropping, session, abandoned>>

TaskDies(u) == task[u] = "dying" /\ TaskOver(u, "stillborn")
TaskFailsToStart(u) == task[u] = "created" /\ TaskOver(u, "stillborn")
PostAnswered(u) == task[u] = "posting" /\ session[u] = "finalized" /\ TaskOver(u, "sent")
PostFails(u) == task[u] = "posting" /\ TaskOver(u, "broken")

(* The shield of a task that failed to start.                              *)
NotStarted(u) ==
  /\ at[u] = "streaming" /\ task[u] = "stillborn"
  /\ Settle(u, "failed")
  /\ UNCHANGED <<fd, task, dropping, session, abandoned>>

(* cancel_upload_session is best effort. *)
Dropped(u) ==
  /\ u \in dropping
  /\ dropping' = dropping \ {u}
  /\ \E s \in {session[u], IF session[u] = "open" THEN "dropped" ELSE session[u]} :
       session' = [session EXCEPT ![u] = s]
  /\ UNCHANGED <<calls, links, fd, task, abandoned>>

-----------------------------------------------------------------------------
(* Google *)

OpensSession(u) ==
  /\ at[u] = "starting" /\ session[u] = "none"
  /\ session' = [session EXCEPT ![u] = "open"]
  /\ UNCHANGED <<calls, links, fd, task, dropping, abandoned>>

Finalizes(u) ==
  /\ task[u] = "posting" /\ session[u] = "open"
  /\ session' = [session EXCEPT ![u] = "finalized"]
  /\ UNCHANGED <<calls, links, fd, task, dropping, abandoned>>

-----------------------------------------------------------------------------

CallStep(u) ==
  \/ Acquire(u) \/ Opened(u) \/ Registered(u) \/ Started(u) \/ Announced(u) \/ Streamed(u)
  \/ NotStarted(u) \/ Landed(u) \/ WaitFails(u) \/ Renamed(u)
  \/ (at[u] = "starting" /\ GiveUp(u, "failed"))
TaskStep(u) == TaskStarts(u) \/ TaskDies(u) \/ TaskFailsToStart(u) \/ PostAnswered(u) \/ PostFails(u)

CancelUpload(u) ==
  \/ \E o \in {"failed", "cancelled"} : GiveUp(u, o)
  \/ CancelUnstarted(u) \/ CancelStarted(u) \/ CancelAgain(u)
  \/ WaitEnds(u, "cancelled")

UploadNext ==
  \/ \E u \in Uploads : \/ CallStep(u) \/ TaskStep(u) \/ CancelUpload(u) \/ Spooled(u) \/ Polled(u)
                        \/ Dropped(u) \/ OpensSession(u) \/ Finalizes(u)
                        \/ \E l \in Links : RouteBegin(u, l)
                        \/ \E p \in Plans : Call(u, p)
  \/ \E l \in Links : Expire(l)

(* The event loop runs what is ready; a request has a timeout, a wait a    *)
(* deadline.  The body of a request may never arrive, a source may never   *)
(* be ready, and nobody has to call, to cancel or to drop a session.       *)
UploadSpec ==
  /\ UploadInit /\ [][UploadNext]_uploadVars
  /\ \A u \in Uploads : WF_uploadVars(CallStep(u)) /\ WF_uploadVars(TaskStep(u))

-----------------------------------------------------------------------------
(* Properties *)

(* Every variable has its type, the permits and the route are within their *)
(* limits, and so is the store of links.                                   *)
UploadTypeOK ==
  /\ at \in [Uploads -> {"idle", "spooling", "queued", "opening", "registering", "starting",
       "announcing", "streaming", "landing", "waiting", "renaming", "done", "failed", "cancelled"}]
  /\ plan \in [Uploads -> Plans] /\ link \in [Uploads -> Links \cup {NoLink}]
  /\ fd \in [Uploads -> {"none", "open", "closed", "orphan"}]
  /\ task \in [Uploads -> {"none", "created", "posting", "dying", "stillborn", "sent", "broken"}]
  /\ session \in [Uploads -> {"none", "open", "finalized", "dropped"}]
  /\ dropping \subseteq Uploads /\ abandoned \subseteq Uploads
  /\ active \subseteq Links /\ seen \subseteq Links /\ expired \subseteq Links
  /\ evicted \subseteq Links
  /\ Cardinality(Permits) <= MaxConcurrent /\ Cardinality(Inflight) <= MaxInflight
  /\ Cardinality(seen) <= MaxSeen

(* A file is open for as long as its task reads it, whatever became of the *)
(* caller, and no later than that: it is closed by exactly one of the two. *)
FileFollowsTask ==
  \A u \in Uploads :
    /\ task[u] \in {"created", "dying", "posting"} => fd[u] = "open"
    /\ task[u] \in {"stillborn", "sent", "broken"} \/ (task[u] = "none" /\ Ended(u))
       => fd[u] # "open"

(* The permits bound the uploads in progress: a caller leaves its task     *)
(* behind, outside the permits and outside a drain of the client, only     *)
(* when it is cancelled a second time.                                     *)
StreamsBounded ==
  Streaming \ abandoned \subseteq Permits /\ Cardinality(Streaming \ abandoned) <= MaxConcurrent

(* A session that this client asks Google to drop is never streamed to: a  *)
(* cancelled add_file either has not sent anything or has waited.          *)
DroppedNeverStreamed ==
  \A u \in Uploads : u \in dropping \/ session[u] = "dropped" => task[u] \in {"dying", "stillborn"}

(* A link adds one source: a second upload by it succeeds only if the full *)
(* store has forgotten the first.  While a call uses a link no other does, *)
(* and no task of an earlier one still streams, unless that one was        *)
(* cancelled twice: its link is given back while the task runs on.         *)
LinkUsedOnce ==
  \A u, v \in Uploads :
    u # v /\ link[u] = link[v] /\ link[u] # NoLink =>
      /\ at[u] = "done" /\ at[v] = "done" => link[u] \in evicted
      /\ Live(u) => ~Live(v) /\ (v \in Streaming => v \in abandoned)

(* Every add_file comes to an end, with its permit and its link given back,*)
(* although the source may never be ready.                                 *)
UploadsEnd == \A u \in Uploads : at[u] = "queued" ~> Ended(u)

=============================================================================
