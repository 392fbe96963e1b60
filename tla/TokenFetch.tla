------------------------------ MODULE TokenFetch ------------------------------
(***************************************************************************)
(* Fetching tokens from the stored cookies of a profile                    *)
(* (_auth/refresh.py fetch_tokens_with_domains): the rotation of the       *)
(* cookies before it (_auth/keepalive.py _poke_session), the homepage, and *)
(* when that redirects to the login page NOTEBOOKLM_REFRESH_CMD, a reload, *)
(* one more try, and the save.                                             *)
(*                                                                         *)
(* The callers of one process run on several event loops, each with its    *)
(* own locks; the generation of successful refreshes and the claim of a    *)
(* rotation are shared.  A cookie is the number of its value, in the order *)
(* Google or the command made them.                                        *)
(*                                                                         *)
(* External: Google, which takes every cookie made after the last expiry;  *)
(* the refresh command, which has written the file when it exits with 0;   *)
(* other processes on the file.                                            *)
(***************************************************************************)
EXTENDS Integers, FiniteSets

CONSTANTS Callers,     \* calls of fetch_tokens_with_domains
          Loops, LoopOf,  \* the event loops of the process
          MaxValue,    \* bound: cookie values that are made
          None         \* nobody

ASSUME FetchAssumption ==
  /\ LoopOf \in [Callers -> Loops]
  /\ MaxValue \in Nat
  /\ None \notin Callers

VARIABLES call,        \* each call: where it is, and its locals
          file,        \* storage_state.json
          claimed,     \* a rotation was claimed within the rate limit
          pokeLock, refreshLock,  \* of each loop
          command,     \* the refresh command of each loop
          generation,  \* _REFRESH_GENERATIONS
          newest, dead,   \* at Google: the last value, the last value expired
          overtaken,   \* history: calls since whose load somebody else wrote the file
          early,       \* history: calls that failed while a success was not yet counted
          served,      \* history: calls of whose loop a refresh succeeded since they failed
          overlapped   \* history: commands of two loops have run at once

locks == <<pokeLock, refreshLock>>
google == <<newest, dead>>
storage == <<file, overtaken>>
history == <<early, served, overlapped>>
vars == <<call, locks, google, storage, claimed, command, generation, history>>

(* wire is the cookie in the HTTP client, base the snapshot that the save  *)
(* compares with, seen the generation read after a failed try.             *)
Fresh(at, retrying, cookie) ==
  [at |-> at, retrying |-> retrying, wire |-> cookie, base |-> cookie, seen |-> 0,
   cancelled |-> FALSE]

Init ==
  /\ call = [c \in Callers |-> Fresh("idle", FALSE, 0)]
  /\ file = 0 /\ claimed = FALSE
  /\ pokeLock = [l \in Loops |-> None] /\ refreshLock = [l \in Loops |-> None]
  /\ command = [l \in Loops |-> "none"] /\ generation = 0
  /\ newest = 0 /\ dead = -1
  /\ overtaken = {} /\ early = {} /\ served = {} /\ overlapped = FALSE

At(c, where) == call[c].at = where
Go(c, to) == call' = [call EXCEPT ![c].at = to]
Forget(c) == overtaken' = overtaken \ {c} /\ early' = early \ {c} /\ served' = served \ {c}
Over == Fresh("over", FALSE, 0)  \* with tokens, an error or a cancellation
Unsaved == Fresh("unsaved", FALSE, 0)  \* over, and its save has not been done
Leave(c) == call' = [call EXCEPT ![c] = Over] /\ Forget(c)
Live == {c \in Callers : call[c].at \notin {"idle", "over", "unsaved"}}
Free(lock, c) == [l \in Loops |-> IF lock[l] = c THEN None ELSE lock[l]]

(* A try begins with the cookies of the file. *)
Load(c, retry) ==
  /\ call' = [call EXCEPT ![c] = Fresh("poking", retry, file)]
  /\ Forget(c)

Start(c) ==
  /\ At(c, "idle") /\ Load(c, FALSE)
  /\ UNCHANGED <<locks, google, file, claimed, command, generation, overlapped>>

-----------------------------------------------------------------------------
(* _poke_session *)

Poke_Unclaimed(c) ==  \* mutant: a claim of another loop is not looked at
  /\ At(c, "poking") /\ pokeLock[LoopOf[c]] = None
  /\ Go(c, "rotating")
  /\ claimed' = TRUE
  /\ pokeLock' = [pokeLock EXCEPT ![LoopOf[c]] = c]
  /\ UNCHANGED <<refreshLock, google, storage, command, generation, history>>

(* The file was written within the rate limit: no rotation, and no lock.   *)
(* (A caller may find that here while it waits for the lock, too; it does  *)
(* not count on it, since the step has no fairness.)                       *)
RecentlyRotated(c) ==
  /\ At(c, "poking")
  /\ Go(c, "getting")
  /\ UNCHANGED <<locks, google, storage, claimed, command, generation, history>>

(* Under the lock of the loop the file is looked at again, and whether     *)
(* another process holds the rotation lock; else _try_claim_rotation       *)
(* decides.                                                                *)
Poke(c) ==
  /\ At(c, "poking") /\ pokeLock[LoopOf[c]] = None
  /\ \/ Go(c, "getting") /\ UNCHANGED <<pokeLock, claimed>>
     \/ /\ ~claimed
        /\ claimed' = TRUE
        /\ pokeLock' = [pokeLock EXCEPT ![LoopOf[c]] = c]
        /\ Go(c, "rotating")
  /\ UNCHANGED <<refreshLock, google, storage, command, generation, history>>

(* The POST comes back with a new cookie or not at all, in which case      *)
(* Google may have made one none the less.                                 *)
Rotated(c) ==
  /\ At(c, "rotating")
  /\ \/ Go(c, "getting") /\ UNCHANGED newest
     \/ /\ call[c].wire > dead /\ newest < MaxValue
        /\ newest' = newest + 1
        /\ call' = [call EXCEPT ![c].at = "getting", ![c].wire = newest + 1]
  /\ pokeLock' = Free(pokeLock, c)
  /\ UNCHANGED <<refreshLock, dead, storage, claimed, command, generation, history>>

-----------------------------------------------------------------------------
(* _fetch_tokens_with_refresh *)

Fetched_Rebased(c) ==  \* mutant: the snapshot is taken again after the second try
  /\ At(c, "getting") /\ call[c].wire > dead
  /\ call' = [call EXCEPT ![c].at = "saving", ![c].base = IF call[c].retrying THEN call[c].wire ELSE @]
  /\ UNCHANGED <<locks, google, storage, claimed, command, generation, history>>

Fetched(c) ==
  /\ At(c, "getting") /\ call[c].wire > dead
  /\ Go(c, "saving")
  /\ UNCHANGED <<locks, google, storage, claimed, command, generation, history>>

(* A command has written and its success is not counted. *)
Uncounted == \E l \in Loops : command[l] \in {"written", "ok"}

(* A redirect to the login page: the generation is read, then the lock of  *)
(* the loop is waited for; a second one is final.                          *)
Rejected(c) ==
  /\ At(c, "getting") /\ call[c].wire <= dead
  /\ IF call[c].retrying THEN Leave(c)
     ELSE /\ call' = [call EXCEPT ![c].at = "locking", ![c].seen = generation]
          /\ early' = IF Uncounted THEN early \cup {c} ELSE early
          /\ UNCHANGED <<overtaken, served>>
  /\ UNCHANGED <<locks, google, file, claimed, command, generation, overlapped>>

(* Somebody has refreshed since: only reload. *)
Skip(c) ==
  /\ At(c, "locking") /\ refreshLock[LoopOf[c]] = None /\ generation > call[c].seen
  /\ Load(c, TRUE)
  /\ UNCHANGED <<locks, google, file, claimed, command, generation, overlapped>>

Underway(l) == command[l] \in {"running", "written"}

(* _coalesced_run_refresh_cmd, which would join a command under way.       *)
RunCommand(c) ==
  /\ At(c, "locking") /\ refreshLock[LoopOf[c]] = None /\ generation <= call[c].seen
  /\ refreshLock' = [refreshLock EXCEPT ![LoopOf[c]] = c]
  /\ command' = [command EXCEPT ![LoopOf[c]] = IF Underway(LoopOf[c]) THEN @ ELSE "running"]
  /\ overlapped' = (overlapped \/ \E l \in Loops \ {LoopOf[c]} : command[l] # "none")
  /\ Go(c, "awaiting")
  /\ UNCHANGED <<pokeLock, google, storage, claimed, generation, early, served>>

Counted_Lost(c) == IF generation > call[c].seen THEN generation ELSE call[c].seen  \* mutant
Counted(c) == IF generation > call[c].seen THEN generation ELSE call[c].seen + 1

Settled_Phantom(c) ==  \* mutant: a failed command is counted
  /\ At(c, "awaiting") /\ command[LoopOf[c]] \in {"ok", "error"}
  /\ command' = [command EXCEPT ![LoopOf[c]] = "none"]
  /\ refreshLock' = Free(refreshLock, c)
  /\ generation' = Counted(c)
  /\ IF command[LoopOf[c]] = "ok" /\ ~call[c].cancelled THEN Load(c, TRUE)
     ELSE Leave(c)
  /\ UNCHANGED <<pokeLock, google, overlapped, file, claimed>>

(* The command has ended, and its success is counted. *)
Settled(c) ==
  /\ At(c, "awaiting") /\ command[LoopOf[c]] \in {"ok", "error"}
  /\ command' = [command EXCEPT ![LoopOf[c]] = "none"]
  /\ refreshLock' = Free(refreshLock, c)
  /\ generation' = IF command[LoopOf[c]] = "ok" THEN Counted(c) ELSE generation
  /\ IF command[LoopOf[c]] = "ok" /\ ~call[c].cancelled THEN Load(c, TRUE)
     ELSE Leave(c)
  /\ UNCHANGED <<pokeLock, google, overlapped, file, claimed>>

(* save_cookies_to_storage in a thread: what has changed since the         *)
(* snapshot is written, unless the file has changed as well.               *)
Saved(c) ==
  /\ At(c, "saving")
  /\ call' = [call EXCEPT ![c] = Over]
  /\ IF call[c].wire # call[c].base /\ file = call[c].base
     THEN file' = call[c].wire /\ overtaken' = Live \ {c}
     ELSE overtaken' = overtaken \ {c} /\ UNCHANGED file
  /\ UNCHANGED <<locks, google, claimed, command, generation, history>>

(* The file is missing, unreadable or cannot be written, which the call    *)
(* does not look at; or the caller was cancelled while the save was        *)
(* waiting for a thread.                                                   *)
SaveFails(c) ==
  /\ At(c, "saving")
  /\ call' = [call EXCEPT ![c] = Unsaved]
  /\ overtaken' = overtaken \ {c}
  /\ UNCHANGED <<locks, google, file, claimed, command, generation, history>>

(* A network error, or one that the command is not for.                    *)
Fails(c) ==
  /\ At(c, "getting")
  /\ Leave(c)
  /\ UNCHANGED <<locks, google, file, claimed, command, generation, overlapped>>

Cancellable == {"poking", "rotating", "getting", "locking"}

Cancel_LetsGo(c) ==  \* mutant: the cancelled caller does not wait for the command
  /\ call[c].at \in Cancellable \cup {"awaiting"}
  /\ Leave(c)
  /\ pokeLock' = Free(pokeLock, c) /\ refreshLock' = Free(refreshLock, c)
  /\ UNCHANGED <<google, file, claimed, command, generation, overlapped>>

Cancel_KeepsLock(c) ==  \* mutant: the rotation lock is not released
  /\ call[c].at \in Cancellable
  /\ Leave(c)
  /\ UNCHANGED <<locks, google, file, claimed, command, generation, overlapped>>

(* A cancellation: while the command runs the caller keeps the lock and    *)
(* waits for it, elsewhere it leaves. A save that a thread has begun goes  *)
(* on when its caller is gone: that changes nothing here, and the record   *)
(* of the call stands for the save until it has ended.                     *)
Cancel(c) ==
  /\ IF At(c, "awaiting")
     THEN call' = [call EXCEPT ![c].cancelled = TRUE] /\ UNCHANGED <<overtaken, early, served>>
     ELSE call[c].at \in Cancellable /\ Leave(c)
  /\ pokeLock' = Free(pokeLock, c)
  /\ UNCHANGED <<refreshLock, google, file, claimed, command, generation, overlapped>>

-----------------------------------------------------------------------------
(* The command, Google, time and others *)

CommandWrites(l) ==
  /\ command[l] = "running" /\ newest < MaxValue
  /\ newest' = newest + 1 /\ file' = newest + 1
  /\ overtaken' = Live
  /\ command' = [command EXCEPT ![l] = "written"]
  /\ UNCHANGED <<call, locks, dead, claimed, generation, history>>

(* A failure may come after the file was written; the timeout is one.      *)
CommandEnds(l) ==
  /\ Underway(l)
  /\ \/ command' = [command EXCEPT ![l] = "error"] /\ UNCHANGED served
     \/ /\ command[l] = "written"
        /\ command' = [command EXCEPT ![l] = "ok"]
        /\ served' = served \cup {c \in Callers : LoopOf[c] = l /\ At(c, "locking")}
  /\ UNCHANGED <<call, locks, google, storage, claimed, generation, early, overlapped>>

Expire ==
  /\ dead' = newest
  /\ UNCHANGED <<call, locks, newest, storage, claimed, command, generation, history>>

(* Another process, or a keepalive loop of this one, rotates and saves.    *)
OtherSaves ==
  /\ newest < MaxValue /\ file > dead
  /\ newest' = newest + 1 /\ file' = newest + 1
  /\ overtaken' = Live
  /\ UNCHANGED <<call, locks, dead, claimed, command, generation, history>>

(* The rate limit is longer than a rotation may last.                      *)
WindowEnds ==
  /\ \A c \in Callers : ~At(c, "rotating")
  /\ claimed' = FALSE
  /\ UNCHANGED <<call, locks, google, storage, command, generation, history>>

-----------------------------------------------------------------------------

CallStep(c) ==
  \/ Poke(c) \/ Rotated(c) \/ Fetched(c) \/ Rejected(c) \/ Skip(c) \/ RunCommand(c)
  \/ Settled(c) \/ Saved(c)

Next ==
  \/ \E c \in Callers : Start(c) \/ RecentlyRotated(c) \/ CallStep(c) \/ SaveFails(c) \/ Fails(c) \/ Cancel(c)
  \/ \E l \in Loops : CommandWrites(l) \/ CommandEnds(l)
  \/ Expire \/ OtherSaves \/ WindowEnds

Spec ==
  Init /\ [][Next]_vars
  /\ \A c \in Callers : WF_vars(CallStep(c))
  /\ \A l \in Loops : WF_vars(CommandEnds(l))

-----------------------------------------------------------------------------
(* Properties *)

(* Types; and who holds a lock is where the code holds it.                 *)
TypeOK ==
  /\ call \in [Callers ->
       [at : {"idle", "poking", "rotating", "getting", "locking", "awaiting", "saving", "over",
              "unsaved"},
        retrying : BOOLEAN, wire : 0..MaxValue, base : 0..MaxValue, seen : Nat, cancelled : BOOLEAN]]
  /\ generation \in Nat /\ claimed \in BOOLEAN /\ overlapped \in BOOLEAN
  /\ file \in 0..newest /\ newest \in 0..MaxValue /\ dead \in -1..newest
  /\ pokeLock \in [Loops -> Callers \cup {None}] /\ refreshLock \in [Loops -> Callers \cup {None}]
  /\ \A l \in Loops : /\ pokeLock[l] # None => At(pokeLock[l], "rotating")
                      /\ refreshLock[l] # None => At(refreshLock[l], "awaiting")
  /\ command \in [Loops -> {"none", "running", "written", "ok", "error"}]
  /\ overtaken \subseteq Live /\ early \subseteq Live /\ served \subseteq Live

(* A profile is worked on under its locks.  While the command of a loop    *)
(* runs, and until its success is counted, a call of that loop holds the   *)
(* lock and waits for it, cancelled or not; and one call rotates at a time,*)
(* on whichever loop.                                                      *)
WorkIsExclusive ==
  /\ \A l \in Loops :
       command[l] # "none" =>
         \E c \in Callers : refreshLock[l] = c /\ LoopOf[c] = l /\ At(c, "awaiting")
  /\ \A c, d \in Callers : At(c, "rotating") /\ At(d, "rotating") => c = d

(* The calls that fail together are served by one command: none runs       *)
(* another after a success on its loop, unless the commands of two loops   *)
(* have overlapped (the success of the second is then not counted).        *)
HerdRunsOnce == \A c \in served : At(c, "awaiting") => overlapped

(* The second try has newer cookies than those the first was rejected      *)
(* with, unless a command had already written, and not yet counted, when   *)
(* it was.                                                                 *)
RetryHasNewCookies ==
  [][\A c \in Callers :
       call'[c].retrying /\ ~call[c].retrying => call'[c].wire > call[c].wire \/ c \in early]_vars

(* A cookie that was rotated on the way to the tokens is in the file when  *)
(* the call ends, unless somebody else has written there since the cookies *)
(* were loaded, or the save itself was not done (an error of the file      *)
(* system, which the caller is not told of, or a cancellation before a     *)
(* thread took it up).                                                     *)
RotationIsSaved ==
  [][\A c \in Callers :
       At(c, "saving") /\ ~(At(c, "saving"))' =>
         file' = call[c].wire \/ c \in overtaken \/ At(c, "unsaved")']_vars

(* Every call comes to an end, although a command may hang until its       *)
(* timeout and callers are cancelled anywhere: in the end none is left.    *)
CallsEnd == <>[](Live = {})

=============================================================================
