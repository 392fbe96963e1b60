-------------------------- MODULE CookiePersistence --------------------------
(***************************************************************************)
(* The cookies of clients that share one storage_state.json, in one        *)
(* process or in several: CookiePersistence (_cookie_persistence.py) and   *)
(* the snapshot/delta merge of save_cookies_to_storage (_auth/storage.py). *)
(*                                                                         *)
(* A save copies the jar on the event loop and writes it in a worker       *)
(* thread, under the client's in-process lock and then under the file lock *)
(* of the profile, or without the latter where the system has none to give *)
(* (it fails open).  Threads are scheduled as they please.                 *)
(*                                                                         *)
(* A cookie is its value, 0 when there is none; a rotation makes a value   *)
(* nobody has had before.                                                  *)
(***************************************************************************)
EXTENDS Integers

CONSTANTS Clients,     \* NotebookLMClient objects on the profile
          Cookies,     \* cookie keys (name, domain, path)
          Background,  \* save calls of one client beside the one of close()
          None,        \* nobody
          MaxRotations \* bound: rotations by Google, all clients together

ASSUME PersistenceAssumption ==
  /\ MaxRotations \in Nat
  /\ None \notin Background \cup {"close"}
  /\ None \notin Clients
  /\ "close" \notin Background

Savers == Background \cup {"close"}

VARIABLES phase,    \* of each client: "closed", "open", "closing"
          jar,      \* the live cookie jar of each client
          base,     \* loaded_cookie_snapshot of each client
          save,     \* where each save call is, its copy of the jar and what
                    \* its worker has read
          saveLock, \* save_lock of each client: the save that holds it
          fileLock, \* the lock file: the client that holds it
          disk,     \* the cookies in storage_state.json
          minted,   \* rotations so far
          stored,   \* history: the values each cookie has had on disk
          closedOk  \* history: the save of the last close() was written

vars == <<phase, jar, base, save, saveLock, fileLock, disk, minted, stored, closedOk>>

Jar == [Cookies -> 0 .. MaxRotations]
NoCookies == [k \in Cookies |-> 0]

(* held: it has the file lock.  crossed is history: since it has read the  *)
(* file another save has written it, and one of the two had no file lock.  *)
IdleSave == [at |-> "idle", copy |-> NoCookies, snap |-> NoCookies, seen |-> NoCookies,
             held |-> FALSE, crossed |-> FALSE]

-----------------------------------------------------------------------------

Init ==
  /\ phase = [c \in Clients |-> "closed"]
  /\ jar = [c \in Clients |-> NoCookies]
  /\ base = [c \in Clients |-> NoCookies]
  /\ save = [c \in Clients |-> [s \in Savers |-> IdleSave]]
  /\ saveLock = [c \in Clients |-> None]
  /\ fileLock = None
  /\ disk = NoCookies
  /\ minted = 0
  /\ stored = [k \in Cookies |-> {}]
  /\ closedOk = [c \in Clients |-> FALSE]

(* A client object loads the file: jar and baseline start as its content.  *)
Open(c) ==
  /\ phase[c] = "closed"
  /\ \A s \in Savers : save[c][s].at = "idle"
  /\ phase' = [phase EXCEPT ![c] = "open"]
  /\ jar' = [jar EXCEPT ![c] = disk]
  /\ base' = [base EXCEPT ![c] = disk]
  /\ closedOk' = [closedOk EXCEPT ![c] = FALSE]
  /\ UNCHANGED <<save, saveLock, fileLock, disk, minted, stored>>

(* A response sets or evicts a cookie. *)
SetCookie(c, k) ==
  /\ phase[c] = "open"
  /\ minted < MaxRotations
  /\ minted' = minted + 1
  /\ jar' = [jar EXCEPT ![c][k] = minted + 1]
  /\ UNCHANGED <<phase, base, save, saveLock, fileLock, disk, stored, closedOk>>

EvictCookie(c, k) ==
  /\ phase[c] = "open"
  /\ jar[c][k] # 0
  /\ jar' = [jar EXCEPT ![c][k] = 0]
  /\ UNCHANGED <<phase, base, save, saveLock, fileLock, disk, minted, stored, closedOk>>

QueuedSave(c) == [IdleSave EXCEPT !.at = "queued", !.copy = jar[c]]

(* The keepalive loop or a refresh calls save(). *)
SaveCookies(c, s) ==
  /\ phase[c] = "open"
  /\ s # "close"
  /\ save[c][s].at = "idle"
  /\ save' = [save EXCEPT ![c][s] = QueuedSave(c)]
  /\ UNCHANGED <<phase, jar, base, saveLock, fileLock, disk, minted, stored, closedOk>>

Close_Coalesces(c) ==  \* mutant: a save that waits for its thread is taken for it
  /\ phase[c] = "open"
  /\ phase' = [phase EXCEPT ![c] = "closing"]
  /\ save' = [save EXCEPT ![c] =
       [s \in Savers |->
          IF s = "close"
          THEN IF \E b \in Background : @[b].at = "queued"
               THEN @[CHOOSE b \in Background : @[b].at = "queued"] ELSE QueuedSave(c)
          ELSE IF @[s].at = "queued" THEN IdleSave ELSE @[s]]]
  /\ UNCHANGED <<jar, base, saveLock, fileLock, disk, minted, stored, closedOk>>

(* ClientLifecycle.close: the tasks that save in the background are        *)
(* cancelled, which revokes what no thread has taken up yet and leaves the *)
(* started workers alone; then close() saves the jar itself.               *)
Close(c) ==
  /\ phase[c] = "open"
  /\ phase' = [phase EXCEPT ![c] = "closing"]
  /\ save' = [save EXCEPT ![c] =
       [s \in Savers |-> IF s = "close" THEN QueuedSave(c)
                         ELSE IF @[s].at = "queued" THEN IdleSave ELSE @[s]]]
  /\ UNCHANGED <<jar, base, saveLock, fileLock, disk, minted, stored, closedOk>>

WorkerStarts(c, s) ==
  /\ save[c][s].at = "queued"
  /\ save' = [save EXCEPT ![c][s] = [@ EXCEPT !.at = "started"]]
  /\ UNCHANGED <<phase, jar, base, saveLock, fileLock, disk, minted, stored, closedOk>>

(* with lock: the baseline is read under the in-process lock. *)
TakeSaveLock(c, s) ==
  /\ save[c][s].at = "started"
  /\ saveLock[c] = None
  /\ saveLock' = [saveLock EXCEPT ![c] = s]
  /\ save' = [save EXCEPT ![c][s] = [@ EXCEPT !.at = "locked", !.snap = base[c]]]
  /\ UNCHANGED <<phase, jar, base, fileLock, disk, minted, stored, closedOk>>

(* path.read_text: with the file lock, or without one. *)
ReadStorage(c, s, held) ==
  /\ save[c][s].at = "locked"
  /\ save' = [save EXCEPT ![c][s] = [@ EXCEPT !.at = "read", !.seen = disk, !.held = held]]
  /\ fileLock' = IF held THEN c ELSE fileLock
  /\ UNCHANGED <<phase, jar, base, saveLock, disk, minted, stored, closedOk>>

TakeFileLock_Unlocked(c, s) == ReadStorage(c, s, TRUE)  \* mutant: does not wait

TakeFileLock(c, s) == fileLock = None /\ ReadStorage(c, s, TRUE)

(* No lock on this file system, no descriptor left, a read-only directory: *)
(* the save goes on without.                                               *)
FileLockUnavailable(c, s) == ReadStorage(c, s, FALSE)

Rejected_Never(w, k) == FALSE  \* mutant: every change is written

(* _merge_cookies_with_snapshot, one cookie: what this client changed      *)
(* since the baseline, unless the row on disk is neither the baseline's    *)
(* nor already the wanted one.                                             *)
Rejected(w, k) == w.copy[k] # w.snap[k] /\ w.seen[k] \notin {0, w.snap[k], w.copy[k]}

Merged(w) ==
  [k \in Cookies |-> IF w.copy[k] # w.snap[k] /\ ~Rejected(w, k)
                     THEN w.copy[k] ELSE w.seen[k]]

(* Something to write: otherwise the file is left alone.                   *)
Updated(w) ==
  \E k \in Cookies : /\ w.copy[k] # w.snap[k]
                     /\ ~Rejected(w, k)
                     /\ {w.copy[k], w.seen[k]} # {0}

Advanced_All(w) == w.copy  \* mutant: rejected cookies are taken as saved

(* advance_cookie_snapshot_after_save: a rejected cookie keeps the old     *)
(* baseline, so that its change stays a change.                            *)
Advanced(w) == [k \in Cookies |-> IF Rejected(w, k) THEN w.snap[k] ELSE w.copy[k]]

(* Both locks are released on every way out. *)
SaveEnds(c, s) ==
  /\ saveLock' = [saveLock EXCEPT ![c] = None]
  /\ fileLock' = IF save[c][s].held THEN None ELSE fileLock
  /\ phase' = IF s = "close" THEN [phase EXCEPT ![c] = "closed"] ELSE phase
  /\ UNCHANGED <<jar, minted>>

(* A save of record r that has read the file, when one of record w writes. *)
Overtaken(r, w) ==
  IF r.at = "read" /\ Updated(w) /\ ~(r.held /\ w.held)
  THEN [r EXCEPT !.crossed = TRUE] ELSE r

WriteStorage(c, s) ==
  LET w == save[c][s] IN
  /\ w.at = "read"
  /\ disk' = IF Updated(w) THEN Merged(w) ELSE disk
  /\ base' = [base EXCEPT ![c] = Advanced(w)]
  /\ save' = [d \in Clients |-> [t \in Savers |->
                IF d = c /\ t = s THEN IdleSave ELSE Overtaken(save[d][t], w)]]
  /\ stored' = [k \in Cookies |-> stored[k] \cup {disk'[k]}]
  /\ closedOk' = [closedOk EXCEPT ![c] = @ \/ s = "close"]
  /\ SaveEnds(c, s)

(* The file is missing or unreadable, or the write fails: the baseline     *)
(* stays, so that the next save tries the same changes again.              *)
SaveFails(c, s) ==
  /\ save[c][s].at = "read"
  /\ save' = [save EXCEPT ![c][s] = IdleSave]
  /\ SaveEnds(c, s)
  /\ UNCHANGED <<base, disk, stored, closedOk>>

-----------------------------------------------------------------------------

Next ==
  \E c \in Clients :
    \/ Open(c) \/ Close(c)
    \/ \E k \in Cookies : SetCookie(c, k) \/ EvictCookie(c, k)
    \/ \E s \in Savers :
         \/ SaveCookies(c, s) \/ WorkerStarts(c, s) \/ TakeSaveLock(c, s)
         \/ TakeFileLock(c, s) \/ FileLockUnavailable(c, s)
         \/ WriteStorage(c, s) \/ SaveFails(c, s)

Spec == Init /\ [][Next]_vars

-----------------------------------------------------------------------------
(* Properties *)

(* Every variable has its type, and a save is past the point where it      *)
(* takes a lock exactly while it holds it.                                 *)
TypeOK ==
  /\ phase \in [Clients -> {"closed", "open", "closing"}]
  /\ jar \in [Clients -> Jar]
  /\ base \in [Clients -> Jar]
  /\ save \in [Clients -> [Savers -> [at : {"idle", "queued", "started", "locked", "read"},
                                      copy : Jar, snap : Jar, seen : Jar,
                                      held : BOOLEAN, crossed : BOOLEAN]]]
  /\ saveLock \in [Clients -> Savers \cup {None}]
  /\ fileLock \in Clients \cup {None}
  /\ disk \in Jar
  /\ minted \in 0 .. MaxRotations
  /\ stored \in [Cookies -> SUBSET (0 .. MaxRotations)]
  /\ closedOk \in [Clients -> BOOLEAN]
  /\ \A c \in Clients : \A s \in Savers :
       /\ saveLock[c] = s <=> save[c][s].at \in {"locked", "read"}
       /\ save[c][s].held => save[c][s].at = "read" /\ fileLock = c
  /\ fileLock # None => \E s \in Savers : save[fileLock][s].held

(* The step in which a save ends that another one has crossed.             *)
CrossedSaveEnds ==
  \E c \in Clients, s \in Savers : save[c][s].crossed /\ save'[c][s].at = "idle"

(* A sibling's write survives: a cookie on disk is replaced or removed     *)
(* only by a client that had this very value as its baseline, whatever     *)
(* other clients and other saves of the same client do in between.  Where  *)
(* the file lock is not to be had, that is promised to saves that no other *)
(* one crosses between its read and its write.                             *)
SiblingWritesSurvive ==
  [][\A k \in Cookies :
       disk'[k] # disk[k] /\ disk[k] # 0 =>
         \/ \E c \in Clients : base[c][k] = disk[k] /\ base'[c][k] = disk'[k]
         \/ CrossedSaveEnds]_vars

(* No rotation is forgotten: what a client takes as saved has really been  *)
(* on disk, so a change it still owes the file is never dropped.           *)
BaselineWasStored ==
  \A c \in Clients : \A k \in Cookies : base[c][k] # 0 => base[c][k] \in stored[k]

(* The save of close() is of the freshest jar: when it is written, each    *)
(* cookie in the file is the client's last one, or one that a sibling has  *)
(* written since the client last agreed with the file.  (Saves that are    *)
(* crossed without the file lock are excepted.)                            *)
ClosingSaveIsFresh ==
  [][\A c \in Clients : ~closedOk[c] /\ closedOk'[c] =>
       \/ \A k \in Cookies :
            disk'[k] = jar[c][k] \/ (disk'[k] = disk[k] /\ disk[k] # base[c][k])
       \/ CrossedSaveEnds]_vars

=============================================================================
