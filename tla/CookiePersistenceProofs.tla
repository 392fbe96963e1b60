----------------------- MODULE CookiePersistenceProofs -----------------------
(***************************************************************************)
(* What CookiePersistence guarantees for any number of clients, cookies,   *)
(* overlapping saves and rotations.                                        *)
(***************************************************************************)
EXTENDS CookiePersistence, TLAPS

(* A save that holds the in-process lock works on the client's present     *)
(* baseline, and one that has read the file works on its present content,  *)
(* unless it was crossed for want of a file lock.                          *)
LockedView ==
  \A c \in Clients : \A s \in Savers :
    /\ save[c][s].at \in {"locked", "read"} => save[c][s].snap = base[c]
    /\ save[c][s].at = "read" /\ ~save[c][s].crossed => save[c][s].seen = disk

DiskWasStored == \A k \in Cookies : disk[k] # 0 => disk[k] \in stored[k]

(* The save of close() is under way only while the client closes.          *)
ClosesOnce == \A c \in Clients : save[c]["close"].at # "idle" => phase[c] = "closing"

IInv == TypeOK /\ LockedView /\ ClosesOnce /\ DiskWasStored /\ BaselineWasStored

-----------------------------------------------------------------------------

(* The merge and the advanced baseline are jars again.                     *)
LEMMA MergeType ==
  ASSUME NEW w, w.copy \in Jar, w.snap \in Jar, w.seen \in Jar
  PROVE  Merged(w) \in Jar /\ Advanced(w) \in Jar
BY DEF Merged, Advanced, Jar

(* What the merge does to one cookie: it keeps it, or replaces the value   *)
(* of the baseline (or nothing) by the value the baseline advances to.     *)
LEMMA MergeCookie ==
  ASSUME NEW w, NEW k \in Cookies
  PROVE  /\ Merged(w)[k] # w.seen[k] /\ w.seen[k] # 0 =>
              w.seen[k] = w.snap[k] /\ Merged(w)[k] = Advanced(w)[k]
         /\ Advanced(w)[k] \in {w.snap[k], Merged(w)[k]}
BY DEF Merged, Advanced, Rejected

(* A merge with nothing to write owes the file only removals of cookies    *)
(* that are not there.                                                     *)
LEMMA MergeIdle ==
  ASSUME NEW w, ~Updated(w), NEW k \in Cookies
  PROVE  Advanced(w)[k] \in {w.snap[k], 0}
BY DEF Updated, Advanced, Rejected

(* No two saves hold the file lock, and no two of a client have read.      *)
LEMMA OneReader ==
  ASSUME TypeOK,
         NEW c \in Clients, NEW s \in Savers, save[c][s].at = "read",
         NEW d \in Clients, NEW t \in Savers, save[d][t].at = "read",
         (save[c][s].held /\ save[d][t].held) \/ c = d
  PROVE  c = d /\ s = t
BY DEF TypeOK

LEMMA InitIInv == Init => IInv
BY PersistenceAssumption
   DEF Init, IInv, TypeOK, LockedView, DiskWasStored, BaselineWasStored,
       ClosesOnce, NoCookies, IdleSave, Jar, Savers


-----------------------------------------------------------------------------
(* Steps on the event loop: neither the disk nor a lock is involved. *)

LEMMA OpenIInv ==
  ASSUME IInv, NEW c \in Clients, Open(c)
  PROVE  IInv'
<1>1. TypeOK'
  BY DEF IInv, Open, TypeOK
<1>2. LockedView'
  BY <1>1 DEF IInv, Open, TypeOK, LockedView
<1>3. ClosesOnce' /\ DiskWasStored' /\ BaselineWasStored'
  BY DEF IInv, Open, TypeOK, ClosesOnce, Savers, DiskWasStored, BaselineWasStored
<1> QED
  BY <1>1, <1>2, <1>3 DEF IInv

LEMMA JarIInv ==
  ASSUME IInv, NEW c \in Clients, NEW k \in Cookies,
         SetCookie(c, k) \/ EvictCookie(c, k)
  PROVE  IInv'
<1>1. minted' \in 0 .. MaxRotations
  BY PersistenceAssumption DEF IInv, TypeOK, SetCookie, EvictCookie
<1>2. PICK v \in 0 .. MaxRotations : jar' = [jar EXCEPT ![c][k] = v]
  <2>1. 0 \in 0 .. MaxRotations /\ minted + 1 \in Int
    BY PersistenceAssumption DEF IInv, TypeOK
  <2> QED
    BY <1>1, <2>1 DEF SetCookie, EvictCookie
<1>3. jar' \in [Clients -> Jar]
  BY <1>2 DEF IInv, TypeOK, Jar
<1>4. TypeOK'
  BY <1>1, <1>3 DEF IInv, TypeOK, SetCookie, EvictCookie
<1>5. LockedView' /\ ClosesOnce' /\ DiskWasStored' /\ BaselineWasStored'
  BY DEF IInv, LockedView, ClosesOnce, DiskWasStored, BaselineWasStored, SetCookie, EvictCookie
<1> QED
  BY <1>4, <1>5 DEF IInv

LEMMA NoCookiesType == NoCookies \in Jar
BY PersistenceAssumption DEF NoCookies, Jar

SaveRecord ==
  [at : {"idle", "queued", "started", "locked", "read"}, copy : Jar, snap : Jar, seen : Jar,
   held : BOOLEAN, crossed : BOOLEAN]

(* What a step of save s of client c does to save: it becomes w, and the   *)
(* other saves are as they were.                                           *)
OnlySave(c, s, w) ==
  /\ save' \in [Clients -> [Savers -> SaveRecord]]
  /\ save'[c][s] = w
  /\ \A d \in Clients : \A t \in Savers :
       d # c \/ t # s => save'[d][t] = save[d][t]

LEMMA SaveUpdate ==
  ASSUME TypeOK, NEW c \in Clients, NEW s \in Savers, NEW w \in SaveRecord,
         save' = [save EXCEPT ![c] = [save[c] EXCEPT ![s] = w]]
  PROVE  OnlySave(c, s, w)
BY DEF TypeOK, OnlySave, SaveRecord

(* A step of a save without the file lock leaves the one that has it.      *)
LEMMA ReaderStays ==
  ASSUME IInv, NEW c \in Clients, NEW s \in Savers, NEW w, OnlySave(c, s, w),
         ~save[c][s].held, fileLock' = fileLock, fileLock # None
  PROVE  \E t \in Savers : save'[fileLock'][t].held
<1>1. PICK t \in Savers : save[fileLock][t].held
  BY DEF IInv, TypeOK
<1>2. fileLock \in Clients
  BY DEF IInv, TypeOK
<1>3. save'[fileLock][t] = save[fileLock][t]
  BY <1>1, <1>2 DEF OnlySave
<1> QED
  BY <1>1, <1>3

LEMMA SaveType ==
  ASSUME IInv, NEW c \in Clients, NEW s \in Savers
  PROVE  /\ save[c][s] \in SaveRecord
         /\ base[c] \in Jar
         /\ disk \in Jar
         /\ save[c][s].held => save[c][s].at = "read"
BY DEF IInv, TypeOK, SaveRecord

LEMMA SaveIInv ==
  ASSUME IInv, NEW c \in Clients, NEW s \in Savers,
         SaveCookies(c, s) \/ WorkerStarts(c, s)
  PROVE  IInv'
<1>1. PICK w \in SaveRecord : OnlySave(c, s, w) /\ w.at \in {"queued", "started"} /\ ~w.held
  <2>1. CASE SaveCookies(c, s)
    <3>1. QueuedSave(c) \in SaveRecord /\ QueuedSave(c).at = "queued" /\ ~QueuedSave(c).held
      BY NoCookiesType DEF IInv, TypeOK, QueuedSave, IdleSave, SaveRecord
    <3>2. save' = [save EXCEPT ![c] = [save[c] EXCEPT ![s] = QueuedSave(c)]]
      BY <2>1 DEF SaveCookies
    <3> QED
      BY <3>1, <3>2, SaveUpdate DEF IInv
  <2>2. CASE WorkerStarts(c, s)
    <3> DEFINE w == [save[c][s] EXCEPT !.at = "started"]
    <3>1. w \in SaveRecord /\ w.at = "started" /\ ~w.held
      BY <2>2, SaveType DEF SaveRecord, WorkerStarts
    <3>2. save' = [save EXCEPT ![c] = [save[c] EXCEPT ![s] = w]]
      BY <2>2 DEF WorkerStarts
    <3> HIDE DEF w
    <3> QED
      BY <3>1, <3>2, SaveUpdate DEF IInv
  <2> QED
    BY <2>1, <2>2
<1>2. save[c][s].at \in {"idle", "queued"} /\ ~save[c][s].held
  BY SaveType DEF SaveCookies, WorkerStarts
<1>3. UNCHANGED <<phase, jar, base, saveLock, fileLock, disk, minted, stored, closedOk>>
  BY DEF SaveCookies, WorkerStarts
<1>4. TypeOK'
  <2>1. \A d \in Clients : \A t \in Savers :
          /\ saveLock'[d] = t <=> save'[d][t].at \in {"locked", "read"}
          /\ save'[d][t].held => save'[d][t].at = "read" /\ fileLock' = d
    <3> SUFFICES ASSUME NEW d \in Clients, NEW t \in Savers
                 PROVE  /\ saveLock'[d] = t <=> save'[d][t].at \in {"locked", "read"}
                        /\ save'[d][t].held => save'[d][t].at = "read" /\ fileLock' = d
      OBVIOUS
    <3>1. /\ saveLock[d] = t <=> save[d][t].at \in {"locked", "read"}
          /\ save[d][t].held => save[d][t].at = "read" /\ fileLock = d
      BY DEF IInv, TypeOK
    <3>2. CASE d = c /\ t = s
      BY <1>1, <1>2, <1>3, <3>1, <3>2 DEF OnlySave
    <3>3. CASE d # c \/ t # s
      BY <1>1, <1>3, <3>1, <3>3 DEF OnlySave
    <3> QED
      BY <3>2, <3>3
  <2>2. fileLock' # None => \E t \in Savers : save'[fileLock'][t].held
    BY <1>1, <1>2, <1>3, ReaderStays
  <2> QED
    BY <1>1, <1>3, <2>1, <2>2 DEF IInv, TypeOK, OnlySave, SaveRecord
<1>5. LockedView'
  BY <1>1, <1>3 DEF IInv, LockedView, OnlySave
<1>6. ClosesOnce'
  <2>1. save[c][s].at = "idle" => s # "close"
    BY DEF SaveCookies, WorkerStarts
  <2> QED
    BY <1>1, <1>2, <1>3, <2>1 DEF IInv, ClosesOnce, OnlySave, Savers
<1>7. DiskWasStored' /\ BaselineWasStored'
  BY <1>3 DEF IInv, DiskWasStored, BaselineWasStored
<1> QED
  BY <1>4, <1>5, <1>6, <1>7 DEF IInv

(* Closing queues the save of close() and revokes queued ones, both of     *)
(* which hold no lock.                                                     *)
LEMMA CloseIInv ==
  ASSUME IInv, NEW c \in Clients, Close(c)
  PROVE  IInv'
<1>1. save[c]["close"].at = "idle"
  BY DEF IInv, ClosesOnce, Close
<1>2. QueuedSave(c) \in SaveRecord /\ IdleSave \in SaveRecord
  BY NoCookiesType DEF IInv, TypeOK, QueuedSave, IdleSave, SaveRecord
<1>3. /\ save' \in [Clients -> [Savers -> SaveRecord]]
      /\ \A d \in Clients : \A t \in Savers :
           \/ save'[d][t] = save[d][t]
           \/ /\ save[d][t].at \in {"idle", "queued"}
              /\ save'[d][t].at \in {"idle", "queued"}
              /\ ~save[d][t].held /\ ~save'[d][t].held
              /\ t = "close" => d = c
  BY <1>1, <1>2, SaveType DEF IInv, TypeOK, Close, SaveRecord, QueuedSave, IdleSave
<1>4. UNCHANGED <<jar, base, saveLock, fileLock, disk, minted, stored, closedOk>>
  BY DEF Close
<1>5. phase' = [phase EXCEPT ![c] = "closing"]
  BY DEF Close
<1>6. TypeOK'
  <2>1. \A d \in Clients : \A t \in Savers :
          /\ saveLock'[d] = t <=> save'[d][t].at \in {"locked", "read"}
          /\ save'[d][t].held => save'[d][t].at = "read" /\ fileLock' = d
    <3> SUFFICES ASSUME NEW d \in Clients, NEW t \in Savers
                 PROVE  /\ saveLock'[d] = t <=> save'[d][t].at \in {"locked", "read"}
                        /\ save'[d][t].held => save'[d][t].at = "read" /\ fileLock' = d
      OBVIOUS
    <3>1. /\ saveLock[d] = t <=> save[d][t].at \in {"locked", "read"}
          /\ save[d][t].held => save[d][t].at = "read" /\ fileLock = d
      BY DEF IInv, TypeOK
    <3> QED
      BY <1>3, <1>4, <3>1
  <2>2. fileLock' # None => \E t \in Savers : save'[fileLock'][t].held
    BY <1>3, <1>4 DEF IInv, TypeOK
  <2> QED
    BY <1>3, <1>4, <1>5, <2>1, <2>2 DEF IInv, TypeOK, SaveRecord
<1>7. LockedView'
  BY <1>3, <1>4 DEF IInv, LockedView
<1>8. ClosesOnce'
  BY <1>3, <1>5 DEF IInv, TypeOK, ClosesOnce, Savers
<1>9. DiskWasStored' /\ BaselineWasStored'
  BY <1>4 DEF IInv, DiskWasStored, BaselineWasStored
<1> QED
  BY <1>6, <1>7, <1>8, <1>9 DEF IInv

-----------------------------------------------------------------------------
(* Steps of a worker thread. *)

LEMMA TakeSaveLockIInv ==
  ASSUME IInv, NEW c \in Clients, NEW s \in Savers, TakeSaveLock(c, s)
  PROVE  IInv'
<1> DEFINE w == [save[c][s] EXCEPT !.at = "locked", !.snap = base[c]]
<1>1. w \in SaveRecord /\ w.at = "locked" /\ w.snap = base[c] /\ ~w.held
  BY SaveType DEF SaveRecord, TakeSaveLock
<1>2. OnlySave(c, s, w)
  <2>1. save' = [save EXCEPT ![c] = [save[c] EXCEPT ![s] = w]]
    BY DEF TakeSaveLock
  <2> HIDE DEF w
  <2> QED
    BY <1>1, <2>1, SaveUpdate DEF IInv
<1> HIDE DEF w
<1>3. /\ save[c][s].at = "started" /\ ~save[c][s].held
      /\ saveLock[c] = None
      /\ saveLock' = [saveLock EXCEPT ![c] = s]
      /\ UNCHANGED <<phase, jar, base, fileLock, disk, minted, stored, closedOk>>
  BY SaveType DEF TakeSaveLock
<1>4. TypeOK'
  <2>1. \A d \in Clients : \A t \in Savers :
          /\ saveLock'[d] = t <=> save'[d][t].at \in {"locked", "read"}
          /\ save'[d][t].held => save'[d][t].at = "read" /\ fileLock' = d
    BY <1>1, <1>2, <1>3, PersistenceAssumption DEF IInv, TypeOK, OnlySave, Savers
  <2>2. fileLock' # None => \E t \in Savers : save'[fileLock'][t].held
    BY <1>2, <1>3, ReaderStays
  <2> QED
    BY <1>2, <1>3, <2>1, <2>2 DEF IInv, TypeOK, OnlySave, SaveRecord
<1>5. LockedView'
  BY <1>1, <1>2, <1>3 DEF IInv, LockedView, OnlySave
<1>6. ClosesOnce'
  BY <1>2, <1>3 DEF IInv, ClosesOnce, OnlySave, Savers
<1>7. DiskWasStored' /\ BaselineWasStored'
  BY <1>3 DEF IInv, DiskWasStored, BaselineWasStored
<1> QED
  BY <1>4, <1>5, <1>6, <1>7 DEF IInv

LEMMA ReadStorageIInv ==
  ASSUME IInv, NEW c \in Clients, NEW s \in Savers, NEW held \in BOOLEAN,
         ReadStorage(c, s, held), held => fileLock = None
  PROVE  IInv'
<1> DEFINE w == [save[c][s] EXCEPT !.at = "read", !.seen = disk, !.held = held]
<1>1. /\ w \in SaveRecord /\ w.at = "read" /\ w.seen = disk /\ w.snap = save[c][s].snap
      /\ w.held = held
  BY SaveType DEF SaveRecord
<1>2. OnlySave(c, s, w)
  <2>1. save' = [save EXCEPT ![c] = [save[c] EXCEPT ![s] = w]]
    BY DEF ReadStorage
  <2> HIDE DEF w
  <2> QED
    BY <1>1, <2>1, SaveUpdate DEF IInv
<1> HIDE DEF w
<1>3. /\ save[c][s].at = "locked" /\ ~save[c][s].held
      /\ fileLock' = IF held THEN c ELSE fileLock
      /\ UNCHANGED <<phase, jar, base, saveLock, disk, minted, stored, closedOk>>
  BY SaveType DEF ReadStorage
<1>4. TypeOK'
  <2>1. \A d \in Clients : \A t \in Savers :
          /\ saveLock'[d] = t <=> save'[d][t].at \in {"locked", "read"}
          /\ save'[d][t].held => save'[d][t].at = "read" /\ fileLock' = d
    BY <1>1, <1>2, <1>3, PersistenceAssumption DEF IInv, TypeOK, OnlySave
  <2>2. fileLock' # None => \E t \in Savers : save'[fileLock'][t].held
    <3>1. CASE held
      BY <1>1, <1>2, <1>3, <3>1 DEF OnlySave
    <3>2. CASE ~held
      BY <1>2, <1>3, <3>2, ReaderStays
    <3> QED
      BY <3>1, <3>2
  <2>3. fileLock' \in Clients \cup {None}
    BY <1>3 DEF IInv, TypeOK
  <2> QED
    BY <1>2, <1>3, <2>1, <2>2, <2>3 DEF IInv, TypeOK, OnlySave, SaveRecord
<1>5. LockedView'
  BY <1>1, <1>2, <1>3 DEF IInv, LockedView, OnlySave
<1>6. ClosesOnce'
  BY <1>2, <1>3 DEF IInv, ClosesOnce, OnlySave, Savers
<1>7. DiskWasStored' /\ BaselineWasStored'
  BY <1>3 DEF IInv, DiskWasStored, BaselineWasStored
<1> QED
  BY <1>4, <1>5, <1>6, <1>7 DEF IInv

LEMMA TakeFileLockIInv ==
  ASSUME IInv, NEW c \in Clients, NEW s \in Savers,
         TakeFileLock(c, s) \/ FileLockUnavailable(c, s)
  PROVE  IInv'
BY ReadStorageIInv DEF TakeFileLock, FileLockUnavailable

(* Record q is r, or r crossed. *)
MayBeCrossed(r, q) ==
  /\ q.at = r.at /\ q.copy = r.copy /\ q.snap = r.snap /\ q.seen = r.seen
  /\ q.held <=> r.held
  /\ r.crossed => q.crossed

(* Save s of client c is over; the others are where they were, some of     *)
(* them crossed by it.                                                     *)
OnlyEnds(c, s) ==
  /\ save' \in [Clients -> [Savers -> SaveRecord]]
  /\ save'[c][s] = IdleSave
  /\ \A d \in Clients : \A t \in Savers : d # c \/ t # s =>
       MayBeCrossed(save[d][t], save'[d][t])

(* Both ways out of a save give its two locks back. *)
LEMMA SaveEndsLocks ==
  ASSUME IInv, NEW c \in Clients, NEW s \in Savers, save[c][s].at = "read",
         OnlyEnds(c, s), SaveEnds(c, s)
  PROVE  /\ phase' \in [Clients -> {"closed", "open", "closing"}]
         /\ saveLock' \in [Clients -> Savers \cup {None}]
         /\ fileLock' \in Clients \cup {None}
         /\ \A d \in Clients : \A t \in Savers :
              /\ saveLock'[d] = t <=> save'[d][t].at \in {"locked", "read"}
              /\ save'[d][t].held => save'[d][t].at = "read" /\ fileLock' = d
         /\ fileLock' # None => \E t \in Savers : save'[fileLock'][t].held
         /\ ClosesOnce'
<1>1. /\ save'[c][s].at = "idle" /\ ~save'[c][s].held
      /\ \A d \in Clients : \A t \in Savers : d # c \/ t # s =>
           save'[d][t].at = save[d][t].at /\ (save'[d][t].held <=> save[d][t].held)
  BY DEF OnlyEnds, MayBeCrossed, IdleSave
<1>2. /\ saveLock' = [saveLock EXCEPT ![c] = None]
      /\ fileLock' = IF save[c][s].held THEN None ELSE fileLock
      /\ phase' = IF s = "close" THEN [phase EXCEPT ![c] = "closed"] ELSE phase
  BY DEF SaveEnds
<1>3. /\ phase' \in [Clients -> {"closed", "open", "closing"}]
      /\ saveLock' \in [Clients -> Savers \cup {None}]
      /\ fileLock' \in Clients \cup {None}
  BY <1>2 DEF IInv, TypeOK
<1>4. ASSUME NEW d \in Clients, NEW t \in Savers
      PROVE  /\ saveLock'[d] = t <=> save'[d][t].at \in {"locked", "read"}
             /\ save'[d][t].held => save'[d][t].at = "read" /\ fileLock' = d
  <2>1. None \notin Savers
    BY PersistenceAssumption DEF Savers
  <2>2. saveLock[c] = s
    BY DEF IInv, TypeOK
  <2>3. CASE d = c /\ t = s
    BY <1>1, <1>2, <2>1, <2>3 DEF IInv, TypeOK
  <2>4. CASE d # c \/ t # s
    <3>1. /\ saveLock[d] = t <=> save[d][t].at \in {"locked", "read"}
          /\ save[d][t].held => save[d][t].at = "read" /\ fileLock = d
      BY DEF IInv, TypeOK
    <3>2. save[c][s].held => ~save[d][t].held
      BY <2>4, <3>1, OneReader DEF IInv
    <3>3. save'[d][t].at = save[d][t].at /\ (save'[d][t].held <=> save[d][t].held)
      BY <1>1, <2>4
    <3>4. saveLock'[d] = t <=> saveLock[d] = t
      BY <1>2, <2>1, <2>2, <2>4 DEF IInv, TypeOK
    <3> QED
      BY <1>2, <3>1, <3>2, <3>3, <3>4
  <2> QED
    BY <2>3, <2>4
<1>5. fileLock' # None => \E t \in Savers : save'[fileLock'][t].held
  <2> SUFFICES ASSUME fileLock' # None PROVE \E t \in Savers : save'[fileLock'][t].held
    OBVIOUS
  <2>1. fileLock' = fileLock /\ fileLock \in Clients /\ ~save[c][s].held
    BY <1>2 DEF IInv, TypeOK
  <2>2. PICK t \in Savers : save[fileLock][t].held
    BY <2>1 DEF IInv, TypeOK
  <2> QED
    BY <1>1, <2>1, <2>2
<1>6. ClosesOnce'
  <2>1. \A d \in Clients : d # c => phase'[d] = phase[d]
    BY <1>2 DEF IInv, TypeOK
  <2> QED
    BY <1>1, <1>2, <2>1 DEF IInv, ClosesOnce, Savers
<1> QED
  BY <1>3, <1>4, <1>5, <1>6

LEMMA SaveFailsEnds ==
  ASSUME IInv, NEW c \in Clients, NEW s \in Savers, SaveFails(c, s)
  PROVE  OnlyEnds(c, s)
<1>1. IdleSave \in SaveRecord
  BY NoCookiesType DEF IdleSave, SaveRecord
<1>2. save' = [save EXCEPT ![c] = [save[c] EXCEPT ![s] = IdleSave]]
  BY DEF SaveFails
<1>3. OnlySave(c, s, IdleSave)
  BY <1>1, <1>2, SaveUpdate DEF IInv
<1> QED
  BY <1>3 DEF OnlyEnds, OnlySave, MayBeCrossed

LEMMA SaveFailsIInv ==
  ASSUME IInv, NEW c \in Clients, NEW s \in Savers, SaveFails(c, s)
  PROVE  IInv'
<1>1. save[c][s].at = "read" /\ SaveEnds(c, s) /\ OnlyEnds(c, s)
  BY SaveFailsEnds DEF SaveFails
<1>2. UNCHANGED <<jar, minted, base, disk, stored, closedOk>>
  BY DEF SaveFails, SaveEnds
<1>3. TypeOK'
  BY <1>1, <1>2, SaveEndsLocks DEF IInv, TypeOK, OnlyEnds, SaveRecord
<1>4. LockedView'
  BY <1>1, <1>2 DEF IInv, LockedView, OnlyEnds, MayBeCrossed, IdleSave
<1>5. ClosesOnce'
  BY <1>1, SaveEndsLocks
<1>6. DiskWasStored' /\ BaselineWasStored'
  BY <1>2 DEF IInv, DiskWasStored, BaselineWasStored
<1> QED
  BY <1>3, <1>4, <1>5, <1>6 DEF IInv

(* Who writes crosses every other save that has read, since one of the two *)
(* has no file lock; where nothing is to be written the file stays.        *)
LEMMA WriteEnds ==
  ASSUME IInv, NEW c \in Clients, NEW s \in Savers, WriteStorage(c, s)
  PROVE  /\ OnlyEnds(c, s)
         /\ disk' # disk => \A d \in Clients : \A t \in Savers :
              (d # c \/ t # s) /\ save[d][t].at = "read" => save'[d][t].crossed
<1> DEFINE w == save[c][s]
<1>1. save' = [d \in Clients |-> [t \in Savers |->
                IF d = c /\ t = s THEN IdleSave ELSE Overtaken(save[d][t], w)]]
  BY DEF WriteStorage
<1>2. IdleSave \in SaveRecord
  BY NoCookiesType DEF IdleSave, SaveRecord
<1>3. ASSUME NEW d \in Clients, NEW t \in Savers
      PROVE  /\ Overtaken(save[d][t], w) \in SaveRecord
             /\ MayBeCrossed(save[d][t], Overtaken(save[d][t], w))
  <2>1. save[d][t] \in SaveRecord
    BY SaveType
  <2> QED
    BY <2>1 DEF Overtaken, MayBeCrossed, SaveRecord
<1>4. OnlyEnds(c, s)
  <2> HIDE DEF w
  <2>1. save' \in [Clients -> [Savers -> SaveRecord]]
    BY <1>1, <1>2, <1>3
  <2> QED
    BY <1>1, <1>3, <2>1 DEF OnlyEnds
<1>5. ASSUME disk' # disk, NEW d \in Clients, NEW t \in Savers, d # c \/ t # s,
             save[d][t].at = "read"
      PROVE  save'[d][t].crossed
  <2>1. Updated(w) /\ w.at = "read"
    BY <1>5 DEF WriteStorage
  <2>2. ~(save[d][t].held /\ w.held)
    BY <1>5, <2>1, OneReader DEF IInv
  <2>3. save'[d][t] = [save[d][t] EXCEPT !.crossed = TRUE]
    BY <1>1, <1>5, <2>1, <2>2 DEF Overtaken
  <2> QED
    BY <2>3, SaveType DEF SaveRecord
<1> QED
  BY <1>4, <1>5

(* A write leaves the disk as the merge made it, cookie by cookie: either  *)
(* untouched, or changed from the client's baseline to its next one.       *)
LEMMA WriteCookie ==
  ASSUME IInv, NEW c \in Clients, NEW s \in Savers, WriteStorage(c, s),
         NEW k \in Cookies
  PROVE  /\ disk'[k] # disk[k] /\ disk[k] # 0 /\ ~save[c][s].crossed =>
              base[c][k] = disk[k] /\ base'[c][k] = disk'[k]
         /\ base'[c][k] \in {base[c][k], disk'[k], 0}
<1> DEFINE w == save[c][s]
<1>1. w.snap = base[c] /\ (~w.crossed => w.seen = disk)
  BY DEF IInv, LockedView, WriteStorage
<1>2. base'[c] = Advanced(w)
  BY DEF IInv, TypeOK, WriteStorage
<1>3. CASE Updated(w)
  <2>1. disk' = Merged(w)
    BY <1>3 DEF WriteStorage
  <2> QED
    BY <1>1, <1>2, <2>1, MergeCookie
<1>4. CASE ~Updated(w)
  <2>1. disk' = disk
    BY <1>4 DEF WriteStorage
  <2> QED
    BY <1>1, <1>2, <1>4, <2>1, MergeIdle
<1> QED
  BY <1>3, <1>4

LEMMA WriteStorageIInv ==
  ASSUME IInv, NEW c \in Clients, NEW s \in Savers, WriteStorage(c, s)
  PROVE  IInv'
<1> DEFINE w == save[c][s]
<1>1. Merged(w) \in Jar /\ Advanced(w) \in Jar
  BY SaveType, MergeType DEF SaveRecord
<1>2. disk' \in Jar /\ base' \in [Clients -> Jar]
  BY <1>1 DEF IInv, TypeOK, WriteStorage
<1>3. stored' \in [Cookies -> SUBSET (0 .. MaxRotations)]
  BY <1>2 DEF IInv, TypeOK, WriteStorage, Jar
<1>4. /\ save[c][s].at = "read" /\ SaveEnds(c, s) /\ OnlyEnds(c, s)
      /\ UNCHANGED <<jar, minted>>
  BY WriteEnds DEF WriteStorage, SaveEnds
<1>5. TypeOK'
  <2>1. closedOk' \in [Clients -> BOOLEAN]
    BY DEF IInv, TypeOK, WriteStorage
  <2> QED
    BY <1>2, <1>3, <1>4, <2>1, SaveEndsLocks DEF IInv, TypeOK, OnlyEnds, SaveRecord
<1>6. LockedView'
  <2> SUFFICES ASSUME NEW d \in Clients, NEW t \in Savers,
                      save'[d][t].at \in {"locked", "read"}
               PROVE  /\ save'[d][t].snap = base'[d]
                      /\ save'[d][t].at = "read" /\ ~save'[d][t].crossed
                           => save'[d][t].seen = disk'
    BY DEF LockedView
  <2>1. saveLock'[d] = t
    BY <1>4, SaveEndsLocks
  <2>2. d # c
    <3>1. saveLock'[c] = None /\ None \notin Savers
      BY PersistenceAssumption DEF IInv, TypeOK, WriteStorage, SaveEnds, Savers
    <3> QED
      BY <2>1, <3>1
  <2>3. /\ save'[d][t].at = save[d][t].at /\ save'[d][t].snap = save[d][t].snap
        /\ save'[d][t].seen = save[d][t].seen
        /\ ~save'[d][t].crossed => ~save[d][t].crossed
    BY <1>4, <2>2 DEF OnlyEnds, MayBeCrossed
  <2>4. base'[d] = base[d]
    BY <2>2 DEF IInv, TypeOK, WriteStorage
  <2>5. save'[d][t].at = "read" /\ ~save'[d][t].crossed => disk' = disk
    BY <2>2, <2>3, WriteEnds
  <2> QED
    BY <2>3, <2>4, <2>5 DEF IInv, LockedView
<1>7. ClosesOnce' /\ DiskWasStored'
  <2>1. DiskWasStored'
    BY DEF DiskWasStored, WriteStorage
  <2> QED
    BY <1>4, <2>1, SaveEndsLocks
<1>8. BaselineWasStored'
  <2> SUFFICES ASSUME NEW d \in Clients, NEW k \in Cookies, base'[d][k] # 0
               PROVE  base'[d][k] \in stored'[k]
    BY DEF BaselineWasStored
  <2>1. stored'[k] = stored[k] \cup {disk'[k]}
    BY DEF WriteStorage
  <2>2. CASE d # c
    BY <2>1, <2>2 DEF IInv, TypeOK, BaselineWasStored, WriteStorage
  <2>3. CASE d = c
    BY <2>1, <2>3, WriteCookie DEF IInv, BaselineWasStored
  <2> QED
    BY <2>2, <2>3
<1> QED
  BY <1>5, <1>6, <1>7, <1>8 DEF IInv

-----------------------------------------------------------------------------

LEMMA StutterIInv == IInv /\ UNCHANGED vars => IInv'
BY DEF IInv, TypeOK, LockedView, ClosesOnce, DiskWasStored, BaselineWasStored, vars

LEMMA NextIInv == IInv /\ [Next]_vars => IInv'
<1> SUFFICES ASSUME IInv, [Next]_vars PROVE IInv'
  OBVIOUS
<1>1. CASE UNCHANGED vars
  BY <1>1, StutterIInv
<1>2. ASSUME NEW c \in Clients, Open(c) \/ Close(c)
      PROVE  IInv'
  BY <1>2, OpenIInv, CloseIInv
<1>3. ASSUME NEW c \in Clients, NEW k \in Cookies, SetCookie(c, k) \/ EvictCookie(c, k)
      PROVE  IInv'
  BY <1>3, JarIInv
<1>4. ASSUME NEW c \in Clients, NEW s \in Savers,
             \/ SaveCookies(c, s) \/ WorkerStarts(c, s) \/ TakeSaveLock(c, s)
             \/ TakeFileLock(c, s) \/ FileLockUnavailable(c, s)
             \/ WriteStorage(c, s) \/ SaveFails(c, s)
      PROVE  IInv'
  BY <1>4, SaveIInv, TakeSaveLockIInv, TakeFileLockIInv, WriteStorageIInv, SaveFailsIInv
<1> QED
  BY <1>1, <1>2, <1>3, <1>4 DEF Next

THEOREM PersistenceInvariant == Spec => []IInv
<1>1. Init => IInv
  BY InitIInv
<1>2. IInv /\ [Next]_vars => IInv'
  BY NextIInv
<1> QED
  BY <1>1, <1>2, PTL DEF Spec

(* Types, and the two locks of a save: it holds each of them exactly from  *)
(* where CookiePersistence.save and save_cookies_to_storage take it until  *)
(* it is over.                                                             *)
THEOREM PersistenceTypeOK == Spec => []TypeOK
<1>1. IInv => TypeOK
  BY DEF IInv
<1> QED
  BY <1>1, PersistenceInvariant, PTL

(* A rotation is never taken as saved when it is not: the baseline that    *)
(* _advance_baseline_after_save leaves holds values that were on disk.     *)
THEOREM BaselineIsHonest == Spec => []BaselineWasStored
<1>1. IInv => BaselineWasStored
  BY DEF IInv
<1> QED
  BY <1>1, PersistenceInvariant, PTL

(* The promise of the snapshot/delta merge to clients that share a file:   *)
(* no step replaces a cookie that another client has written since, unless *)
(* a save without the file lock was crossed by another one.                *)
THEOREM SiblingsAreSafe == Spec => SiblingWritesSurvive
<1> DEFINE Safe ==
      \A k \in Cookies :
        disk'[k] # disk[k] /\ disk[k] # 0 =>
          \/ \E c \in Clients : base[c][k] = disk[k] /\ base'[c][k] = disk'[k]
          \/ CrossedSaveEnds
<1>1. IInv /\ [Next]_vars => [Safe]_vars
  <2> SUFFICES ASSUME IInv, Next, disk' # disk PROVE Safe
    OBVIOUS
  <2>1. PICK c \in Clients, s \in Savers : WriteStorage(c, s)
    BY DEF Next, Open, Close, SetCookie, EvictCookie, SaveCookies, WorkerStarts,
           TakeSaveLock, TakeFileLock, FileLockUnavailable, ReadStorage, SaveFails
  <2>2. save'[c][s].at = "idle"
    BY <2>1, WriteEnds DEF OnlyEnds, IdleSave
  <2> QED
    BY <2>1, <2>2, WriteCookie DEF CrossedSaveEnds
<1> QED
  BY <1>1, PersistenceInvariant, PTL DEF Spec, SiblingWritesSurvive

-----------------------------------------------------------------------------
(* The save of close() *)

(* It carries the client's last jar, which no response can change any more.*)
CarriesLastJar ==
  \A c \in Clients : save[c]["close"].at # "idle" => save[c]["close"].copy = jar[c]

LEMMA CarriesLastJarKept ==
  ASSUME IInv, CarriesLastJar, [Next]_vars
  PROVE  CarriesLastJar'
<1>1. \A c \in Clients, s \in Savers : save[c][s] \in SaveRecord
  BY SaveType
<1>2. "close" \in Savers /\ save \in [Clients -> [Savers -> SaveRecord]] /\ jar \in [Clients -> Jar]
  BY DEF Savers, IInv, TypeOK, SaveRecord
<1>3. ASSUME NEW c \in Clients, Open(c) PROVE CarriesLastJar'
  BY <1>2, <1>3 DEF CarriesLastJar, Open
<1>4. ASSUME NEW c \in Clients, NEW k \in Cookies, SetCookie(c, k) \/ EvictCookie(c, k)
      PROVE  CarriesLastJar'
  <2>1. save[c]["close"].at = "idle"
    BY <1>4 DEF IInv, ClosesOnce, SetCookie, EvictCookie
  <2> QED
    BY <1>2, <1>4, <2>1 DEF CarriesLastJar, SetCookie, EvictCookie
<1>5. ASSUME NEW c \in Clients, Close(c) PROVE CarriesLastJar'
  <2>1. save'[c]["close"] = QueuedSave(c) /\ QueuedSave(c).copy = jar[c]
    BY <1>2, <1>5 DEF Close, QueuedSave, IdleSave
  <2> QED
    BY <1>2, <1>5, <2>1 DEF CarriesLastJar, Close
<1>6. ASSUME NEW c \in Clients, NEW s \in Savers, SaveCookies(c, s) PROVE CarriesLastJar'
  BY <1>2, <1>6 DEF CarriesLastJar, SaveCookies
<1>7. ASSUME NEW c \in Clients, NEW s \in Savers,
             \/ WorkerStarts(c, s) \/ TakeSaveLock(c, s)
             \/ \E held \in BOOLEAN : ReadStorage(c, s, held)
      PROVE  CarriesLastJar'
  <2>1. PICK w \in SaveRecord :
          /\ save' = [save EXCEPT ![c] = [save[c] EXCEPT ![s] = w]]
          /\ save[c][s].at # "idle" /\ w.copy = save[c][s].copy
    <3>1. CASE WorkerStarts(c, s)
      <4> DEFINE w == [save[c][s] EXCEPT !.at = "started"]
      <4>1. save' = [save EXCEPT ![c] = [save[c] EXCEPT ![s] = w]] /\ save[c][s].at = "queued"
        BY <3>1 DEF WorkerStarts
      <4>2. w \in SaveRecord /\ w.copy = save[c][s].copy
        BY <1>1 DEF SaveRecord
      <4> QED
        BY <4>1, <4>2
    <3>2. CASE TakeSaveLock(c, s)
      <4> DEFINE w == [save[c][s] EXCEPT !.at = "locked", !.snap = base[c]]
      <4>1. save' = [save EXCEPT ![c] = [save[c] EXCEPT ![s] = w]] /\ save[c][s].at = "started"
        BY <3>2 DEF TakeSaveLock
      <4>2. w \in SaveRecord /\ w.copy = save[c][s].copy
        BY SaveType DEF SaveRecord
      <4> QED
        BY <4>1, <4>2
    <3>3. ASSUME NEW held \in BOOLEAN, ReadStorage(c, s, held)
          PROVE  \E w \in SaveRecord :
                   /\ save' = [save EXCEPT ![c] = [save[c] EXCEPT ![s] = w]]
                   /\ save[c][s].at # "idle" /\ w.copy = save[c][s].copy
      <4> DEFINE w == [save[c][s] EXCEPT !.at = "read", !.seen = disk, !.held = held]
      <4>1. save' = [save EXCEPT ![c] = [save[c] EXCEPT ![s] = w]] /\ save[c][s].at = "locked"
        BY <3>3 DEF ReadStorage
      <4>2. w \in SaveRecord /\ w.copy = save[c][s].copy
        BY SaveType DEF SaveRecord
      <4> QED
        BY <4>1, <4>2
    <3> QED
      BY <1>7, <3>1, <3>2, <3>3
  <2>2. OnlySave(c, s, w) /\ jar' = jar
    BY <1>7, <2>1, SaveUpdate DEF IInv, WorkerStarts, TakeSaveLock, ReadStorage
  <2> QED
    BY <1>2, <2>1, <2>2 DEF CarriesLastJar, OnlySave
<1>8. ASSUME NEW c \in Clients, NEW s \in Savers, WriteStorage(c, s) \/ SaveFails(c, s)
      PROVE  CarriesLastJar'
  <2>1. OnlyEnds(c, s) /\ jar' = jar
    BY <1>8, WriteEnds, SaveFailsEnds DEF WriteStorage, SaveFails, SaveEnds
  <2>2. /\ save'[c][s].at = "idle"
        /\ \A d \in Clients : \A t \in Savers : d # c \/ t # s =>
             save'[d][t].at = save[d][t].at /\ save'[d][t].copy = save[d][t].copy
    BY <2>1 DEF OnlyEnds, MayBeCrossed, IdleSave
  <2> QED
    BY <1>2, <2>1, <2>2 DEF CarriesLastJar
<1>9. CASE UNCHANGED vars
  BY <1>9 DEF CarriesLastJar, vars
<1> QED
  BY <1>3, <1>4, <1>5, <1>6, <1>7, <1>8, <1>9 DEF Next, TakeFileLock, FileLockUnavailable

(* A merge leaves a cookie as the jar has it, or as a sibling has made it. *)
LEMMA MergedIsFresh ==
  ASSUME NEW w, NEW k \in Cookies
  PROVE  \/ Merged(w)[k] = w.copy[k]
         \/ Merged(w)[k] = w.seen[k] /\ w.seen[k] # w.snap[k]
BY DEF Merged, Rejected

LEMMA UnmergedIsFresh ==
  ASSUME NEW w, ~Updated(w), NEW k \in Cookies
  PROVE  w.seen[k] = w.copy[k] \/ w.seen[k] # w.snap[k]
BY DEF Updated, Rejected

(* The save of close() takes its snapshot of the jar after every response  *)
(* the client has had, so what it writes is the newest: the step in which  *)
(* it is written never puts an older cookie into storage_state.json than   *)
(* the client closes with, unless it went without a file lock and another  *)
(* save crossed it.                                                        *)
THEOREM ClosingSaveIsTheLast == Spec => ClosingSaveIsFresh
<1> DEFINE Fresh(c) ==
      \/ \A k \in Cookies :
           disk'[k] = jar[c][k] \/ (disk'[k] = disk[k] /\ disk[k] # base[c][k])
      \/ CrossedSaveEnds
<1>1. Init => CarriesLastJar
  BY DEF Init, CarriesLastJar, IdleSave, Savers
<1>2. IInv /\ CarriesLastJar /\ [Next]_vars => CarriesLastJar'
  BY CarriesLastJarKept
<1>3. IInv /\ CarriesLastJar /\ [Next]_vars
        => [\A c \in Clients : ~closedOk[c] /\ closedOk'[c] => Fresh(c)]_vars
  <2> SUFFICES ASSUME IInv, CarriesLastJar, Next,
                      NEW c \in Clients, ~closedOk[c], closedOk'[c]
               PROVE  Fresh(c)
    OBVIOUS
  <2>1. WriteStorage(c, "close")
    <3>1. closedOk \in [Clients -> BOOLEAN]
      BY DEF IInv, TypeOK
    <3>2. closedOk' # closedOk /\ \A d \in Clients : closedOk' # [closedOk EXCEPT ![d] = FALSE]
      BY <3>1
    <3>3. PICK d \in Clients, s \in Savers : WriteStorage(d, s)
      BY <3>2 DEF Next, Open, Close, SetCookie, EvictCookie, SaveCookies, WorkerStarts,
                  TakeSaveLock, TakeFileLock, FileLockUnavailable, ReadStorage, SaveFails
    <3> QED
      BY <3>1, <3>3 DEF WriteStorage
  <2> DEFINE w == save[c]["close"]
  <2>2. w.copy = jar[c] /\ w.snap = base[c] /\ (~w.crossed => w.seen = disk)
    BY <2>1 DEF WriteStorage, IInv, LockedView, CarriesLastJar, Savers
  <2>3. disk' = IF Updated(w) THEN Merged(w) ELSE disk
    BY <2>1 DEF WriteStorage
  <2>4. CASE w.crossed
    <3>1. save'[c]["close"].at = "idle"
      BY <2>1, WriteEnds DEF OnlyEnds, IdleSave, Savers
    <3> QED
      BY <2>4, <3>1 DEF CrossedSaveEnds, Savers
  <2>5. CASE ~w.crossed
    BY <2>2, <2>3, <2>5, MergedIsFresh, UnmergedIsFresh
  <2> QED
    BY <2>4, <2>5
<1> QED
  BY <1>1, <1>2, <1>3, PersistenceInvariant, PTL DEF Spec, ClosingSaveIsFresh

=============================================================================
