--------------------------- MODULE TokenFetchProofs ---------------------------
(***************************************************************************)
(* What the token fetch guarantees for any number of callers, event loops  *)
(* and cookie values: its locks, one command for a herd, a second try with *)
(* new cookies, no rotated cookie lost.                                    *)
(***************************************************************************)
EXTENDS TokenFetch, TLAPS

Places == {"idle", "poking", "rotating", "getting", "locking", "awaiting", "saving", "over",
           "unsaved"}

CallRecord ==
  [at : Places, retrying : BOOLEAN, wire : 0..MaxValue, base : 0..MaxValue, seen : Nat,
   cancelled : BOOLEAN]

(* A call that has been rejected and waits for a refresh.                  *)
Wants(c) == call[c].at \in {"locking", "awaiting"}

CallsTyped == call \in [Callers -> CallRecord]

SharedTyped ==
  /\ generation \in Nat /\ claimed \in BOOLEAN /\ overlapped \in BOOLEAN
  /\ file \in 0..newest /\ newest \in 0..MaxValue /\ dead \in -1..newest
  /\ pokeLock \in [Loops -> Callers \cup {None}] /\ refreshLock \in [Loops -> Callers \cup {None}]
  /\ command \in [Loops -> {"none", "running", "written", "ok", "error"}]

(* The histories are about calls that are under way, or wait.              *)
HistoryOK ==
  /\ overtaken \subseteq Live
  /\ early \subseteq Callers /\ served \subseteq Callers
  /\ \A c \in early \cup served : Wants(c)

(* A lock is held by the one call of its loop that is in the section it    *)
(* protects, a rotation under a claim, a command under the lock of its     *)
(* loop. It is the claim, shared by the loops, that keeps a second         *)
(* rotation away.                                                          *)
LocksHeld ==
  /\ \A l \in Loops : pokeLock[l] # None => At(pokeLock[l], "rotating") /\ LoopOf[pokeLock[l]] = l
  /\ \A c \in Callers : At(c, "rotating") => pokeLock[LoopOf[c]] = c /\ claimed
  /\ \A l \in Loops :
       refreshLock[l] # None => At(refreshLock[l], "awaiting") /\ LoopOf[refreshLock[l]] = l
  /\ \A c \in Callers :
       At(c, "awaiting") => refreshLock[LoopOf[c]] = c /\ command[LoopOf[c]] # "none"
  /\ \A l \in Loops : command[l] # "none" => refreshLock[l] # None
  /\ \A c, d \in Callers : At(c, "rotating") /\ At(d, "rotating") => c = d

(* A call never has an older cookie than it loaded, and what it loaded is  *)
(* in the file unless somebody has written there since.                    *)
ValuesOK ==
  /\ \A c \in Callers : call[c].base <= call[c].wire /\ call[c].wire <= newest
  /\ \A c \in Live \ overtaken : file = call[c].base

(* Once a refresh is counted that a rejected call has not seen, or has     *)
(* been written and not counted, the file is newer than what the call was  *)
(* rejected with; except for the calls that were rejected in between.      *)
Renewed ==
  \A c \in Callers \ early :
    Wants(c) /\ (generation > call[c].seen \/ Uncounted) => file > call[c].wire

(* The generation is not behind what a call has seen. Two calls wait for a *)
(* command only if commands have overlapped, as has a command during which *)
(* the generation moved; and a success on the loop of a waiting call is    *)
(* either still to be counted or will be noticed.                          *)
HerdOK ==
  /\ \A c \in Callers : call[c].seen <= generation
  /\ \A c, d \in Callers : At(c, "awaiting") /\ At(d, "awaiting") /\ c # d => overlapped
  /\ \A c \in Callers : At(c, "awaiting") /\ generation > call[c].seen => overlapped
  /\ \A c \in served :
       At(c, "locking") => command[LoopOf[c]] = "ok" \/ generation > call[c].seen \/ overlapped

IInv ==
  /\ CallsTyped /\ SharedTyped /\ HistoryOK /\ LocksHeld /\ ValuesOK
  /\ Renewed /\ HerdOK /\ HerdRunsOnce

(* Only c changes its record.                                              *)
Others(c) == \A d \in Callers : d # c => call'[d] = call[d]

(* The locals of a call have their types.                                  *)
LEMMA Fields ==
  ASSUME CallsTyped
  PROVE  \A d \in Callers :
           /\ call[d].at \in Places /\ call[d].retrying \in BOOLEAN
           /\ call[d].wire \in Int /\ call[d].base \in Int /\ call[d].seen \in Nat
BY FetchAssumption DEF CallsTyped, CallRecord

(* What the steps of a call do to its record: it moves on, it begins a     *)
(* try, it is over. The others keep theirs.                                *)
LEMMA GoEffect ==
  ASSUME CallsTyped, NEW c \in Callers, NEW to \in Places, Go(c, to)
  PROVE  /\ CallsTyped' /\ Others(c)
         /\ call'[c].at = to /\ call'[c].retrying = call[c].retrying
         /\ call'[c].wire = call[c].wire /\ call'[c].base = call[c].base
         /\ call'[c].seen = call[c].seen
BY DEF Go, Others, CallsTyped, CallRecord

LEMMA FreshTyped ==
  ASSUME NEW at \in Places, NEW retrying \in BOOLEAN, NEW cookie \in 0..MaxValue
  PROVE  /\ Fresh(at, retrying, cookie) \in CallRecord
         /\ Fresh(at, retrying, cookie).at = at /\ Fresh(at, retrying, cookie).retrying = retrying
         /\ Fresh(at, retrying, cookie).wire = cookie /\ Fresh(at, retrying, cookie).base = cookie
         /\ Fresh(at, retrying, cookie).seen = 0
BY DEF Fresh, CallRecord

LEMMA LoadEffect ==
  ASSUME CallsTyped, SharedTyped, NEW c \in Callers, NEW retry \in BOOLEAN, Load(c, retry)
  PROVE  /\ CallsTyped' /\ Others(c)
         /\ call'[c].at = "poking" /\ call'[c].retrying = retry
         /\ call'[c].wire = file /\ call'[c].base = file /\ call'[c].seen = 0
<1>1. file \in 0..MaxValue /\ "poking" \in Places
  BY FetchAssumption DEF SharedTyped, Places
<1>2. call' = [call EXCEPT ![c] = Fresh("poking", retry, file)]
  BY DEF Load
<1> QED
  BY <1>1, <1>2, FreshTyped DEF CallsTyped, Others

LEMMA UnsavedEffect ==
  ASSUME CallsTyped, NEW c \in Callers, call' = [call EXCEPT ![c] = Unsaved]
  PROVE  /\ CallsTyped' /\ Others(c)
         /\ call'[c].at = "unsaved" /\ call'[c].retrying = FALSE
         /\ call'[c].wire = 0 /\ call'[c].base = 0 /\ call'[c].seen = 0
<1>1. 0 \in 0..MaxValue /\ "unsaved" \in Places
  BY FetchAssumption DEF Places
<1>2. /\ Unsaved \in CallRecord /\ Unsaved.at = "unsaved" /\ Unsaved.retrying = FALSE
      /\ Unsaved.wire = 0 /\ Unsaved.base = 0 /\ Unsaved.seen = 0
  BY <1>1 DEF Unsaved, Fresh, CallRecord
<1> QED
  BY <1>2 DEF CallsTyped, Others

LEMMA OverEffect ==
  ASSUME CallsTyped, NEW c \in Callers, call' = [call EXCEPT ![c] = Over]
  PROVE  /\ CallsTyped' /\ Others(c)
         /\ call'[c].at = "over" /\ call'[c].retrying = FALSE
         /\ call'[c].wire = 0 /\ call'[c].base = 0 /\ call'[c].seen = 0
<1>1. 0 \in 0..MaxValue /\ "over" \in Places
  BY FetchAssumption DEF Places
<1>2. /\ Over \in CallRecord /\ Over.at = "over" /\ Over.retrying = FALSE
      /\ Over.wire = 0 /\ Over.base = 0 /\ Over.seen = 0
  BY <1>1 DEF Over, Fresh, CallRecord
<1> QED
  BY <1>2 DEF CallsTyped, Others

(* A caller that leaves a lock takes nobody else out of one.               *)
LEMMA FreeEffect ==
  ASSUME NEW lock \in [Loops -> Callers \cup {None}], NEW c \in Callers
  PROVE  /\ Free(lock, c) \in [Loops -> Callers \cup {None}]
         /\ \A l \in Loops : Free(lock, c)[l] = IF lock[l] = c THEN None ELSE lock[l]
BY DEF Free

-----------------------------------------------------------------------------
(* Each action keeps the invariant. The rotation and the homepage:         *)
LEMMA StartKeeps ==
  ASSUME IInv, NEW c \in Callers, Start(c)
  PROVE  IInv'
<1>1. /\ CallsTyped' /\ Others(c)
      /\ call'[c].at = "poking" /\ call'[c].retrying = FALSE
      /\ call'[c].wire = file /\ call'[c].base = file /\ call'[c].seen = 0
      /\ overtaken' = overtaken \ {c} /\ early' = early \ {c} /\ served' = served \ {c}
  BY LoadEffect DEF IInv, Load, Forget, Start
<1>2. /\ call[c].at = "idle"
      /\ UNCHANGED <<pokeLock, refreshLock, newest, dead, file, claimed, command,
                     generation, overlapped>>
  BY DEF Start, At, locks, google
<1>3. SharedTyped'
  BY <1>2 DEF IInv, SharedTyped
<1>4. HistoryOK'
  BY <1>1 DEF IInv, HistoryOK, Live, Wants, Others
<1>5. LocksHeld'
  BY <1>1, <1>2 DEF IInv, SharedTyped, LocksHeld, Others, At
<1>6. ValuesOK'
  BY <1>1, <1>2 DEF IInv, SharedTyped, ValuesOK, Live, Others
<1>7. Renewed'
  BY <1>1, <1>2 DEF IInv, Renewed, Wants, Uncounted, Others
<1>8. HerdOK'
  BY <1>1, <1>2 DEF IInv, SharedTyped, HerdOK, HistoryOK, Others, At
<1>9. HerdRunsOnce'
  BY <1>1, <1>2 DEF IInv, HerdRunsOnce, HistoryOK, Others, At
<1> QED
  BY <1>1, <1>3, <1>4, <1>5, <1>6, <1>7, <1>8, <1>9 DEF IInv

LEMMA PokeSkips ==
  ASSUME IInv, NEW c \in Callers, RecentlyRotated(c) \/ Poke(c), Go(c, "getting"),
         UNCHANGED <<pokeLock, claimed>>
  PROVE  IInv'
<1>1. /\ CallsTyped' /\ Others(c)
      /\ call'[c].at = "getting" /\ call'[c].retrying = call[c].retrying
      /\ call'[c].wire = call[c].wire /\ call'[c].base = call[c].base
      /\ call'[c].seen = call[c].seen
  BY GoEffect DEF IInv, Places
<1>2. /\ call[c].at = "poking"
      /\ UNCHANGED <<refreshLock, newest, dead, file, overtaken, command, generation, early,
                     served, overlapped>>
  BY DEF RecentlyRotated, Poke, At, locks, google, storage, history
<1>3. SharedTyped'
  BY <1>2 DEF IInv, SharedTyped
<1>4. HistoryOK'
  BY <1>1, <1>2 DEF IInv, HistoryOK, Live, Wants, Others
<1>5. LocksHeld'
  BY <1>1, <1>2 DEF IInv, SharedTyped, LocksHeld, Others, At
<1>6. ValuesOK'
  BY <1>1, <1>2 DEF IInv, ValuesOK, Live, Others
<1>7. Renewed'
  BY <1>1, <1>2 DEF IInv, Renewed, Wants, Uncounted, Others
<1>8. HerdOK'
  BY <1>1, <1>2 DEF IInv, HerdOK, HistoryOK, Others, At
<1>9. HerdRunsOnce'
  BY <1>1, <1>2 DEF IInv, HerdRunsOnce, HistoryOK, Others, At
<1> QED
  BY <1>1, <1>3, <1>4, <1>5, <1>6, <1>7, <1>8, <1>9 DEF IInv

LEMMA PokeRotates ==
  ASSUME IInv, NEW c \in Callers, Poke(c), Go(c, "rotating"), ~claimed, claimed',
         pokeLock' = [pokeLock EXCEPT ![LoopOf[c]] = c]
  PROVE  IInv'
<1>1. /\ CallsTyped' /\ Others(c)
      /\ call'[c].at = "rotating" /\ call'[c].retrying = call[c].retrying
      /\ call'[c].wire = call[c].wire /\ call'[c].base = call[c].base
      /\ call'[c].seen = call[c].seen
  BY GoEffect DEF IInv, Places
<1>2. /\ call[c].at = "poking" /\ pokeLock[LoopOf[c]] = None
      /\ UNCHANGED <<refreshLock, newest, dead, file, overtaken, command, generation, early,
                     served, overlapped>>
  BY DEF Poke, At, google, storage, history
<1>3. SharedTyped'
  BY <1>2 DEF IInv, SharedTyped
<1>4. HistoryOK'
  BY <1>1, <1>2 DEF IInv, HistoryOK, Live, Wants, Others
<1>5. LocksHeld'
  BY <1>1, <1>2, FetchAssumption DEF IInv, SharedTyped, LocksHeld, Others, At
<1>6. ValuesOK'
  BY <1>1, <1>2 DEF IInv, ValuesOK, Live, Others
<1>7. Renewed'
  BY <1>1, <1>2 DEF IInv, Renewed, Wants, Uncounted, Others
<1>8. HerdOK'
  BY <1>1, <1>2 DEF IInv, HerdOK, HistoryOK, Others, At
<1>9. HerdRunsOnce'
  BY <1>1, <1>2 DEF IInv, HerdRunsOnce, HistoryOK, Others, At
<1> QED
  BY <1>1, <1>3, <1>4, <1>5, <1>6, <1>7, <1>8, <1>9 DEF IInv

LEMMA RotatedKeeps ==
  ASSUME IInv, NEW c \in Callers, Rotated(c)
  PROVE  IInv'
<1>1. /\ pokeLock' \in [Loops -> Callers \cup {None}]
      /\ \A l \in Loops : pokeLock'[l] = IF pokeLock[l] = c THEN None ELSE pokeLock[l]
  BY FreeEffect DEF Rotated, IInv, SharedTyped
<1>2. /\ CallsTyped' /\ Others(c)
      /\ call'[c].at = "getting" /\ call'[c].retrying = call[c].retrying
      /\ call'[c].wire \in {call[c].wire, newest'} /\ call'[c].base = call[c].base
      /\ call'[c].seen = call[c].seen
      /\ newest' \in newest..MaxValue
  BY DEF Rotated, Go, Others, IInv, CallsTyped, SharedTyped, CallRecord, Places
<1>3. /\ call[c].at = "rotating"
      /\ UNCHANGED <<refreshLock, dead, file, overtaken, claimed, command, generation,
                     early, served, overlapped>>
  BY DEF Rotated, At, storage, history
<1>4. SharedTyped'
  BY <1>1, <1>2, <1>3 DEF IInv, SharedTyped
<1>5. HistoryOK'
  BY <1>2, <1>3 DEF IInv, HistoryOK, Live, Wants, Others
<1>6. LocksHeld'
  BY <1>1, <1>2, <1>3 DEF IInv, SharedTyped, LocksHeld, Others, At
<1>7. ValuesOK'
  BY <1>2, <1>3, Fields DEF IInv, SharedTyped, ValuesOK, Live, Others
<1>8. Renewed'
  BY <1>2, <1>3 DEF IInv, Renewed, Wants, Uncounted, Others
<1>9. HerdOK'
  BY <1>2, <1>3 DEF IInv, HerdOK, HistoryOK, Others, At
<1>10. HerdRunsOnce'
  BY <1>2, <1>3 DEF IInv, HerdRunsOnce, HistoryOK, Others, At
<1> QED
  BY <1>2, <1>4, <1>5, <1>6, <1>7, <1>8, <1>9, <1>10 DEF IInv

LEMMA FetchedKeeps ==
  ASSUME IInv, NEW c \in Callers, Fetched(c)
  PROVE  IInv'
<1>1. /\ CallsTyped' /\ Others(c)
      /\ call'[c].at = "saving" /\ call'[c].retrying = call[c].retrying
      /\ call'[c].wire = call[c].wire /\ call'[c].base = call[c].base
      /\ call'[c].seen = call[c].seen
  BY GoEffect DEF IInv, Fetched, Places
<1>2. /\ call[c].at = "getting"
      /\ UNCHANGED <<pokeLock, refreshLock, newest, dead, file, overtaken, claimed, command,
                     generation, early, served, overlapped>>
  BY DEF Fetched, At, locks, google, storage, history
<1>3. SharedTyped'
  BY <1>2 DEF IInv, SharedTyped
<1>4. HistoryOK'
  BY <1>1, <1>2 DEF IInv, HistoryOK, Live, Wants, Others
<1>5. LocksHeld'
  BY <1>1, <1>2 DEF IInv, SharedTyped, LocksHeld, Others, At
<1>6. ValuesOK'
  BY <1>1, <1>2, Fields, FetchAssumption DEF IInv, SharedTyped, ValuesOK, Live, HistoryOK,
                                             Others, At
<1>7. Renewed'
  BY <1>1, <1>2 DEF IInv, Renewed, Wants, Uncounted, Others
<1>8. HerdOK'
  BY <1>1, <1>2 DEF IInv, HerdOK, HistoryOK, Others, At
<1>9. HerdRunsOnce'
  BY <1>1, <1>2 DEF IInv, HerdRunsOnce, HistoryOK, Others, At
<1> QED
  BY <1>1, <1>3, <1>4, <1>5, <1>6, <1>7, <1>8, <1>9 DEF IInv

(* The first rejection:                                                    *)
LEMMA RejectedLocks ==
  ASSUME IInv, NEW c \in Callers, Rejected(c), ~call[c].retrying
  PROVE  IInv'
<1>1. call' = [call EXCEPT ![c].at = "locking", ![c].seen = generation]
  BY DEF Rejected
<1>2. /\ CallsTyped' /\ Others(c)
      /\ call'[c].at = "locking" /\ call'[c].retrying = call[c].retrying
      /\ call'[c].wire = call[c].wire /\ call'[c].base = call[c].base
      /\ call'[c].seen = generation
  BY <1>1 DEF Others, IInv, CallsTyped, SharedTyped, CallRecord, Places
<1>3. /\ call[c].at = "getting"
      /\ UNCHANGED <<pokeLock, refreshLock, newest, dead, file, claimed, command,
                     generation, overlapped, overtaken, served>>
      /\ early' = IF Uncounted THEN early \cup {c} ELSE early
  BY DEF Rejected, At, locks, google
<1>4. c \notin served
  BY <1>3 DEF IInv, HistoryOK, Wants
<1>5. SharedTyped'
  BY <1>3 DEF IInv, SharedTyped
<1>6. HistoryOK'
  BY <1>2, <1>3 DEF IInv, HistoryOK, Live, Wants, Others
<1>7. LocksHeld'
  BY <1>2, <1>3 DEF IInv, SharedTyped, LocksHeld, Others, At
<1>8. ValuesOK'
  BY <1>2, <1>3 DEF IInv, ValuesOK, Live, Others
<1>9. Renewed'
  BY <1>2, <1>3 DEF IInv, SharedTyped, Renewed, Wants, Uncounted, Others
<1>10. HerdOK'
  BY <1>2, <1>3, <1>4 DEF IInv, SharedTyped, HerdOK, HistoryOK, Others, At
<1>11. HerdRunsOnce'
  BY <1>2, <1>3 DEF IInv, HerdRunsOnce, HistoryOK, Others, At
<1> QED
  BY <1>2, <1>5, <1>6, <1>7, <1>8, <1>9, <1>10, <1>11 DEF IInv

LEMMA LeaveKeeps ==
  ASSUME IInv, NEW c \in Callers, call[c].at \in Cancellable, Leave(c),
         pokeLock' = Free(pokeLock, c),
         UNCHANGED <<refreshLock, google, file, claimed, command, generation, overlapped>>
  PROVE  IInv'
<1>1. /\ CallsTyped' /\ Others(c)
      /\ call'[c].at = "over" /\ call'[c].retrying = FALSE
      /\ call'[c].wire = 0 /\ call'[c].base = 0 /\ call'[c].seen = 0
  BY OverEffect DEF IInv, Leave
<1>2. overtaken' = overtaken \ {c} /\ early' = early \ {c} /\ served' = served \ {c}
  BY DEF Leave, Forget
<1>3. /\ pokeLock' \in [Loops -> Callers \cup {None}]
      /\ \A l \in Loops : pokeLock'[l] = IF pokeLock[l] = c THEN None ELSE pokeLock[l]
  BY FreeEffect DEF IInv, SharedTyped
<1>4. /\ call[c].at \in {"poking", "rotating", "getting", "locking"}
      /\ UNCHANGED <<refreshLock, newest, dead, file, claimed, command, generation, overlapped>>
  BY DEF Cancellable, google
<1>5. SharedTyped'
  BY <1>3, <1>4 DEF IInv, SharedTyped
<1>6. HistoryOK'
  BY <1>1, <1>2 DEF IInv, HistoryOK, Live, Wants, Others
<1>7. LocksHeld'
  BY <1>1, <1>3, <1>4 DEF IInv, SharedTyped, LocksHeld, Others, At
<1>8. ValuesOK'
  BY <1>1, <1>2, <1>4 DEF IInv, SharedTyped, ValuesOK, Live, Others
<1>9. Renewed'
  BY <1>1, <1>2 DEF IInv, Renewed, Wants, Uncounted, Others
<1>10. HerdOK'
  BY <1>1, <1>2 DEF IInv, SharedTyped, HerdOK, HistoryOK, Others, At
<1>11. HerdRunsOnce'
  BY <1>1, <1>2 DEF IInv, HerdRunsOnce, HistoryOK, Others, At
<1> QED
  BY <1>1, <1>5, <1>6, <1>7, <1>8, <1>9, <1>10, <1>11 DEF IInv

(* The refresh, and the save:                                              *)
LEMMA SkipKeeps ==
  ASSUME IInv, NEW c \in Callers, Skip(c)
  PROVE  IInv'
<1>1. /\ CallsTyped' /\ Others(c)
      /\ call'[c].at = "poking" /\ call'[c].retrying = TRUE
      /\ call'[c].wire = file /\ call'[c].base = file /\ call'[c].seen = 0
      /\ overtaken' = overtaken \ {c} /\ early' = early \ {c} /\ served' = served \ {c}
  BY LoadEffect DEF IInv, Load, Forget, Skip
<1>2. /\ call[c].at = "locking"
      /\ UNCHANGED <<pokeLock, refreshLock, newest, dead, file, claimed, command,
                     generation, overlapped>>
  BY DEF Skip, At, locks, google
<1>3. SharedTyped'
  BY <1>2 DEF IInv, SharedTyped
<1>4. HistoryOK'
  BY <1>1 DEF IInv, HistoryOK, Live, Wants, Others
<1>5. LocksHeld'
  BY <1>1, <1>2, Fields, FetchAssumption DEF IInv, SharedTyped, LocksHeld, Others, At
<1>6. ValuesOK'
  BY <1>1, <1>2 DEF IInv, SharedTyped, ValuesOK, Live, Others
<1>7. Renewed'
  BY <1>1, <1>2 DEF IInv, Renewed, Wants, Uncounted, Others
<1>8. HerdOK'
  BY <1>1, <1>2 DEF IInv, SharedTyped, HerdOK, HistoryOK, Others, At
<1>9. HerdRunsOnce'
  BY <1>1, <1>2 DEF IInv, HerdRunsOnce, HistoryOK, Others, At
<1> QED
  BY <1>1, <1>3, <1>4, <1>5, <1>6, <1>7, <1>8, <1>9 DEF IInv

LEMMA RunCommandKeeps ==
  ASSUME IInv, NEW c \in Callers, RunCommand(c)
  PROVE  IInv'
<1>1. Go(c, "awaiting") /\ "awaiting" \in Places
  BY DEF RunCommand, Places
<1>2. /\ CallsTyped' /\ Others(c)
      /\ call'[c].at = "awaiting" /\ call'[c].retrying = call[c].retrying
      /\ call'[c].wire = call[c].wire /\ call'[c].base = call[c].base
      /\ call'[c].seen = call[c].seen
  BY <1>1, GoEffect DEF IInv
<1>3. command[LoopOf[c]] = "none"
  BY FetchAssumption DEF RunCommand, IInv, LocksHeld
<1>4. command' = [command EXCEPT ![LoopOf[c]] = "running"]
  BY <1>3 DEF RunCommand, Underway
<1>5. /\ call[c].at = "locking" /\ refreshLock[LoopOf[c]] = None /\ generation <= call[c].seen
      /\ UNCHANGED <<pokeLock, newest, dead, file, overtaken, claimed, generation, early,
                     served>>
      /\ refreshLock' = [refreshLock EXCEPT ![LoopOf[c]] = c]
      /\ overlapped' = (overlapped \/ \E l \in Loops \ {LoopOf[c]} : command[l] # "none")
  BY DEF RunCommand, At, google, storage
<1>6. \A d \in Callers :
        At(d, "awaiting") => LoopOf[d] \in Loops \ {LoopOf[c]} /\ command[LoopOf[d]] # "none"
  BY <1>5, FetchAssumption DEF IInv, LocksHeld
<1>7. \A d \in Callers : At(d, "awaiting") => overlapped'
  BY <1>5, <1>6
<1>8. SharedTyped'
  BY <1>4, <1>5 DEF IInv, SharedTyped
<1>9. HistoryOK'
  BY <1>2, <1>5 DEF IInv, HistoryOK, Live, Wants, Others
<1>10. LocksHeld'
  BY <1>2, <1>4, <1>5, FetchAssumption DEF IInv, SharedTyped, LocksHeld, Others, At
<1>11. ValuesOK'
  BY <1>2, <1>5 DEF IInv, ValuesOK, Live, Others
<1>12. Renewed'
  BY <1>2, <1>4, <1>5 DEF IInv, Renewed, Wants, Uncounted, Others
<1>13. HerdOK'
  BY <1>2, <1>3, <1>4, <1>5, <1>7, Fields DEF IInv, SharedTyped, HerdOK, HistoryOK, Others, At
<1>14. HerdRunsOnce'
  BY <1>2, <1>3, <1>5, Fields DEF IInv, SharedTyped, HerdOK, HerdRunsOnce, HistoryOK, Others, At
<1> QED
  BY <1>2, <1>8, <1>9, <1>10, <1>11, <1>12, <1>13, <1>14 DEF IInv

LEMMA SavedKeeps ==
  ASSUME IInv, NEW c \in Callers, Saved(c)
  PROVE  IInv'
<1>1. /\ CallsTyped' /\ Others(c)
      /\ call'[c].at = "over" /\ call'[c].retrying = FALSE
      /\ call'[c].wire = 0 /\ call'[c].base = 0 /\ call'[c].seen = 0
  BY OverEffect DEF IInv, Saved
<1>2. /\ call[c].at = "saving"
      /\ UNCHANGED <<pokeLock, refreshLock, newest, dead, claimed, command, generation,
                     early, served, overlapped>>
  BY DEF Saved, At, locks, google, history
<1>3. \/ file = call[c].base /\ file' = call[c].wire /\ overtaken' = Live \ {c}
      \/ file' = file /\ overtaken' = overtaken \ {c}
  BY DEF Saved
<1>4. file' \in 0..newest
  BY Fields, <1>3 DEF IInv, SharedTyped, ValuesOK
<1>5. SharedTyped'
  BY <1>2, <1>4 DEF IInv, SharedTyped
<1>6. HistoryOK'
  BY <1>1, <1>2, <1>3 DEF IInv, HistoryOK, Live, Wants, Others
<1>7. LocksHeld'
  BY <1>1, <1>2 DEF IInv, SharedTyped, LocksHeld, Others, At
<1>8. ValuesOK'
  BY <1>1, <1>2, <1>3 DEF IInv, SharedTyped, ValuesOK, Live, Others
<1>9. Renewed'
  BY <1>1, <1>2, <1>3, Fields DEF IInv, ValuesOK, Renewed, Wants, Uncounted, Others
<1>10. HerdOK'
  BY <1>1, <1>2, <1>3, <1>4, Fields, FetchAssumption DEF IInv, SharedTyped, HerdOK, LocksHeld,
     Wants, HistoryOK, Others, At
<1>11. HerdRunsOnce'
  BY <1>1, <1>2 DEF IInv, HerdRunsOnce, HistoryOK, Others, At
<1> QED
  BY <1>1, <1>5, <1>6, <1>7, <1>8, <1>9, <1>10, <1>11 DEF IInv

LEMMA SaveFailsKeeps ==
  ASSUME IInv, NEW c \in Callers, SaveFails(c)
  PROVE  IInv'
<1>1. /\ CallsTyped' /\ Others(c)
      /\ call'[c].at = "unsaved" /\ call'[c].retrying = FALSE
      /\ call'[c].wire = 0 /\ call'[c].base = 0 /\ call'[c].seen = 0
  BY UnsavedEffect DEF IInv, SaveFails
<1>2. /\ call[c].at = "saving"
      /\ UNCHANGED <<pokeLock, refreshLock, newest, dead, file, claimed, command, generation,
                     early, served, overlapped>>
      /\ overtaken' = overtaken \ {c}
  BY DEF SaveFails, At, locks, google, history
<1>3. SharedTyped'
  BY <1>2 DEF IInv, SharedTyped
<1>4. HistoryOK'
  BY <1>1, <1>2 DEF IInv, HistoryOK, Live, Wants, Others
<1>5. LocksHeld'
  BY <1>1, <1>2 DEF IInv, SharedTyped, LocksHeld, Others, At
<1>6. ValuesOK'
  BY <1>1, <1>2 DEF IInv, SharedTyped, ValuesOK, Live, Others
<1>7. Renewed'
  BY <1>1, <1>2 DEF IInv, Renewed, Wants, Uncounted, Others
<1>8. HerdOK'
  BY <1>1, <1>2, Fields DEF IInv, SharedTyped, HerdOK, HistoryOK, Others, At
<1>9. HerdRunsOnce'
  BY <1>1, <1>2 DEF IInv, HerdRunsOnce, HistoryOK, Others, At
<1> QED
  BY <1>1, <1>3, <1>4, <1>5, <1>6, <1>7, <1>8, <1>9 DEF IInv

LEMMA SettledRetries ==
  ASSUME IInv, NEW c \in Callers, Settled(c), Load(c, TRUE)
  PROVE  IInv'
<1>1. /\ refreshLock' \in [Loops -> Callers \cup {None}]
      /\ \A l \in Loops : refreshLock'[l] = IF refreshLock[l] = c THEN None ELSE refreshLock[l]
  BY FreeEffect DEF Settled, IInv, SharedTyped
<1>2. generation' = IF command[LoopOf[c]] = "ok" THEN Counted(c) ELSE generation
  BY DEF Settled
<1>3. /\ generation' \in Nat /\ generation <= generation' /\ call[c].seen <= generation
      /\ command[LoopOf[c]] = "ok" => generation' > call[c].seen
  BY Fields, <1>2 DEF Counted, IInv, SharedTyped, HerdOK
<1>4. /\ call[c].at = "awaiting" /\ command[LoopOf[c]] \in {"ok", "error"}
      /\ UNCHANGED <<pokeLock, newest, dead, file, claimed, overlapped>>
      /\ command' = [command EXCEPT ![LoopOf[c]] = "none"]
  BY DEF Settled, At, google
<1>5. /\ CallsTyped' /\ Others(c)
      /\ call'[c].at = "poking" /\ call'[c].retrying = TRUE
      /\ call'[c].wire = file /\ call'[c].base = file /\ call'[c].seen = 0
      /\ overtaken' = overtaken \ {c} /\ early' = early \ {c} /\ served' = served \ {c}
  BY LoadEffect DEF IInv, Load, Forget
<1>6. SharedTyped'
  BY <1>1, <1>3, <1>4 DEF IInv, SharedTyped
<1>7. HistoryOK'
  BY <1>5 DEF IInv, HistoryOK, Live, Wants, Others
<1>8. LocksHeld'
  BY <1>1, <1>3, <1>4, <1>5, FetchAssumption DEF IInv, SharedTyped, LocksHeld, Others, At
<1>9. ValuesOK'
  BY <1>4, <1>5 DEF IInv, SharedTyped, ValuesOK, Live, Others
<1>10. Renewed'
  BY <1>2, <1>4, <1>5, FetchAssumption DEF IInv, Renewed, Wants, Uncounted, Others
<1>11. HerdOK'
  BY <1>3, <1>4, <1>5, Fields DEF IInv, SharedTyped, HerdOK, HistoryOK, Others, At
<1>12. HerdRunsOnce'
  BY <1>4, <1>5 DEF IInv, HerdRunsOnce, HistoryOK, Others, At
<1> QED
  BY <1>5, <1>6, <1>7, <1>8, <1>9, <1>10, <1>11, <1>12 DEF IInv

LEMMA SettledLeaves ==
  ASSUME IInv, NEW c \in Callers, Settled(c), Leave(c)
  PROVE  IInv'
<1>1. /\ refreshLock' \in [Loops -> Callers \cup {None}]
      /\ \A l \in Loops : refreshLock'[l] = IF refreshLock[l] = c THEN None ELSE refreshLock[l]
  BY FreeEffect DEF Settled, IInv, SharedTyped
<1>2. generation' = IF command[LoopOf[c]] = "ok" THEN Counted(c) ELSE generation
  BY DEF Settled
<1>3. /\ generation' \in Nat /\ generation <= generation' /\ call[c].seen <= generation
      /\ command[LoopOf[c]] = "ok" => generation' > call[c].seen
  BY Fields, <1>2 DEF Counted, IInv, SharedTyped, HerdOK
<1>4. /\ call[c].at = "awaiting" /\ command[LoopOf[c]] \in {"ok", "error"}
      /\ UNCHANGED <<pokeLock, newest, dead, file, claimed, overlapped>>
      /\ command' = [command EXCEPT ![LoopOf[c]] = "none"]
  BY DEF Settled, At, google
<1>5. /\ CallsTyped' /\ Others(c)
      /\ call'[c].at = "over" /\ call'[c].retrying = FALSE
      /\ call'[c].wire = 0 /\ call'[c].base = 0 /\ call'[c].seen = 0
  BY OverEffect DEF IInv, Leave
<1>6. overtaken' = overtaken \ {c} /\ early' = early \ {c} /\ served' = served \ {c}
  BY DEF Leave, Forget
<1>7. SharedTyped'
  BY <1>1, <1>3, <1>4 DEF IInv, SharedTyped
<1>8. HistoryOK'
  BY <1>5, <1>6 DEF IInv, HistoryOK, Live, Wants, Others
<1>9. LocksHeld'
  BY <1>1, <1>4, <1>5, FetchAssumption DEF IInv, SharedTyped, LocksHeld, Others, At
<1>10. ValuesOK'
  BY <1>4, <1>5, <1>6 DEF IInv, SharedTyped, ValuesOK, Live, Others
<1>11. Renewed'
  BY <1>2, <1>4, <1>5, <1>6, FetchAssumption DEF IInv, Renewed, Wants, Uncounted, Others
<1>12. HerdOK'
  BY <1>3, <1>4, <1>5, <1>6, Fields DEF IInv, SharedTyped, HerdOK, HistoryOK, Others, At
<1>13. HerdRunsOnce'
  BY <1>4, <1>5, <1>6 DEF IInv, HerdRunsOnce, HistoryOK, Others, At
<1> QED
  BY <1>5, <1>7, <1>8, <1>9, <1>10, <1>11, <1>12, <1>13 DEF IInv

LEMMA CancelAwaiting ==
  ASSUME IInv, NEW c \in Callers, Cancel(c), At(c, "awaiting")
  PROVE  IInv'
<1>1. call' = [call EXCEPT ![c].cancelled = TRUE]
  BY DEF Cancel
<1>2. /\ CallsTyped' /\ Others(c)
      /\ call'[c].at = "awaiting" /\ call'[c].retrying = call[c].retrying
      /\ call'[c].wire = call[c].wire /\ call'[c].base = call[c].base
      /\ call'[c].seen = call[c].seen
  BY <1>1 DEF At, Others, IInv, CallsTyped, CallRecord
<1>3. /\ pokeLock' \in [Loops -> Callers \cup {None}]
      /\ \A l \in Loops : pokeLock'[l] = IF pokeLock[l] = c THEN None ELSE pokeLock[l]
  BY FreeEffect DEF Cancel, IInv, SharedTyped
<1>4. /\ call[c].at = "awaiting"
      /\ UNCHANGED <<refreshLock, newest, dead, file, overtaken, claimed, command,
                     generation, early, served, overlapped>>
  BY DEF Cancel, At, google
<1>5. SharedTyped'
  BY <1>3, <1>4 DEF IInv, SharedTyped
<1>6. HistoryOK'
  BY <1>1, <1>4 DEF IInv, HistoryOK, Live, Wants
<1>7. LocksHeld'
  BY <1>1, <1>3, <1>4, FetchAssumption DEF IInv, LocksHeld, At
<1>8. ValuesOK'
  BY <1>1, <1>4 DEF IInv, ValuesOK, Live
<1>9. Renewed'
  BY <1>1, <1>4 DEF IInv, Renewed, Wants, Uncounted
<1>10. HerdOK'
  BY <1>1, <1>4 DEF IInv, HerdOK, At
<1>11. HerdRunsOnce'
  BY <1>1, <1>4 DEF IInv, HerdRunsOnce, At
<1> QED
  BY <1>2, <1>5, <1>6, <1>7, <1>8, <1>9, <1>10, <1>11 DEF IInv

(* The command, Google, time and others:                                   *)
LEMMA CommandWritesKeeps ==
  ASSUME IInv, NEW l \in Loops, CommandWrites(l)
  PROVE  IInv'
<1>1. UNCHANGED call /\ CallsTyped'
  BY DEF IInv, CallsTyped, CommandWrites
<1>2. SharedTyped'
  BY FetchAssumption DEF IInv, SharedTyped, CommandWrites, locks, history
<1>3. HistoryOK'
  BY DEF IInv, HistoryOK, Live, Wants, CommandWrites, history
<1>4. LocksHeld'
  BY DEF IInv, LocksHeld, At, CommandWrites, locks
<1>5. ValuesOK'
  BY Fields DEF IInv, SharedTyped, ValuesOK, Live, CommandWrites
<1>6. Renewed'
  BY Fields DEF IInv, SharedTyped, ValuesOK, Renewed, CommandWrites
<1>7. HerdOK'
  BY DEF IInv, HerdOK, At, CommandWrites, history
<1>8. HerdRunsOnce'
  BY DEF IInv, HerdRunsOnce, At, CommandWrites, history
<1> QED
  BY <1>1, <1>2, <1>3, <1>4, <1>5, <1>6, <1>7, <1>8 DEF IInv

LEMMA CommandEndsKeeps ==
  ASSUME IInv, NEW l \in Loops, CommandEnds(l)
  PROVE  IInv'
<1>1. UNCHANGED call /\ CallsTyped'
  BY DEF IInv, CallsTyped, CommandEnds
<1>2. SharedTyped'
  BY DEF IInv, SharedTyped, CommandEnds, locks, google, storage
<1>3. HistoryOK'
  BY DEF IInv, HistoryOK, Live, Wants, At, CommandEnds, storage
<1>4. LocksHeld'
  BY FetchAssumption DEF IInv, SharedTyped, LocksHeld, At, CommandEnds, Underway, locks
<1>5. ValuesOK'
  BY DEF IInv, ValuesOK, Live, CommandEnds, google, storage
<1>6. Renewed'
  BY DEF IInv, SharedTyped, Renewed, Wants, Uncounted, CommandEnds, storage
<1>7. HerdOK'
  BY FetchAssumption DEF IInv, SharedTyped, HerdOK, HistoryOK, At, CommandEnds, Underway
<1>8. HerdRunsOnce'
  BY DEF IInv, HerdRunsOnce, At, CommandEnds
<1> QED
  BY <1>1, <1>2, <1>3, <1>4, <1>5, <1>6, <1>7, <1>8 DEF IInv

LEMMA ExpireKeeps ==
  ASSUME IInv, Expire
  PROVE  IInv'
<1>1. UNCHANGED call /\ CallsTyped'
  BY DEF IInv, CallsTyped, Expire
<1>2. SharedTyped'
  BY DEF IInv, SharedTyped, Expire, locks, storage, history
<1>3. HistoryOK'
  BY DEF IInv, HistoryOK, Live, Wants, Expire, storage, history
<1>4. LocksHeld'
  BY DEF IInv, LocksHeld, At, Expire, locks
<1>5. ValuesOK'
  BY DEF IInv, ValuesOK, Live, Expire, storage
<1>6. Renewed'
  BY DEF IInv, Renewed, Wants, Uncounted, Expire, storage, history
<1>7. HerdOK'
  BY DEF IInv, HerdOK, At, Expire, history
<1>8. HerdRunsOnce'
  BY DEF IInv, HerdRunsOnce, At, Expire, history
<1> QED
  BY <1>1, <1>2, <1>3, <1>4, <1>5, <1>6, <1>7, <1>8 DEF IInv

LEMMA OtherSavesKeeps ==
  ASSUME IInv, OtherSaves
  PROVE  IInv'
<1>1. UNCHANGED call /\ CallsTyped'
  BY DEF IInv, CallsTyped, OtherSaves
<1>2. SharedTyped'
  BY FetchAssumption DEF IInv, SharedTyped, OtherSaves, locks, history
<1>3. HistoryOK'
  BY DEF IInv, HistoryOK, Live, Wants, OtherSaves, history
<1>4. LocksHeld'
  BY DEF IInv, LocksHeld, At, OtherSaves, locks
<1>5. ValuesOK'
  BY Fields DEF IInv, SharedTyped, ValuesOK, Live, OtherSaves
<1>6. Renewed'
  BY Fields DEF IInv, SharedTyped, Renewed, Wants, Uncounted, OtherSaves, history
<1>7. HerdOK'
  BY DEF IInv, HerdOK, At, OtherSaves, history
<1>8. HerdRunsOnce'
  BY DEF IInv, HerdRunsOnce, At, OtherSaves, history
<1> QED
  BY <1>1, <1>2, <1>3, <1>4, <1>5, <1>6, <1>7, <1>8 DEF IInv

LEMMA WindowKeeps ==
  ASSUME IInv, WindowEnds
  PROVE  IInv'
<1>1. UNCHANGED call /\ CallsTyped'
  BY DEF IInv, CallsTyped, WindowEnds
<1>2. SharedTyped'
  BY DEF IInv, SharedTyped, WindowEnds, locks, google, storage, history
<1>3. HistoryOK'
  BY DEF IInv, HistoryOK, Live, Wants, WindowEnds, storage, history
<1>4. LocksHeld'
  BY DEF IInv, LocksHeld, At, WindowEnds, locks
<1>5. ValuesOK'
  BY DEF IInv, ValuesOK, Live, WindowEnds, google, storage
<1>6. Renewed'
  BY DEF IInv, Renewed, Wants, Uncounted, WindowEnds, storage, history
<1>7. HerdOK'
  BY DEF IInv, HerdOK, At, WindowEnds, history
<1>8. HerdRunsOnce'
  BY DEF IInv, HerdRunsOnce, At, WindowEnds, history
<1> QED
  BY <1>1, <1>2, <1>3, <1>4, <1>5, <1>6, <1>7, <1>8 DEF IInv

LEMMA StutterKeeps ==
  ASSUME IInv, UNCHANGED vars
  PROVE  IInv'
<1>1. UNCHANGED call /\ CallsTyped'
  BY DEF IInv, CallsTyped, vars
<1>2. SharedTyped'
  BY DEF IInv, SharedTyped, vars, locks, google, storage, history
<1>3. HistoryOK'
  BY DEF IInv, HistoryOK, Live, Wants, vars, storage, history
<1>4. LocksHeld'
  BY DEF IInv, LocksHeld, At, vars, locks
<1>5. ValuesOK'
  BY DEF IInv, ValuesOK, Live, vars, google, storage
<1>6. Renewed'
  BY DEF IInv, Renewed, Wants, Uncounted, vars, storage, history
<1>7. HerdOK'
  BY DEF IInv, HerdOK, At, vars, history
<1>8. HerdRunsOnce'
  BY DEF IInv, HerdRunsOnce, At, vars, history
<1> QED
  BY <1>1, <1>2, <1>3, <1>4, <1>5, <1>6, <1>7, <1>8 DEF IInv

-----------------------------------------------------------------------------
(* The initial state, and the whole next-state relation.                   *)
LEMMA InitHolds ==
  ASSUME Init
  PROVE  IInv
<1>1. 0 \in 0..MaxValue /\ "idle" \in Places
  BY FetchAssumption DEF Places
<1>2. /\ Fresh("idle", FALSE, 0) \in CallRecord /\ Fresh("idle", FALSE, 0).at = "idle"
      /\ Fresh("idle", FALSE, 0).wire = 0 /\ Fresh("idle", FALSE, 0).base = 0
      /\ Fresh("idle", FALSE, 0).seen = 0
  BY <1>1 DEF Fresh, CallRecord
<1>3. CallsTyped /\ \A c \in Callers : /\ call[c].at = "idle" /\ call[c].wire = 0
                                       /\ call[c].base = 0 /\ call[c].seen = 0
  BY <1>2 DEF Init, CallsTyped
<1>4. /\ file = 0 /\ newest = 0 /\ dead = -1 /\ generation = 0 /\ overtaken = {} /\ served = {}
      /\ claimed = FALSE /\ overlapped = FALSE /\ command = [l \in Loops |-> "none"]
      /\ pokeLock = [l \in Loops |-> None] /\ refreshLock = [l \in Loops |-> None]
  BY DEF Init
<1>5. SharedTyped
  <2>1. 0 \in 0..0 /\ 0 \in 0..MaxValue /\ 0 \in Nat /\ -1 \in -1..0
    BY FetchAssumption
  <2>2. /\ pokeLock \in [Loops -> Callers \cup {None}]
        /\ refreshLock \in [Loops -> Callers \cup {None}]
        /\ command \in [Loops -> {"none", "running", "written", "ok", "error"}]
    BY <1>4
  <2> QED
    BY <1>4, <2>1 DEF SharedTyped
<1>6. HistoryOK /\ Renewed /\ HerdRunsOnce
  BY <1>3 DEF Init, HistoryOK, Renewed, HerdRunsOnce, Uncounted
<1>7. LocksHeld /\ HerdOK
  BY <1>3, <1>4 DEF LocksHeld, HerdOK, At
<1>8. ValuesOK
  BY <1>3, <1>4 DEF ValuesOK, Live
<1> QED
  BY <1>3, <1>5, <1>6, <1>7, <1>8 DEF IInv

(* A call that fetches the homepage holds no rotation lock.                *)
LEMMA FreeOfNone ==
  ASSUME IInv, NEW c \in Callers, At(c, "getting")
  PROVE  Free(pokeLock, c) = pokeLock
<1>1. pokeLock \in [Loops -> Callers \cup {None}] /\ \A l \in Loops : pokeLock[l] # c
  BY FetchAssumption DEF IInv, SharedTyped, LocksHeld, At
<1> QED
  BY <1>1 DEF Free

LEMMA CallStepKeeps ==
  ASSUME IInv, NEW c \in Callers, CallStep(c)
  PROVE  IInv'
<1>1. CASE Poke(c)
  <2>1. \/ Go(c, "getting") /\ UNCHANGED <<pokeLock, claimed>>
        \/ /\ Go(c, "rotating") /\ ~claimed /\ claimed'
           /\ pokeLock' = [pokeLock EXCEPT ![LoopOf[c]] = c]
    BY <1>1 DEF Poke
  <2> QED
    BY <1>1, <2>1, PokeSkips, PokeRotates
<1>2. CASE Rotated(c)
  BY <1>2, RotatedKeeps
<1>3. CASE Fetched(c)
  BY <1>3, FetchedKeeps
<1>4. CASE Rejected(c)
  <2>1. CASE call[c].retrying
    BY <1>4, <2>1, FreeOfNone, LeaveKeeps DEF Rejected, Cancellable, At, locks
  <2> QED
    BY <1>4, <2>1, RejectedLocks
<1>5. CASE Skip(c)
  BY <1>5, SkipKeeps
<1>6. CASE RunCommand(c)
  BY <1>6, RunCommandKeeps
<1>7. CASE Settled(c)
  <2>1. Load(c, TRUE) \/ Leave(c)
    BY <1>7 DEF Settled
  <2> QED
    BY <1>7, <2>1, SettledRetries, SettledLeaves
<1>8. CASE Saved(c)
  BY <1>8, SavedKeeps
<1> QED
  BY <1>1, <1>2, <1>3, <1>4, <1>5, <1>6, <1>7, <1>8 DEF CallStep

LEMMA StepKeeps ==
  ASSUME IInv, [Next]_vars
  PROVE  IInv'
<1>1. ASSUME NEW c \in Callers, Start(c) \/ RecentlyRotated(c) \/ CallStep(c) \/ SaveFails(c)
      PROVE  IInv'
  BY <1>1, StartKeeps, PokeSkips, CallStepKeeps, SaveFailsKeeps DEF RecentlyRotated, locks
<1>2. ASSUME NEW c \in Callers, Fails(c) PROVE IInv'
  BY <1>2, FreeOfNone, LeaveKeeps DEF Fails, Cancellable, At, locks
<1>3. ASSUME NEW c \in Callers, Cancel(c) PROVE IInv'
  <2>1. CASE At(c, "awaiting")
    BY <1>3, <2>1, CancelAwaiting
  <2>2. CASE ~At(c, "awaiting")
    BY <1>3, <2>2, LeaveKeeps DEF Cancel
  <2> QED
    BY <2>1, <2>2
<1>4. ASSUME NEW l \in Loops, CommandWrites(l) \/ CommandEnds(l) PROVE IInv'
  BY <1>4, CommandWritesKeeps, CommandEndsKeeps
<1> QED
  BY <1>1, <1>2, <1>3, <1>4, ExpireKeeps, OtherSavesKeeps, WindowKeeps, StutterKeeps DEF Next

-----------------------------------------------------------------------------
(* The invariant holds for any number of callers, loops and cookie values. *)
THEOREM FetchInvariant == Spec => []IInv
<1>1. Init => IInv
  BY InitHolds
<1>2. IInv /\ [Next]_vars => IInv'
  BY StepKeeps
<1> QED
  BY <1>1, <1>2, PTL DEF Spec

(* Every variable has its type, and whoever holds a lock is at the place   *)
(* of the code that holds it (_poke_session, _coalesced_run_refresh_cmd).  *)
THEOREM FetchTypeOK == Spec => []TypeOK
<1>1. IInv => TypeOK
  <2>1. CallsTyped => call \in [Callers -> CallRecord]
    BY DEF CallsTyped
  <2>2. HistoryOK => overtaken \subseteq Live /\ early \subseteq Live /\ served \subseteq Live
    BY DEF HistoryOK, Wants, Live
  <2> QED
    BY <2>1, <2>2 DEF IInv, TypeOK, SharedTyped, LocksHeld, CallRecord, Places
<1> QED
  BY <1>1, FetchInvariant, PTL

(* The refresh command of a loop runs only while a caller of the loop      *)
(* holds its refresh lock and waits, cancelled or not; one caller of the   *)
(* whole process rotates at a time.                                        *)
THEOREM WorkIsExclusiveHolds == Spec => []WorkIsExclusive
<1>1. IInv => WorkIsExclusive
  BY DEF IInv, WorkIsExclusive, SharedTyped, LocksHeld
<1> QED
  BY <1>1, FetchInvariant, PTL

(* Of the callers that fail together on one loop only one runs the         *)
(* command: the generation tells the others to reload, unless commands of  *)
(* two loops have overlapped.                                              *)
THEOREM HerdRunsOnceHolds == Spec => []HerdRunsOnce
<1>1. IInv => HerdRunsOnce
  BY DEF IInv
<1> QED
  BY <1>1, FetchInvariant, PTL

-----------------------------------------------------------------------------
(* For the action properties: only an action of a call changes its record, *)
(* so a call that moves is one whose action was taken.                     *)
LEMMA OthersStay ==
  ASSUME CallsTyped, NEW c \in Callers, Start(c) \/ RecentlyRotated(c) \/ CallStep(c) \/ SaveFails(c) \/ Fails(c) \/ Cancel(c)
  PROVE  Others(c)
<1>1. \A v : call' = [call EXCEPT ![c] = v] => Others(c)
  BY DEF CallsTyped, Others
<1>2. Start(c) \/ Skip(c) \/ Settled(c) \/ Saved(c) \/ SaveFails(c) \/ Fails(c) => Others(c)
  BY <1>1 DEF Start, Skip, Settled, Saved, SaveFails, Fails, Load, Leave
<1>3. RecentlyRotated(c) \/ Poke(c) \/ Rotated(c) \/ Fetched(c) \/ RunCommand(c) => Others(c)
  BY DEF RecentlyRotated, Poke, Rotated, Fetched, RunCommand, Go, CallsTyped, Others
<1>4. Rejected(c) \/ Cancel(c) => Others(c)
  BY <1>1 DEF Rejected, Cancel, Leave
<1> QED
  BY <1>2, <1>3, <1>4 DEF CallStep

LEMMA CallsMove ==
  ASSUME CallsTyped, [Next]_vars, NEW c \in Callers, call'[c] # call[c]
  PROVE  Start(c) \/ RecentlyRotated(c) \/ CallStep(c) \/ SaveFails(c) \/ Fails(c) \/ Cancel(c)
<1>1. ASSUME NEW d \in Callers, Start(d) \/ RecentlyRotated(d) \/ CallStep(d) \/ SaveFails(d) \/ Fails(d) \/ Cancel(d)
      PROVE  d = c
  BY <1>1, OthersStay DEF Others
<1>2. ASSUME NEW l \in Loops, CommandWrites(l) \/ CommandEnds(l) PROVE FALSE
  BY <1>2 DEF CommandWrites, CommandEnds
<1>3. ~Expire /\ ~OtherSaves /\ ~WindowEnds /\ ~UNCHANGED vars
  BY DEF Expire, OtherSaves, WindowEnds, vars
<1> QED
  BY <1>1, <1>2, <1>3 DEF Next

LEMMA OverStays ==
  ASSUME CallsTyped, NEW c \in Callers, call' = [call EXCEPT ![c] = Over]
  PROVE  ~call'[c].retrying /\ ~At(c, "saving")'
BY OverEffect DEF At

(* A second try begins with what somebody has written since the first was  *)
(* rejected.                                                               *)
LEMMA RetryStep ==
  ASSUME IInv, [Next]_vars, NEW c \in Callers, call'[c].retrying, ~call[c].retrying
  PROVE  call'[c].wire > call[c].wire \/ c \in early
<1>1. CASE Skip(c)
  <2>1. call'[c].wire = file
    BY <1>1, LoadEffect DEF Skip, IInv
  <2> QED
    BY <1>1, <2>1 DEF Skip, IInv, Renewed, Wants, At
<1>2. CASE Settled(c)
  <2>1. CASE command[LoopOf[c]] = "ok" /\ ~call[c].cancelled
    <3>1. call'[c].wire = file
      BY <1>2, <2>1, LoadEffect DEF Settled, IInv
    <3>2. Uncounted /\ Wants(c)
      BY <1>2, <2>1, FetchAssumption DEF Settled, Uncounted, Wants, At
    <3> QED
      BY <3>1, <3>2 DEF IInv, Renewed
  <2>2. CASE ~(command[LoopOf[c]] = "ok" /\ ~call[c].cancelled)
    BY <1>2, <2>2, OverStays DEF Settled, Leave, IInv
  <2> QED
    BY <2>1, <2>2
<1>3. CASE Start(c)
  BY <1>3, LoadEffect DEF Start, IInv
<1>4. CASE RecentlyRotated(c) \/ Poke(c) \/ Rotated(c) \/ Fetched(c) \/ RunCommand(c)
  BY <1>4 DEF RecentlyRotated, Poke, Rotated, Fetched, RunCommand, Go, IInv, CallsTyped, CallRecord
<1>5. CASE Rejected(c) \/ Cancel(c) \/ Fails(c)
  BY <1>5, OverStays DEF Rejected, Cancel, Fails, Leave, IInv, CallsTyped, CallRecord
<1>6. CASE Saved(c) \/ SaveFails(c)
  BY <1>6, OverStays, UnsavedEffect DEF Saved, SaveFails, IInv
<1> QED
  BY <1>1, <1>2, <1>3, <1>4, <1>5, <1>6, CallsMove DEF CallStep, IInv

(* A call leaves "saving" by its save, which writes the file or finds that *)
(* somebody else has written it, or without one.                           *)
LEMMA SaveStep ==
  ASSUME IInv, [Next]_vars, NEW c \in Callers, At(c, "saving"), ~At(c, "saving")'
  PROVE  file' = call[c].wire \/ c \in overtaken \/ At(c, "unsaved")'
<1>1. Saved(c) \/ SaveFails(c)
  <2>1. call'[c] # call[c]
    BY DEF At
  <2>2. Start(c) \/ RecentlyRotated(c) \/ CallStep(c) \/ SaveFails(c) \/ Fails(c) \/ Cancel(c)
    BY <2>1, CallsMove DEF IInv
  <2> QED
    BY <2>2 DEF At, CallStep, Start, RecentlyRotated, Poke, Rotated, Fetched, Rejected, Skip, RunCommand,
       Settled, Fails, Cancel, Cancellable
<1>2. c \in overtaken \/ file = call[c].base
  BY DEF IInv, ValuesOK, Live, At
<1> QED
  BY <1>1, <1>2, UnsavedEffect DEF Saved, SaveFails, At, IInv

(* The second try of fetch_tokens_with_domains is not made with the        *)
(* cookies that were just rejected, unless the rejection came between the  *)
(* write of a command and its count.                                       *)
THEOREM RetryHasNewCookiesHolds == Spec => RetryHasNewCookies
<1>1. IInv /\ [Next]_vars
        => \A c \in Callers :
             call'[c].retrying /\ ~call[c].retrying => call'[c].wire > call[c].wire \/ c \in early
  BY RetryStep
<1> QED
  BY <1>1, FetchInvariant, PTL DEF Spec, RetryHasNewCookies

(* A rotated cookie is not lost on the way: it is in storage_state.json    *)
(* when the call ends, unless somebody else wrote there after the load or  *)
(* save_cookies_to_storage itself failed or was never begun.               *)
THEOREM RotationIsSavedHolds == Spec => RotationIsSaved
<1>1. IInv /\ [Next]_vars
        => \A c \in Callers :
             At(c, "saving") /\ ~(At(c, "saving"))' =>
               file' = call[c].wire \/ c \in overtaken \/ At(c, "unsaved")'
  BY SaveStep
<1> QED
  BY <1>1, FetchInvariant, PTL DEF Spec, RotationIsSaved

=============================================================================
