-------------------------- MODULE GatewayPoolProofs --------------------------
(***************************************************************************)
(* What the gateway's pool guarantees for any number of accounts, keys,    *)
(* requests and admin calls, however they overlap.                         *)
(***************************************************************************)
EXTENDS GatewayPool, TLAPS

Live == {"open", "closing", "draining"}
Calm == "admin" \notin overlap

OpeningReq(r) == req[r].at = "opening"
ClosingAdmin(a) == admin[a].at = "closing"

KeysAreUnique ==
  \A e, f \in Emails : account[e].key = account[f].key /\ account[e].key # None => e = f

(* A pooled client has one key and is live, or an admin call is about to   *)
(* delete its entry.  A client that has been pooled, or is being opened,   *)
(* has an account.                                                         *)
InHand(k) == \E a \in Admins : ClosingAdmin(a) /\ admin[a].key = k /\ admin[a].client = pool[k]

PoolRefs ==
  /\ \A k \in Keys : pool[k] # None =>
       \/ client[pool[k]].at \in Live
       \/ client[pool[k]].at = "closed" /\ InHand(k)
  /\ \A k, l \in Keys : pool[k] = pool[l] /\ pool[k] # None => k = l
  /\ \A c \in Clients :
       client[c].at \in Live \cup {"opening", "closed"} => client[c].email \in Emails

(* Every opening client belongs to one request. *)
ReqRefs ==
  /\ \A r \in Requests : req[r].at # "idle" => req[r].key \in Keys
  /\ \A r \in Requests : OpeningReq(r) =>
       req[r].client \in Clients /\ client[req[r].client].at = "opening"
  /\ \A r, s \in Requests :
       OpeningReq(r) /\ OpeningReq(s) /\ req[r].client = req[s].client => r = s
  /\ \A r \in Requests : req[r].at \in {"serving", "calling"} =>
       req[r].client \in Clients /\ client[req[r].client].at \in Live \cup {"closed"}

(* The client that an admin call closes is pooled under the key of the     *)
(* call or not at all.                                                     *)
AdminRefs ==
  \A a \in Admins : ClosingAdmin(a) =>
    /\ admin[a].client \in Clients /\ admin[a].key \in Keys /\ admin[a].email \in Emails
    /\ client[admin[a].client].at \in {"closing", "draining", "closed"}
    /\ \A k \in Keys : pool[k] = admin[a].client => k = admin[a].key

(* Client, file and row of an account are of the same upload. *)
Current(c, e) ==
  /\ client[c].email = e
  /\ client[c].state[1] = account[e].state[1]
  /\ file[e][1] = account[e].state[1]

(* One admin call closes at a time, and what it has not closed yet is all  *)
(* that may differ from the table.                                         *)
OneAdmin == \A a, b \in Admins : ClosingAdmin(a) /\ ClosingAdmin(b) => a = b
OpensCurrent ==
  \A r \in Requests : OpeningReq(r) =>
    LET c == req[r].client IN
    account[client[c].email].key = req[r].key /\ Current(c, client[c].email)
ClosesPooled ==
  \A a \in Admins : ClosingAdmin(a) =>
    /\ pool[admin[a].key] # None
    /\ admin[a].op = "delete" =>
         /\ account[admin[a].email].key = admin[a].key
         /\ admin[a].then = None
         /\ \A r \in Requests : OpeningReq(r) => req[r].key # admin[a].key
PoolIsCurrent ==
  \A k \in Keys : \A e \in Owner(k) : pool[k] # None =>
    \/ Current(pool[k], e)
    \/ \E a \in Admins : ClosingAdmin(a) /\ k \in {admin[a].key, admin[a].then}

(* With one opening at a time, too, nothing live is out of the pool.       *)
OneOpening ==
  /\ \A r, s \in Requests : OpeningReq(r) /\ OpeningReq(s) => r = s
  /\ \A r \in Requests : OpeningReq(r) => pool[req[r].key] = None
LiveIsPooled ==
  /\ \A a \in Admins : ClosingAdmin(a) => pool[admin[a].key] = admin[a].client
  /\ \A c \in Clients : client[c].at \in Live => \E k \in Keys : pool[k] = c

CalmInv == Calm => OneAdmin /\ OpensCurrent /\ ClosesPooled /\ PoolIsCurrent
LeakInv == overlap = {} => OneOpening /\ LiveIsPooled

IInv ==
  /\ TypeOK /\ KeysAreUnique /\ PoolRefs /\ ReqRefs /\ AdminRefs
  /\ CalmInv /\ LeakInv

-----------------------------------------------------------------------------
(* Type correctness. *)

Row == [key : Keys \cup {None}, id : 0 .. MaxUploads, state : StorageState,
        status : {"none", "active", "expired"}]
ClientRecord ==
  [at : {"unused", "opening", "open", "closing", "draining", "closed"},
   email : Emails \cup {None}, state : StorageState]

RowsOK ==
  account \in [Emails -> Row] /\ \A e \in Emails : account[e].key = None => account[e] = Absent

ReqRecord ==
  [at : {"idle", "limited", "opening", "serving", "calling"},
   key : Keys \cup {None}, client : Clients \cup {None}]
AdminRecord ==
  [at : {"idle", "closing"}, op : {"none", "upload", "delete", "key"},
   email : Emails \cup {None}, id : 0 .. MaxUploads, key : Keys \cup {None},
   then : Keys \cup {None}, client : Clients \cup {None}]

TableOK == RowsOK /\ uploads \in 0 .. MaxUploads /\ file \in [Emails -> StorageState]
ClientsOK == pool \in [Keys -> Clients \cup {None}] /\ client \in [Clients -> ClientRecord]
CallersOK ==
  /\ req \in [Requests -> ReqRecord]
  /\ admin \in [Admins -> AdminRecord]
  /\ overlap \subseteq {"admin", "open"}

LEMMA TypeParts ==
  /\ TypeOK <=> TableOK /\ ClientsOK /\ CallersOK
  /\ TypeOK' <=> TableOK' /\ ClientsOK' /\ CallersOK'
BY DEF TypeOK, TableOK, RowsOK, Row, ClientsOK, ClientRecord, CallersOK, ReqRecord, AdminRecord

LEMMA Blanks ==
  /\ Absent \in Row /\ Absent.key = None
  /\ <<0, 0>> \in StorageState
  /\ Unused \in ClientRecord /\ Unused.at = "unused"
<1>1. <<0, 0>> \in StorageState
  BY PoolAssumption DEF StorageState
<1> QED
  BY <1>1, PoolAssumption DEF Absent, Row, Unused, ClientRecord

LEMMA InitTypeOK == Init => TypeOK
BY Blanks, TypeParts, PoolAssumption
   DEF Init, TableOK, RowsOK, ClientsOK, CallersOK, IdleReq, IdleAdmin, ReqRecord, AdminRecord

(* One row changes and stays there. *)
LEMMA RowMoves ==
  ASSUME RowsOK, NEW e, NEW row, account' = [account EXCEPT ![e] = row],
         e \in Emails => row \in Row /\ (row.key = None => row = Absent)
  PROVE  RowsOK'
BY DEF RowsOK

LEMMA RowKept ==
  ASSUME RowsOK, NEW e \in Emails, account[e].key # None, NEW x \in StorageState,
         NEW st \in {"active", "expired"}
  PROVE  /\ [account[e] EXCEPT !.state = x] \in Row
         /\ [account[e] EXCEPT !.state = x].key # None
         /\ [account[e] EXCEPT !.status = st] \in Row
         /\ [account[e] EXCEPT !.status = st].key # None
BY DEF RowsOK, Row

(* One request moves. *)
LEMMA ReqMoves ==
  ASSUME CallersOK, NEW r \in Requests, NEW x \in ReqRecord,
         req' = [req EXCEPT ![r] = x], UNCHANGED <<admin, overlap>>
  PROVE  CallersOK'
BY DEF CallersOK

LEMMA Untouched ==
  /\ TableOK /\ UNCHANGED <<account, uploads, file>> => TableOK'
  /\ ClientsOK /\ UNCHANGED <<pool, client>> => ClientsOK'
  /\ CallersOK /\ UNCHANGED <<req, admin, overlap>> => CallersOK'
BY DEF TableOK, RowsOK, ClientsOK, CallersOK

LEMMA ReqTypeOK ==
  ASSUME TypeOK, NEW r \in Requests,
         \/ \E k \in Keys : ReqAuth(r, k)
         \/ ReqUnauthorized(r) \/ ReqCall(r) \/ ReqCallEnds(r) \/ ReqDone(r)
  PROVE  TypeOK'
<1>1. IdleReq \in ReqRecord /\ \A x \in {"calling", "serving"} : [req[r] EXCEPT !.at = x] \in ReqRecord
  BY TypeParts DEF IdleReq, ReqRecord, CallersOK
<1>2. \A k \in Keys : [at |-> "limited", key |-> k, client |-> None] \in ReqRecord
  BY DEF ReqRecord
<1>3. \E x \in ReqRecord : req' = [req EXCEPT ![r] = x]
  BY <1>1, <1>2, TypeParts DEF ReqAuth, ReqUnauthorized, ReqCall, BeginCall, ReqCallEnds, ReqDone, CallersOK
<1>4. UNCHANGED <<account, uploads, file, pool, client, admin, overlap>>
  BY DEF ReqAuth, ReqUnauthorized, ReqCall, BeginCall, ReqCallEnds, ReqDone
<1> QED
  BY <1>3, <1>4, TypeParts, ReqMoves, Untouched

LEMMA HitTypeOK ==
  ASSUME TypeOK, PoolRefs, ReqRefs, NEW r \in Requests, ReqHit(r)
  PROVE  TypeOK'
<1> DEFINE c == pool[req[r].key]
           e == client[c].email
<1>1. c \in Clients /\ e \in Emails
  BY TypeParts DEF ReqHit, PoolRefs, ReqRefs, ClientsOK
<1>2. RowsOK'
  BY <1>1, TypeParts, RowMoves, RowKept DEF ReqHit, SyncBack, TableOK, RowsOK
<1>3. [req[r] EXCEPT !.at = "serving", !.client = c] \in ReqRecord
  BY <1>1, TypeParts DEF CallersOK, ReqRecord
<1>4. CallersOK'
  BY <1>3, TypeParts, ReqMoves DEF ReqHit
<1> QED
  BY <1>2, <1>4, TypeParts, Untouched DEF ReqHit, TableOK

LEMMA MissTypeOK ==
  ASSUME TypeOK, ReqRefs, NEW r \in Requests, ReqMiss(r)
  PROVE  TypeOK'
<1>1. PICK e \in Active(req[r].key), c \in Clients :
        /\ file' = [file EXCEPT ![e] = account[e].state]
        /\ client' = [client EXCEPT ![c] = [at |-> "opening", email |-> e,
                                            state |-> account[e].state]]
        /\ req' = [req EXCEPT ![r].at = "opening", ![r].client = c]
  BY DEF ReqMiss, MissWith, Active, Owner
<1>2. e \in Emails /\ account[e].state \in StorageState
  BY TypeParts DEF Active, Owner, TableOK, RowsOK, Row
<1>3. TableOK'
  BY <1>1, <1>2, TypeParts DEF TableOK, RowsOK, ReqMiss, MissWith
<1>4. ClientsOK'
  BY <1>1, <1>2, TypeParts DEF ClientsOK, ClientRecord, ReqMiss, MissWith
<1>5. [req[r] EXCEPT !.at = "opening", !.client = c] \in ReqRecord
  BY TypeParts DEF CallersOK, ReqRecord
<1>6. CallersOK'
  BY <1>1, <1>5, TypeParts DEF CallersOK, ReqMiss, MissWith
<1> QED
  BY <1>3, <1>4, <1>6, TypeParts

LEMMA OpenedTypeOK ==
  ASSUME TypeOK, ReqRefs, NEW r \in Requests, ReqOpened(r)
  PROVE  TypeOK'
<1> DEFINE c == req[r].client
<1>1. c \in Clients /\ req[r].key \in Keys
  BY DEF ReqOpened, ReqRefs, OpeningReq
<1>2. [client[c] EXCEPT !.at = "open"] \in ClientRecord
  BY <1>1, TypeParts DEF ClientsOK, ClientRecord
<1>3. ClientsOK'
  BY <1>1, <1>2, TypeParts DEF ClientsOK, ReqOpened
<1>4. [req[r] EXCEPT !.at = "serving"] \in ReqRecord
  BY TypeParts DEF CallersOK, ReqRecord
<1>5. CallersOK'
  BY <1>4, TypeParts DEF CallersOK, ReqOpened
<1> QED
  BY <1>3, <1>5, TypeParts, Untouched DEF ReqOpened

LEMMA OpenFailedTypeOK ==
  ASSUME TypeOK, PoolRefs, ReqRefs, NEW r \in Requests, ReqOpenFailed(r)
  PROVE  TypeOK'
<1> DEFINE c == req[r].client
           e == client[c].email
<1>1. c \in Clients /\ e \in Emails
  BY DEF ReqOpenFailed, ReqRefs, PoolRefs, OpeningReq
<1>2. account[e] \in Row /\ (account[e].key = None => account[e] = Absent)
  BY <1>1, TypeParts DEF TableOK, RowsOK
<1>3. Expire(account[e]) \in Row /\ (Expire(account[e]).key = None => Expire(account[e]) = Absent)
  BY <1>1, <1>2, TypeParts, RowKept DEF Expire, TableOK
<1>4. RowsOK'
  BY <1>3, TypeParts, RowMoves DEF ReqOpenFailed, TableOK
<1>5. ClientsOK'
  BY <1>1, TypeParts, Blanks DEF ReqOpenFailed, ClientsOK
<1>6. IdleReq \in ReqRecord
  BY DEF IdleReq, ReqRecord
<1>7. CallersOK'
  BY <1>6, TypeParts, ReqMoves DEF ReqOpenFailed
<1> QED
  BY <1>4, <1>5, <1>7, TypeParts DEF ReqOpenFailed, TableOK

LEMMA RotateTypeOK ==
  ASSUME TypeOK, NEW c \in Clients, Rotate(c)
  PROVE  TypeOK'
<1> DEFINE next == <<client[c].state[1], client[c].state[2] + 1>>
<1>1. client[c] \in ClientRecord
  BY TypeParts DEF ClientsOK
<1>2. next \in StorageState
  <2>1. client[c].state[1] \in 0 .. MaxUploads /\ client[c].state[2] \in 0 .. MaxAge
    BY <1>1 DEF ClientRecord, StorageState
  <2>2. client[c].state[2] + 1 \in 0 .. MaxAge
    BY <2>1, PoolAssumption DEF Rotate
  <2> QED
    BY <2>1, <2>2 DEF StorageState
<1> HIDE DEF next
<1>3. client' = [client EXCEPT ![c] = [client[c] EXCEPT !.state = next]]
      /\ \/ file' = file
         \/ file' = [file EXCEPT ![client[c].email] = next]
  BY <1>1, TypeParts DEF Rotate, next
<1>4. [client[c] EXCEPT !.state = next] \in ClientRecord
  BY <1>1, <1>2 DEF ClientRecord
<1>5. ClientsOK'
  BY <1>3, <1>4, TypeParts DEF ClientsOK, Rotate
<1>6. TableOK'
  BY <1>2, <1>3, TypeParts DEF TableOK, RowsOK, Rotate
<1> QED
  BY <1>5, <1>6, TypeParts, Untouched DEF Rotate

LEMMA MayStartTypeOK ==
  ASSUME CallersOK, NEW a \in Admins, MayStart(a)
  PROVE  overlap' \subseteq {"admin", "open"}
BY DEF MayStart, CallersOK

LEMMA CloseKeyTypeOK ==
  ASSUME TypeOK, NEW a \in Admins, NEW op \in {"upload", "delete", "key"},
         NEW e \in Emails, NEW k \in Keys, NEW then \in Keys \cup {None},
         MayStart(a), pool[k] # None, CloseKey(a, op, e, k, then), UNCHANGED <<pool, req>>
  PROVE  ClientsOK' /\ CallersOK'
<1>1. pool[k] \in Clients /\ client[pool[k]] \in ClientRecord
  BY TypeParts DEF ClientsOK
<1>2. account[e].id \in 0 .. MaxUploads
  BY TypeParts DEF TableOK, RowsOK, Row
<1>3. \A at \in {"closing", client[pool[k]].at} :
        [client[pool[k]] EXCEPT !.at = at] \in ClientRecord
  BY <1>1 DEF ClientRecord
<1>4. ClientsOK'
  BY <1>1, <1>3, TypeParts DEF ClientsOK, CloseKey
<1>5. [at |-> "closing", op |-> op, email |-> e, id |-> account[e].id,
       key |-> k, then |-> then, client |-> pool[k]] \in AdminRecord
  BY <1>1, <1>2 DEF AdminRecord
<1>6. CallersOK'
  BY <1>5, TypeParts, MayStartTypeOK DEF CallersOK, CloseKey
<1> QED
  BY <1>4, <1>6

LEMMA UploadTypeOK ==
  ASSUME TypeOK, NEW a \in Admins, NEW e \in Emails, NEW k \in Keys, UploadStart(a, e, k)
  PROVE  TypeOK'
<1> DEFINE row == [key |-> k, id |-> IF account[e].key = None THEN uploads + 1 ELSE account[e].id,
                   state |-> <<uploads + 1, 0>>, status |-> "active"]
<1>1. uploads + 1 \in 0 .. MaxUploads /\ account[e].id \in 0 .. MaxUploads
  BY TypeParts, PoolAssumption DEF UploadStart, SaveRow, TableOK, RowsOK, Row
<1>2. row \in Row /\ row.key # None
  BY <1>1, PoolAssumption DEF Row, StorageState
<1>3. account' = [account EXCEPT ![e] = row]
  BY TypeParts DEF UploadStart, SaveRow, TableOK, RowsOK
<1> HIDE DEF row
<1>4. TableOK'
  BY <1>1, <1>2, <1>3, TypeParts, RowMoves DEF TableOK, UploadStart, SaveRow
<1>5. ClientsOK' /\ CallersOK'
  <2>1. UNCHANGED <<pool, req>> /\ MayStart(a)
    BY DEF UploadStart, SaveRow
  <2>2. CASE pool[k] = None
    BY <2>1, <2>2, TypeParts, MayStartTypeOK DEF UploadStart, ClientsOK, CallersOK
  <2>3. CASE pool[k] # None
    BY <2>1, <2>3, CloseKeyTypeOK DEF UploadStart
  <2> QED
    BY <2>2, <2>3
<1> QED
  BY <1>4, <1>5, TypeParts

LEMMA DeleteTypeOK ==
  ASSUME TypeOK, NEW a \in Admins, NEW e \in Emails, DeleteStart(a, e)
  PROVE  TypeOK'
<1> DEFINE k == account[e].key
<1>1. k \in Keys /\ MayStart(a) /\ UNCHANGED <<uploads, file, pool, req>>
  BY TypeParts DEF DeleteStart, TableOK, RowsOK, Row
<1>2. TableOK'
  BY <1>1, TypeParts, RowMoves, Blanks DEF DeleteStart, TableOK, RowsOK
<1>3. ClientsOK' /\ CallersOK'
  <2>1. CASE pool[k] = None
    BY <1>1, <2>1, TypeParts, MayStartTypeOK DEF DeleteStart, ClientsOK, CallersOK
  <2>2. CASE pool[k] # None
    BY <1>1, <2>2, CloseKeyTypeOK DEF DeleteStart
  <2> QED
    BY <2>1, <2>2
<1> QED
  BY <1>2, <1>3, TypeParts

LEMMA StatusTypeOK ==
  ASSUME TypeOK, NEW a \in Admins, NEW e \in Emails, NEW st \in {"active", "expired"},
         SetStatus(a, e, st)
  PROVE  TypeOK'
<1>1. account' = [account EXCEPT ![e] = [account[e] EXCEPT !.status = st]]
  BY TypeParts DEF SetStatus, TableOK, RowsOK
<1>2. RowsOK'
  BY <1>1, TypeParts, RowMoves, RowKept, Blanks DEF SetStatus, TableOK
<1>3. CallersOK'
  BY TypeParts, MayStartTypeOK DEF SetStatus, CallersOK
<1> QED
  BY <1>2, <1>3, TypeParts, Untouched DEF SetStatus, TableOK

LEMMA ChangeKeyTypeOK ==
  ASSUME TypeOK, NEW a \in Admins, NEW e \in Emails, NEW k \in Keys, ChangeKeyStart(a, e, k)
  PROVE  TypeOK'
<1> DEFINE old == account[e].key
<1>1. old \in Keys /\ MayStart(a) /\ UNCHANGED <<uploads, file, pool, req>>
  BY TypeParts DEF ChangeKeyStart, TableOK, RowsOK, Row
<1>2. /\ account' = [account EXCEPT ![e] = [account[e] EXCEPT !.key = k]]
      /\ [account[e] EXCEPT !.key = k] \in Row
      /\ [account[e] EXCEPT !.key = k].key # None
  BY TypeParts, PoolAssumption DEF ChangeKeyStart, TableOK, RowsOK, Row
<1>3. TableOK'
  BY <1>1, <1>2, TypeParts, RowMoves DEF TableOK
<1>4. ClientsOK' /\ CallersOK'
  <2>1. CASE pool[old] # None
    BY <1>1, <2>1, CloseKeyTypeOK DEF ChangeKeyStart
  <2>2. CASE pool[old] = None /\ pool[k] # None
    BY <1>1, <2>2, CloseKeyTypeOK DEF ChangeKeyStart
  <2>3. CASE pool[old] = None /\ pool[k] = None
    BY <1>1, <2>3, TypeParts, MayStartTypeOK DEF ChangeKeyStart, ClientsOK, CallersOK
  <2> QED
    BY <2>1, <2>2, <2>3
<1> QED
  BY <1>3, <1>4, TypeParts

LEMMA FinishTypeOK ==
  ASSUME TypeOK, AdminRefs, NEW a \in Admins, CloseReturns(a)
  PROVE  TypeOK'
<1> DEFINE m == admin[a]
<1>1. m.client \in Clients /\ m.key \in Keys /\ m \in AdminRecord
  BY TypeParts DEF AdminRefs, ClosingAdmin, CloseReturns, FinishClose, CallersOK
<1>2. client \in [Clients -> ClientRecord]
  BY TypeParts DEF ClientsOK
<1>3. pool' = [pool EXCEPT ![m.key] = None] /\ UNCHANGED <<uploads, file, req, overlap>>
  BY DEF CloseReturns, FinishClose
<1>4. TableOK'
  <2>1. account' = account \/ account' = [account EXCEPT ![m.email] = Absent]
    BY DEF CloseReturns, FinishClose
  <2>2. RowsOK'
    BY <2>1, TypeParts, RowMoves, Blanks DEF TableOK, RowsOK
  <2> QED
    BY <1>3, <2>2, TypeParts DEF TableOK
<1>5. CASE pool[m.key] # None /\ m.then \notin {None, m.key} /\ pool[m.then] # None
  <2> DEFINE d == pool[m.then]
  <2>1. m.then \in Keys /\ d \in Clients
    BY <1>1, <1>5, TypeParts DEF AdminRecord, ClientsOK
  <2>2. /\ admin' = [admin EXCEPT ![a] = [m EXCEPT !.key = m.then, !.then = None, !.client = d]]
        /\ client' = [client EXCEPT ![d] = [client[d] EXCEPT !.at = IF client[d].at = "open"
                                              THEN "closing" ELSE client[d].at]]
    BY <1>2, <1>5, <2>1, TypeParts DEF CloseReturns, FinishClose, CallersOK
  <2>3. [m EXCEPT !.key = m.then, !.then = None, !.client = d] \in AdminRecord
    BY <1>1, <2>1 DEF AdminRecord
  <2>4. \A at \in {"closing", client[d].at} : [client[d] EXCEPT !.at = at] \in ClientRecord
    BY <1>2, <2>1 DEF ClientRecord
  <2>5. CallersOK'
    BY <1>3, <2>2, <2>3, TypeParts DEF CallersOK
  <2>6. ClientsOK'
    BY <1>2, <1>3, <2>2, <2>4, TypeParts DEF ClientsOK
  <2> QED
    BY <1>4, <2>5, <2>6, TypeParts
<1>6. CASE ~(pool[m.key] # None /\ m.then \notin {None, m.key} /\ pool[m.then] # None)
  <2>1. admin' = [admin EXCEPT ![a] = IdleAdmin] /\ client' = client
    BY <1>6 DEF CloseReturns, FinishClose
  <2>2. IdleAdmin \in AdminRecord
    BY PoolAssumption DEF IdleAdmin, AdminRecord
  <2> QED
    BY <1>2, <1>3, <1>4, <2>1, <2>2, TypeParts DEF CallersOK, ClientsOK
<1> QED
  BY <1>5, <1>6

LEMMA ClientTypeOK ==
  ASSUME TypeOK, \/ \E a \in Admins : CloseDrains(a) \/ ClientCloses(a)
                 \/ \E c \in Clients : Collect(c)
                 \/ Restart
                 \/ UNCHANGED vars
  PROVE  TypeOK'
<1>1. \A c \in Clients, at \in {"draining", "closed"} : [client[c] EXCEPT !.at = at] \in ClientRecord
  BY TypeParts DEF ClientsOK, ClientRecord
<1>2. IdleReq \in ReqRecord /\ IdleAdmin \in AdminRecord
  BY PoolAssumption DEF IdleReq, IdleAdmin, ReqRecord, AdminRecord
<1>3. TableOK'
  BY TypeParts, Untouched DEF CloseDrains, Collect, ClientCloses, Restart, vars
<1>4. ClientsOK'
  <2>1. ASSUME NEW a \in Admins, CloseDrains(a) \/ ClientCloses(a) PROVE ClientsOK'
    BY <1>1, <2>1, TypeParts DEF ClientsOK, CloseDrains, ClientCloses
  <2>2. ASSUME NEW c \in Clients, Collect(c) PROVE ClientsOK'
    BY <2>2, Blanks, TypeParts DEF ClientsOK, Collect
  <2>3. CASE Restart
    BY <2>3, Blanks, TypeParts DEF ClientsOK, Restart
  <2>4. CASE UNCHANGED vars
    BY <2>4, TypeParts DEF ClientsOK, vars
  <2> QED
    BY <2>1, <2>2, <2>3, <2>4
<1>5. CallersOK'
  BY <1>2, TypeParts DEF CallersOK, CloseDrains, Collect, ClientCloses, Restart, vars
<1> QED
  BY <1>3, <1>4, <1>5, TypeParts

LEMMA NextTypeOK ==
  ASSUME TypeOK, PoolRefs, ReqRefs, AdminRefs, [Next]_vars
  PROVE  TypeOK'
BY ReqTypeOK, HitTypeOK, MissTypeOK, OpenedTypeOK, OpenFailedTypeOK, RotateTypeOK,
   UploadTypeOK, DeleteTypeOK, StatusTypeOK, ChangeKeyTypeOK, FinishTypeOK, ClientTypeOK
   DEF Next, ReqProgress

-----------------------------------------------------------------------------
(* Who refers to which client. *)

Refs == PoolRefs /\ ReqRefs /\ AdminRefs

(* A step of a request that only moves the request. *)
LEMMA ReqRefsStep ==
  ASSUME TypeOK, Refs, NEW r \in Requests,
         \/ \E k \in Keys : ReqAuth(r, k)
         \/ ReqUnauthorized(r) \/ ReqCall(r) \/ ReqCallEnds(r) \/ ReqDone(r) \/ ReqHit(r)
  PROVE  Refs'
<1>1. UNCHANGED <<pool, client, admin>>
  BY DEF ReqAuth, ReqUnauthorized, ReqCall, BeginCall, ReqCallEnds, ReqDone, ReqHit
<1>2. PoolRefs' /\ AdminRefs'
  BY <1>1 DEF Refs, PoolRefs, InHand, AdminRefs, ClosingAdmin
<1>3. req \in [Requests -> ReqRecord]
  BY TypeParts DEF CallersOK
<1>4. \A s \in Requests \ {r} : req'[s] = req[s]
  BY <1>3 DEF ReqAuth, ReqUnauthorized, ReqCall, BeginCall, ReqCallEnds, ReqDone, ReqHit
<1>5. /\ req'[r].at # "opening"
      /\ req'[r].at # "idle" => req'[r].key \in Keys
      /\ req'[r].at \in {"serving", "calling"} =>
           req'[r].client \in Clients /\ client[req'[r].client].at \in Live \cup {"closed"}
  <2>1. CASE \E k \in Keys : ReqAuth(r, k)
    BY <1>3, <2>1 DEF ReqAuth
  <2>2. CASE ReqUnauthorized(r) \/ ReqDone(r)
    BY <1>3, <2>2 DEF ReqUnauthorized, ReqDone, IdleReq
  <2>3. CASE ReqCall(r) \/ ReqCallEnds(r)
    BY <1>3, <2>3 DEF ReqCall, BeginCall, ReqCallEnds, IdleReq, Refs, ReqRefs, ReqRecord
  <2>4. CASE ReqHit(r)
    <3> DEFINE c == pool[req[r].key]
    <3>1. req[r].key \in Keys /\ c # None
      BY <2>4 DEF ReqHit, Refs, ReqRefs
    <3>2. c \in Clients /\ client[c].at \in Live \cup {"closed"}
      BY <3>1, TypeParts DEF ClientsOK, Refs, PoolRefs
    <3>3. req'[r] = [req[r] EXCEPT !.at = "serving", !.client = c]
      BY <1>3, <2>4 DEF ReqHit
    <3> QED
      BY <1>3, <3>1, <3>2, <3>3 DEF ReqRecord
  <2> QED
    BY <2>1, <2>2, <2>3, <2>4
<1>6. ReqRefs'
  BY <1>1, <1>4, <1>5 DEF Refs, ReqRefs, OpeningReq
<1> QED
  BY <1>2, <1>6 DEF Refs

LEMMA MissRefs ==
  ASSUME TypeOK, Refs, NEW r \in Requests, ReqMiss(r)
  PROVE  Refs'
<1>1. PICK e \in Active(req[r].key), c \in Clients :
        /\ client[c].at = "unused"
        /\ client' = [client EXCEPT ![c] = [at |-> "opening", email |-> e,
                                            state |-> account[e].state]]
        /\ req' = [req EXCEPT ![r].at = "opening", ![r].client = c]
  BY DEF ReqMiss, MissWith, Active, Owner
<1>2. e \in Emails /\ req \in [Requests -> ReqRecord] /\ client \in [Clients -> ClientRecord]
  BY TypeParts DEF CallersOK, ClientsOK, Active, Owner
<1>3. UNCHANGED <<pool, admin>> /\ req[r].key \in Keys
  BY DEF ReqMiss, MissWith, Refs, ReqRefs
<1>4. /\ client'[c].at = "opening" /\ client'[c].email \in Emails
      /\ \A d \in Clients \ {c} : client'[d] = client[d]
      /\ req'[r].at = "opening" /\ req'[r].client = c /\ req'[r].key = req[r].key
      /\ \A s \in Requests \ {r} : req'[s] = req[s]
  BY <1>1, <1>2 DEF ReqRecord
<1>5. /\ \A k \in Keys : pool[k] # c
      /\ \A s \in Requests : req[s].at \in {"opening", "serving", "calling"} => req[s].client # c
      /\ \A a \in Admins : ClosingAdmin(a) => admin[a].client # c
  BY <1>1, PoolAssumption DEF Refs, PoolRefs, ReqRefs, AdminRefs, Live, OpeningReq
<1>6. PoolRefs'
  BY <1>3, <1>4, <1>5, TypeParts DEF Refs, PoolRefs, InHand, ClosingAdmin, Live, ClientsOK
<1>7. ReqRefs'
  BY <1>2, <1>3, <1>4, <1>5 DEF Refs, ReqRefs, OpeningReq, ReqRecord
<1>8. AdminRefs'
  BY <1>3, <1>4, <1>5 DEF Refs, AdminRefs, ClosingAdmin
<1> QED
  BY <1>6, <1>7, <1>8 DEF Refs

LEMMA OpenedRefs ==
  ASSUME TypeOK, Refs, NEW r \in Requests, ReqOpened(r)
  PROVE  Refs'
<1> DEFINE c == req[r].client
           l == req[r].key
<1>1. c \in Clients /\ client[c].at = "opening" /\ l \in Keys
  BY DEF ReqOpened, Refs, ReqRefs, OpeningReq
<1>2. /\ pool \in [Keys -> Clients \cup {None}] /\ client \in [Clients -> ClientRecord]
      /\ req \in [Requests -> ReqRecord]
  BY TypeParts DEF CallersOK, ClientsOK
<1>3. /\ client'[c].at = "open" /\ client'[c].email = client[c].email
      /\ \A d \in Clients \ {c} : client'[d] = client[d]
      /\ pool'[l] = c /\ \A k \in Keys \ {l} : pool'[k] = pool[k]
      /\ req'[r].at = "serving" /\ req'[r].client = c /\ req'[r].key = l
      /\ \A s \in Requests \ {r} : req'[s] = req[s]
      /\ admin' = admin
  BY <1>1, <1>2 DEF ReqOpened, ReqRecord, ClientRecord
<1>4. /\ \A k \in Keys : pool[k] # c
      /\ \A s \in Requests \ {r} : req[s].at \in {"opening", "serving", "calling"} => req[s].client # c
      /\ \A a \in Admins : ClosingAdmin(a) => admin[a].client # c
  BY <1>1, PoolAssumption DEF Refs, PoolRefs, ReqRefs, AdminRefs, Live, OpeningReq, ReqOpened
<1>5. PoolRefs'
  BY <1>1, <1>2, <1>3, <1>4, PoolAssumption DEF Refs, PoolRefs, InHand, ClosingAdmin, Live
<1>6. ReqRefs'
  BY <1>1, <1>3, <1>4 DEF Refs, ReqRefs, OpeningReq, Live
<1>7. AdminRefs'
  BY <1>3, <1>4 DEF Refs, AdminRefs, ClosingAdmin
<1> QED
  BY <1>5, <1>6, <1>7 DEF Refs

LEMMA OpenFailedRefs ==
  ASSUME TypeOK, Refs, NEW r \in Requests, ReqOpenFailed(r)
  PROVE  Refs'
<1> DEFINE c == req[r].client
<1>1. c \in Clients /\ client[c].at = "opening"
  BY DEF ReqOpenFailed, Refs, ReqRefs, OpeningReq
<1>2. client \in [Clients -> ClientRecord] /\ req \in [Requests -> ReqRecord]
  BY TypeParts DEF CallersOK, ClientsOK
<1>3. /\ client'[c].at = "unused"
      /\ \A d \in Clients \ {c} : client'[d] = client[d]
      /\ req'[r].at = "idle"
      /\ \A s \in Requests \ {r} : req'[s] = req[s]
      /\ UNCHANGED <<pool, admin>>
  BY <1>1, <1>2, Blanks DEF ReqOpenFailed, IdleReq
<1>4. /\ \A k \in Keys : pool[k] # c
      /\ \A s \in Requests \ {r} : req[s].at \in {"opening", "serving", "calling"} => req[s].client # c
      /\ \A a \in Admins : ClosingAdmin(a) => admin[a].client # c
  BY <1>1, PoolAssumption DEF Refs, PoolRefs, ReqRefs, AdminRefs, Live, OpeningReq, ReqOpenFailed
<1>5. PoolRefs'
  BY <1>3, <1>4, TypeParts DEF Refs, PoolRefs, InHand, ClosingAdmin, Live, ClientsOK
<1>6. ReqRefs'
  BY <1>3, <1>4 DEF Refs, ReqRefs, OpeningReq
<1>7. AdminRefs'
  BY <1>3, <1>4 DEF Refs, AdminRefs, ClosingAdmin
<1> QED
  BY <1>5, <1>6, <1>7 DEF Refs

(* Clients change, but none comes to life or stops being what those who    *)
(* refer to it take it for.                                                *)
LEMMA ClientsChange ==
  ASSUME Refs, UNCHANGED <<pool, req, admin>>,
         \A c \in Clients :
           /\ client[c].at \in Live =>
                \/ client'[c].at \in Live
                \/ /\ client'[c].at = "closed"
                   /\ \E a \in Admins : ClosingAdmin(a) /\ admin[a].client = c
           /\ client[c].at = "opening" => client'[c].at = "opening"
           /\ client[c].at \in {"closing", "draining"} =>
                client'[c].at \in {"closing", "draining", "closed"}
           /\ client[c].at = "closed" =>
                client'[c].at = "closed" \/ \A r \in Requests : req[r].client # c
           /\ client[c].at = "closed" =>
                client'[c].at = "closed" \/ \A a \in Admins : admin[a].client # c
           /\ client[c].at = "closed" =>
                client'[c].at = "closed" \/ \A k \in Keys : pool[k] # c
           /\ client'[c].at \in Live \cup {"opening", "closed"} =>
                /\ client[c].at \in Live \cup {"opening", "closed"}
                /\ client'[c].email = client[c].email,
         pool \in [Keys -> Clients \cup {None}]
  PROVE  Refs'
<1>1. PoolRefs'
  <2>1. ASSUME NEW k \in Keys, pool[k] # None
        PROVE  \/ client'[pool[k]].at \in Live
               \/ client'[pool[k]].at = "closed" /\ InHand(k)'
    <3>1. pool[k] \in Clients
      BY <2>1
    <3>2. CASE client[pool[k]].at \in Live
      BY <2>1, <3>1, <3>2 DEF Refs, AdminRefs, InHand, ClosingAdmin
    <3>3. CASE client[pool[k]].at = "closed" /\ InHand(k)
      BY <2>1, <3>1, <3>3 DEF InHand, ClosingAdmin
    <3> QED
      BY <2>1, <3>2, <3>3 DEF Refs, PoolRefs
  <2> QED
    BY <2>1 DEF Refs, PoolRefs
<1>2. ReqRefs'
  BY DEF Refs, ReqRefs, OpeningReq, Live
<1>3. AdminRefs'
  BY DEF Refs, AdminRefs, ClosingAdmin
<1> QED
  BY <1>1, <1>2, <1>3 DEF Refs

LEMMA ClientRefs ==
  ASSUME TypeOK, Refs,
         \/ \E c \in Clients : Rotate(c) \/ Collect(c)
         \/ \E a \in Admins : CloseDrains(a) \/ ClientCloses(a)
  PROVE  Refs'
<1>1. UNCHANGED <<pool, req, admin>> /\ pool \in [Keys -> Clients \cup {None}]
  BY TypeParts DEF Rotate, Collect, CloseDrains, ClientCloses, ClientsOK
<1>2. client \in [Clients -> ClientRecord]
  BY TypeParts DEF ClientsOK
<1>3. ASSUME NEW c \in Clients, Rotate(c) PROVE Refs'
  <2>1. \A d \in Clients : client'[d].at = client[d].at /\ client'[d].email = client[d].email
    BY <1>2, <1>3 DEF Rotate, ClientRecord
  <2> QED
    BY <1>1, <2>1, ClientsChange DEF Live
<1>4. ASSUME NEW c \in Clients, Collect(c) PROVE Refs'
  <2>1. /\ \A d \in Clients \ {c} : client'[d] = client[d]
        /\ client[c].at = "closed" /\ client'[c].at = "unused"
        /\ \A k \in Keys : pool[k] # c
        /\ \A r \in Requests : req[r].client # c
        /\ \A a \in Admins : admin[a].client # c
    BY <1>2, <1>4, Blanks DEF Collect
  <2> QED
    BY <1>1, <2>1, ClientsChange DEF Live
<1>5. ASSUME NEW a \in Admins, CloseDrains(a) PROVE Refs'
  <2> DEFINE c == admin[a].client
  <2>1. c \in Clients /\ client[c].at = "closing"
    BY <1>5 DEF CloseDrains, Refs, AdminRefs, ClosingAdmin
  <2>2. /\ \A d \in Clients \ {c} : client'[d] = client[d]
        /\ client'[c].at = "draining" /\ client'[c].email = client[c].email
    BY <1>2, <1>5, <2>1 DEF CloseDrains, ClientRecord
  <2> QED
    BY <1>1, <2>1, <2>2, ClientsChange DEF Live
<1>6. ASSUME NEW a \in Admins, ClientCloses(a) PROVE Refs'
  <2> DEFINE c == admin[a].client
  <2>1. c \in Clients /\ client[c].at = "draining" /\ ClosingAdmin(a)
    BY <1>6 DEF ClientCloses, Refs, AdminRefs, ClosingAdmin
  <2>2. /\ \A d \in Clients \ {c} : client'[d] = client[d]
        /\ client'[c].at = "closed" /\ client'[c].email = client[c].email
    BY <1>2, <1>6, <2>1 DEF ClientCloses, ClientRecord
  <2> QED
    BY <1>1, <2>1, <2>2, ClientsChange DEF Live
<1> QED
  BY <1>3, <1>4, <1>5, <1>6

LEMMA CloseKeyRefs ==
  ASSUME TypeOK, Refs, NEW a \in Admins, NEW op, NEW e \in Emails, NEW k \in Keys, NEW then,
         ~ClosingAdmin(a), pool[k] # None, CloseKey(a, op, e, k, then), UNCHANGED <<pool, req>>
  PROVE  Refs'
<1> DEFINE c == pool[k]
<1>1. c \in Clients /\ client[c].at \in Live \cup {"closed"}
  BY TypeParts DEF ClientsOK, Refs, PoolRefs
<1>2. client \in [Clients -> ClientRecord] /\ admin \in [Admins -> AdminRecord]
  BY TypeParts DEF ClientsOK, CallersOK
<1>3. /\ \A d \in Clients \ {c} : client'[d] = client[d]
      /\ client'[c].at = IF client[c].at = "open" THEN "closing" ELSE client[c].at
      /\ client'[c].email = client[c].email
      /\ \A b \in Admins \ {a} : admin'[b] = admin[b]
      /\ admin'[a].client = c /\ admin'[a].key = k /\ admin'[a].email = e
  BY <1>1, <1>2 DEF CloseKey, ClientRecord
<1>4. PoolRefs'
  BY <1>1, <1>3, TypeParts DEF Refs, PoolRefs, InHand, ClosingAdmin, Live, ClientsOK
<1>5. ReqRefs'
  BY <1>1, <1>3 DEF Refs, ReqRefs, OpeningReq, Live
<1>6. AdminRefs'
  BY <1>1, <1>3 DEF Refs, AdminRefs, PoolRefs, ClosingAdmin, Live
<1> QED
  BY <1>4, <1>5, <1>6 DEF Refs

LEMMA AdminStartRefs ==
  ASSUME TypeOK, Refs, NEW a \in Admins, NEW e \in Emails,
         \/ DeleteStart(a, e)
         \/ \E k \in Keys : UploadStart(a, e, k) \/ ChangeKeyStart(a, e, k)
         \/ \E st \in {"active", "expired"} : SetStatus(a, e, st)
  PROVE  Refs'
<1>1. UNCHANGED <<pool, req>> /\ ~ClosingAdmin(a)
  BY DEF DeleteStart, UploadStart, SaveRow, ChangeKeyStart, SetStatus, MayStart, ClosingAdmin
<1>2. account[e].key \in Keys \cup {None}
  BY TypeParts DEF TableOK, RowsOK, Row
<1>3. \/ UNCHANGED <<client, admin>>
      \/ \E op, then : \E k \in Keys : pool[k] # None /\ CloseKey(a, op, e, k, then)
  <2>1. CASE DeleteStart(a, e)
    BY <1>2, <2>1 DEF DeleteStart
  <2>2. ASSUME NEW k \in Keys, UploadStart(a, e, k)
        PROVE  <1>3!1 \/ <1>3!2
    BY <2>2 DEF UploadStart
  <2>3. ASSUME NEW k \in Keys, ChangeKeyStart(a, e, k)
        PROVE  <1>3!1 \/ <1>3!2
    BY <1>2, <2>3 DEF ChangeKeyStart
  <2>4. ASSUME NEW st, SetStatus(a, e, st) PROVE UNCHANGED <<client, admin>>
    BY <2>4 DEF SetStatus
  <2> QED
    BY <2>1, <2>2, <2>3, <2>4
<1>4. CASE UNCHANGED <<client, admin>>
  BY <1>1, <1>4 DEF Refs, PoolRefs, InHand, ReqRefs, AdminRefs, OpeningReq, ClosingAdmin
<1>5. CASE \E op, then : \E k \in Keys : pool[k] # None /\ CloseKey(a, op, e, k, then)
  BY <1>1, <1>5, CloseKeyRefs
<1> QED
  BY <1>3, <1>4, <1>5

LEMMA FinishRefs ==
  ASSUME TypeOK, Refs, NEW a \in Admins, CloseReturns(a)
  PROVE  Refs'
<1> DEFINE m == admin[a]
           c == m.client
           more == pool[m.key] # None /\ m.then \notin {None, m.key} /\ pool[m.then] # None
           d == pool[m.then]
<1>1. /\ c \in Clients /\ m.key \in Keys /\ m.email \in Emails /\ m \in AdminRecord
      /\ \A k \in Keys : pool[k] = c => k = m.key
      /\ client[c].at = "closed"
  BY TypeParts DEF Refs, AdminRefs, ClosingAdmin, CloseReturns, FinishClose, CallersOK
<1>2. /\ pool \in [Keys -> Clients \cup {None}] /\ client \in [Clients -> ClientRecord]
      /\ admin \in [Admins -> AdminRecord]
  BY TypeParts DEF ClientsOK, CallersOK
<1>3. /\ pool'[m.key] = None /\ \A k \in Keys \ {m.key} : pool'[k] = pool[k]
      /\ req' = req /\ \A b \in Admins \ {a} : admin'[b] = admin[b]
  BY <1>1, <1>2 DEF CloseReturns, FinishClose
<1>4. \A k \in Keys : pool'[k] # c
  BY <1>1, <1>3, PoolAssumption
<1>5. more => m.then \in Keys /\ d \in Clients /\ d # c /\ client[d].at \in Live \cup {"closed"}
  BY <1>1, <1>2 DEF AdminRecord, Refs, PoolRefs
<1>6. /\ client'[c].at = "closed"
      /\ \A x \in Clients \ {c} : /\ client'[x].email = client[x].email
                                  /\ \/ client'[x].at = client[x].at
                                     \/ more /\ x = d /\ client[x].at = "open" /\ client'[x].at = "closing"
      /\ client'[c].email = client[c].email
  <2>1. CASE more
    BY <1>1, <1>2, <1>5, <2>1, Blanks DEF CloseReturns, FinishClose, ClientRecord
  <2>2. CASE ~more
    BY <1>1, <1>2, <2>2, Blanks DEF CloseReturns, FinishClose
  <2> QED
    BY <2>1, <2>2
<1>7. IF more THEN admin'[a].at = m.at /\ admin'[a].client = d /\ admin'[a].key = m.then
                   /\ admin'[a].email = m.email /\ client'[d].at \in {"closing", "draining", "closed"}
              ELSE admin'[a].at = "idle"
  <2>1. CASE more
    BY <1>1, <1>2, <1>5, <2>1 DEF CloseReturns, FinishClose, ClientRecord, AdminRecord, Live
  <2>2. CASE ~more
    BY <1>2, <2>2 DEF CloseReturns, FinishClose, IdleAdmin
  <2> QED
    BY <2>1, <2>2
<1> HIDE DEF more
<1>8. PoolRefs'
  <2>1. ASSUME NEW k \in Keys, pool'[k] # None
        PROVE  \/ client'[pool'[k]].at \in Live
               \/ client'[pool'[k]].at = "closed" /\ InHand(k)'
    <3>1. k # m.key /\ pool'[k] = pool[k] /\ pool[k] \in Clients \ {c}
      BY <1>1, <1>2, <1>3, <2>1
    <3>2. CASE client[pool[k]].at \in Live
      BY <1>6, <3>1, <3>2 DEF Live
    <3>3. CASE client[pool[k]].at = "closed" /\ InHand(k)
      <4>1. PICK b \in Admins : ClosingAdmin(b) /\ admin[b].key = k /\ admin[b].client = pool[k]
        BY <3>3 DEF InHand
      <4>2. admin'[b] = admin[b]
        BY <1>3, <3>1, <4>1
      <4> QED
        BY <1>6, <3>1, <3>3, <4>1, <4>2 DEF InHand, ClosingAdmin
    <3> QED
      BY <2>1, <3>1, <3>2, <3>3 DEF Refs, PoolRefs
  <2> QED
    BY <1>1, <1>2, <1>3, <1>6, <2>1 DEF Refs, PoolRefs, Live
<1>9. ReqRefs'
  BY <1>1, <1>3, <1>6 DEF Refs, ReqRefs, OpeningReq, Live
<1>10. AdminRefs'
  <2> SUFFICES ASSUME NEW b \in Admins, admin'[b].at = "closing"
               PROVE  /\ admin'[b].client \in Clients /\ admin'[b].key \in Keys
                      /\ admin'[b].email \in Emails
                      /\ client'[admin'[b].client].at \in {"closing", "draining", "closed"}
                      /\ \A k \in Keys : pool'[k] = admin'[b].client => k = admin'[b].key
    BY DEF AdminRefs, ClosingAdmin
  <2>1. CASE b = a
    <3>1. more /\ admin'[a].client = d /\ admin'[a].key = m.then /\ admin'[a].email = m.email
      BY <1>7, <2>1
    <3>2. \A k \in Keys : pool'[k] = d => k = m.then
      BY <1>1, <1>2, <1>3, <1>5, <3>1, PoolAssumption DEF Refs, PoolRefs
    <3> QED
      BY <1>1, <1>5, <1>7, <2>1, <3>1, <3>2
  <2>2. CASE b # a
    <3>1. admin'[b] = admin[b] /\ admin[b].client \in Clients /\ admin[b].client # None
      BY <1>3, <2>2, PoolAssumption DEF Refs, AdminRefs, ClosingAdmin
    <3> QED
      BY <1>3, <1>6, <2>2, <3>1 DEF Refs, AdminRefs, ClosingAdmin
  <2> QED
    BY <2>1, <2>2
<1> QED
  BY <1>8, <1>9, <1>10 DEF Refs

LEMMA NextRefs ==
  ASSUME TypeOK, Refs, [Next]_vars
  PROVE  Refs'
<1>1. CASE Restart
  BY <1>1, Blanks DEF Restart, Refs, PoolRefs, ReqRefs, AdminRefs, OpeningReq, ClosingAdmin,
     IdleReq, IdleAdmin, Live
<1>2. CASE UNCHANGED vars
  BY <1>2 DEF vars, Refs, PoolRefs, InHand, ReqRefs, AdminRefs, OpeningReq, ClosingAdmin
<1> QED
  BY <1>1, <1>2, ReqRefsStep, MissRefs, OpenedRefs, OpenFailedRefs, ClientRefs,
     AdminStartRefs, FinishRefs DEF Next, ReqProgress

-----------------------------------------------------------------------------
(* Keys are unique. *)

LEMMA NextKeys ==
  ASSUME TypeOK, KeysAreUnique, [Next]_vars
  PROVE  KeysAreUnique'
<1>1. account \in [Emails -> Row]
  BY TypeParts DEF TableOK, RowsOK
<1>2. ASSUME \A e \in Emails : account'[e].key = account[e].key \/ account'[e].key = None
      PROVE  KeysAreUnique'
  BY <1>2 DEF KeysAreUnique
<1>3. ASSUME NEW e \in Emails, NEW k \in Keys, Owner(k) \subseteq {e},
             account'[e].key = k, \A f \in Emails \ {e} : account'[f] = account[f]
      PROVE  KeysAreUnique'
  BY <1>3 DEF KeysAreUnique, Owner
<1>4. ASSUME NEW a \in Admins, NEW e \in Emails, NEW k \in Keys,
             UploadStart(a, e, k) \/ ChangeKeyStart(a, e, k)
      PROVE  KeysAreUnique'
  BY <1>1, <1>3, <1>4 DEF UploadStart, SaveRow, ChangeKeyStart, Row
<1>5. ASSUME NEW e, \/ account' = [account EXCEPT ![e] = Absent]
                    \/ account' = [account EXCEPT ![e].state = file[e]]
                    \/ \E st : account' = [account EXCEPT ![e].status = st]
                    \/ account' = [account EXCEPT ![e] = Expire(account[e])]
                    \/ account' = account
      PROVE  KeysAreUnique'
  BY <1>1, <1>2, <1>5, Blanks DEF Row, Expire
<1>6. ASSUME NEW r \in Requests, ReqProgress(r) \/ \E k \in Keys : ReqAuth(r, k)
      PROVE  KeysAreUnique'
  BY <1>5, <1>6 DEF ReqProgress, ReqAuth, ReqHit, SyncBack, ReqMiss, MissWith, ReqUnauthorized,
     ReqOpened, ReqOpenFailed, ReqCall, BeginCall, ReqCallEnds, ReqDone
<1>7. ASSUME NEW a \in Admins, NEW e \in Emails, DeleteStart(a, e) PROVE KeysAreUnique'
  BY <1>5, <1>7 DEF DeleteStart
<1>8. ASSUME NEW a \in Admins, NEW e \in Emails, NEW st \in {"active", "expired"},
             SetStatus(a, e, st)
      PROVE  KeysAreUnique'
  BY <1>5, <1>8 DEF SetStatus
<1>9. ASSUME NEW a \in Admins, CloseReturns(a) PROVE KeysAreUnique'
  BY <1>5, <1>9 DEF CloseReturns, FinishClose
<1>10. CASE \/ \E c \in Clients : Rotate(c) \/ Collect(c)
            \/ \E a \in Admins : CloseDrains(a) \/ ClientCloses(a)
            \/ Restart \/ UNCHANGED vars
  <2>1. account' = account
    BY <1>10 DEF Rotate, Collect, CloseDrains, ClientCloses, Restart, vars
  <2> QED
    BY <1>2, <2>1
<1> QED
  BY <1>4, <1>6, <1>7, <1>8, <1>9, <1>10 DEF Next

-----------------------------------------------------------------------------
(* The table and the pool, as long as admin calls do not overlap.          *)

(* The upload of a row, and that of its file, move together or not at all. *)
UploadKept(e) ==
  file[e][1] = account[e].state[1] =>
    file'[e][1] = account[e].state[1] /\ account'[e].state[1] = account[e].state[1]

ClientKept(c) ==
  client'[c].email = client[c].email /\ client'[c].state[1] = client[c].state[1]

LEMMA CurrentKept ==
  ASSUME NEW c, NEW e, Current(c, e), ClientKept(c), UploadKept(e)
  PROVE  Current(c, e)'
BY DEF Current, ClientKept, UploadKept

LEMMA CalmKept ==
  ASSUME TypeOK, Refs, CalmInv, Calm, UNCHANGED <<pool, admin>>,
         \A e \in Emails : account'[e].key = account[e].key /\ UploadKept(e),
         \A k \in Keys : pool[k] # None => ClientKept(pool[k]),
         \A r \in Requests : req'[r].at = "opening" =>
           OpeningReq(r) /\ req'[r] = req[r] /\ ClientKept(req[r].client)
  PROVE  CalmInv'
<1>1. OneAdmin /\ OpensCurrent /\ ClosesPooled /\ PoolIsCurrent
  BY DEF CalmInv
<1>2. OneAdmin'
  BY <1>1 DEF OneAdmin, ClosingAdmin
<1>3. OpensCurrent'
  <2>1. ASSUME NEW r \in Requests, NEW c \in Clients, NEW e \in Emails,
               req'[r].at = "opening", c = req[r].client, e = client[c].email
        PROVE  /\ req'[r].client = c /\ client'[c].email = e
               /\ account'[e].key = req'[r].key /\ Current(c, e)'
    <3>1. /\ req'[r] = req[r] /\ OpeningReq(r) /\ ClientKept(c)
          /\ account[e].key = req[r].key /\ Current(c, e)
      BY <1>1, <2>1 DEF OpensCurrent
    <3>2. Current(c, e)'
      BY <3>1, CurrentKept
    <3> QED
      BY <2>1, <3>1, <3>2 DEF ClientKept
  <2>2. \A r \in Requests : req'[r].at = "opening" =>
          req[r].client \in Clients /\ client[req[r].client].email \in Emails
    BY DEF Refs, ReqRefs, PoolRefs, OpeningReq
  <2> QED
    BY <2>1, <2>2 DEF OpensCurrent, OpeningReq, Current
<1>4. ClosesPooled'
  <2> SUFFICES ASSUME NEW a \in Admins, ClosingAdmin(a)
               PROVE  /\ pool'[admin'[a].key] # None
                      /\ admin'[a].op = "delete" =>
                           /\ account'[admin'[a].email].key = admin'[a].key
                           /\ admin'[a].then = None
                           /\ \A r \in Requests : req'[r].at = "opening" => req'[r].key # admin'[a].key
    BY DEF ClosesPooled, ClosingAdmin, OpeningReq
  <2>1. pool[admin[a].key] # None /\ (admin[a].op = "delete" => admin[a].then = None)
    BY <1>1 DEF ClosesPooled
  <2>2. ASSUME admin[a].op = "delete" PROVE account'[admin[a].email].key = admin[a].key
    BY <1>1, <2>2 DEF ClosesPooled, Refs, AdminRefs
  <2> QED
    BY <1>1, <2>1, <2>2 DEF ClosesPooled
<1>5. PoolIsCurrent'
  <2> SUFFICES ASSUME NEW k \in Keys, NEW e \in Emails, account'[e].key = k, pool[k] # None
               PROVE  \/ Current(pool[k], e)'
                      \/ \E a \in Admins : ClosingAdmin(a) /\ k \in {admin[a].key, admin[a].then}
    BY DEF PoolIsCurrent, Owner, ClosingAdmin, Current
  <2>1. e \in Owner(k)
    BY DEF Owner
  <2> QED
    BY <1>1, <2>1, CurrentKept DEF PoolIsCurrent
<1> QED
  BY <1>2, <1>3, <1>4, <1>5 DEF CalmInv

LEMMA CalmReq ==
  ASSUME TypeOK, Refs, CalmInv, Calm, NEW r \in Requests,
         \/ \E k \in Keys : ReqAuth(r, k)
         \/ ReqUnauthorized(r) \/ ReqCall(r) \/ ReqCallEnds(r) \/ ReqDone(r)
  PROVE  CalmInv'
<1>1. UNCHANGED <<account, file, pool, client, admin>>
  BY DEF ReqAuth, ReqUnauthorized, ReqCall, BeginCall, ReqCallEnds, ReqDone
<1>2. /\ req'[r].at # "opening"
      /\ \A s \in Requests \ {r} : req'[s] = req[s]
  BY TypeParts DEF CallersOK, ReqRecord, ReqAuth, ReqUnauthorized, ReqCall, BeginCall,
     ReqCallEnds, ReqDone, IdleReq
<1> QED
  BY <1>1, <1>2, CalmKept DEF UploadKept, ClientKept, OpeningReq

LEMMA CalmHit ==
  ASSUME TypeOK, Refs, CalmInv, Calm, NEW r \in Requests, ReqHit(r)
  PROVE  CalmInv'
<1>1. account \in [Emails -> Row] /\ req \in [Requests -> ReqRecord]
  BY TypeParts DEF TableOK, RowsOK, CallersOK
<1>2. /\ req'[r].at # "opening"
      /\ \A s \in Requests \ {r} : req'[s] = req[s]
      /\ UNCHANGED <<file, pool, client, admin>>
  BY <1>1 DEF ReqHit, ReqRecord
<1>3. \A e \in Emails : account'[e].key = account[e].key /\ UploadKept(e)
  BY <1>1, <1>2 DEF ReqHit, SyncBack, UploadKept, Row
<1> QED
  BY <1>2, <1>3, CalmKept DEF ClientKept, OpeningReq

LEMMA CalmMiss ==
  ASSUME TypeOK, Refs, CalmInv, Calm, NEW r \in Requests, ReqMiss(r)
  PROVE  CalmInv'
<1>1. PICK e \in Active(req[r].key), c \in Clients :
        /\ client[c].at = "unused"
        /\ file' = [file EXCEPT ![e] = account[e].state]
        /\ client' = [client EXCEPT ![c] = [at |-> "opening", email |-> e,
                                            state |-> account[e].state]]
        /\ req' = [req EXCEPT ![r].at = "opening", ![r].client = c]
  BY DEF ReqMiss, MissWith, Active, Owner
<1>2. /\ e \in Emails /\ account[e].key = req[r].key /\ req[r].key \in Keys
      /\ pool[req[r].key] = None /\ UNCHANGED <<account, pool, admin>>
      /\ file \in [Emails -> StorageState] /\ client \in [Clients -> ClientRecord]
      /\ req \in [Requests -> ReqRecord]
  BY TypeParts DEF ReqMiss, MissWith, Active, Owner, TableOK, ClientsOK, CallersOK, Refs, ReqRefs
<1>3. /\ client'[c].email = e /\ client'[c].state = account[e].state /\ file'[e] = account[e].state
      /\ \A d \in Clients \ {c} : client'[d] = client[d]
      /\ req'[r].client = c /\ req'[r].key = req[r].key
      /\ \A s \in Requests \ {r} : req'[s] = req[s]
  BY <1>1, <1>2 DEF ReqRecord
<1>4. \A f \in Emails : UploadKept(f)
  BY <1>1, <1>2 DEF UploadKept
<1>5. /\ \A k \in Keys : pool[k] # c
      /\ \A s \in Requests : OpeningReq(s) => req[s].client # c
  BY <1>1, PoolAssumption DEF Refs, PoolRefs, ReqRefs, Live
<1>6. OneAdmin /\ OpensCurrent /\ ClosesPooled /\ PoolIsCurrent
  BY DEF CalmInv
<1>7. OneAdmin'
  BY <1>2, <1>6 DEF OneAdmin, ClosingAdmin
<1>8. OpensCurrent'
  <2>1. ASSUME NEW s \in Requests \ {r}, NEW d \in Clients, NEW f \in Emails,
               req'[s].at = "opening", d = req[s].client, f = client[d].email
        PROVE  /\ req'[s].client = d /\ client'[d].email = f
               /\ account'[f].key = req'[s].key /\ Current(d, f)'
    <3>1. req'[s] = req[s] /\ OpeningReq(s) /\ ClientKept(d) /\ client'[d] = client[d]
      BY <1>3, <1>5, <2>1 DEF OpeningReq, ClientKept
    <3>2. account[f].key = req[s].key /\ Current(d, f)
      BY <1>6, <2>1, <3>1 DEF OpensCurrent
    <3> QED
      BY <1>2, <1>4, <2>1, <3>1, <3>2, CurrentKept
  <2>2. \A s \in Requests \ {r} : req'[s].at = "opening" =>
          req[s].client \in Clients /\ client[req[s].client].email \in Emails
    BY <1>3 DEF Refs, ReqRefs, PoolRefs, OpeningReq
  <2> QED
    BY <1>2, <1>3, <2>1, <2>2 DEF OpensCurrent, OpeningReq, Current
<1>9. ClosesPooled'
  BY <1>2, <1>3, <1>6 DEF ClosesPooled, ClosingAdmin, OpeningReq
<1>10. PoolIsCurrent'
  <2> SUFFICES ASSUME NEW k \in Keys, NEW f \in Emails, account[f].key = k, pool[k] # None
               PROVE  \/ Current(pool[k], f)'
                      \/ \E a \in Admins : ClosingAdmin(a) /\ k \in {admin[a].key, admin[a].then}
    BY <1>2 DEF PoolIsCurrent, Owner, ClosingAdmin, Current
  <2>1. f \in Owner(k)
    BY DEF Owner
  <2>2. pool[k] \in Clients \ {c} /\ ClientKept(pool[k])
    BY <1>3, <1>5, TypeParts DEF ClientsOK, ClientKept
  <2>3. CASE Current(pool[k], f)
    <3>1. PICK d \in Clients : d = pool[k]
      BY <2>2
    <3>2. Current(d, f)'
      BY <1>4, <2>2, <2>3, <3>1, CurrentKept
    <3> QED
      BY <1>2, <3>1, <3>2 DEF Current
  <2> QED
    BY <1>6, <2>1, <2>3 DEF PoolIsCurrent
<1> QED
  BY <1>7, <1>8, <1>9, <1>10 DEF CalmInv

LEMMA CalmOpened ==
  ASSUME TypeOK, Refs, KeysAreUnique, CalmInv, Calm, NEW r \in Requests, ReqOpened(r)
  PROVE  CalmInv'
<1>1. PICK c \in Clients, k \in Keys : c = req[r].client /\ k = req[r].key
  BY DEF ReqOpened, Refs, ReqRefs, OpeningReq
<1>2. /\ client \in [Clients -> ClientRecord] /\ req \in [Requests -> ReqRecord]
      /\ pool \in [Keys -> Clients \cup {None}] /\ c # None
  BY TypeParts, PoolAssumption DEF ClientsOK, CallersOK
<1>3. /\ \A d \in Clients : client'[d].email = client[d].email /\ client'[d].state = client[d].state
      /\ pool'[k] = c /\ \A l \in Keys \ {k} : pool'[l] = pool[l]
      /\ req'[r].at = "serving" /\ \A s \in Requests \ {r} : req'[s] = req[s]
      /\ UNCHANGED <<account, file, admin>>
  BY <1>1, <1>2 DEF ReqOpened, ClientRecord, ReqRecord
<1>4. OneAdmin /\ OpensCurrent /\ ClosesPooled /\ PoolIsCurrent
  BY DEF CalmInv
<1>5. OneAdmin'
  BY <1>3, <1>4 DEF OneAdmin, ClosingAdmin
<1>6. OpensCurrent'
  BY <1>3, <1>4 DEF OpensCurrent, OpeningReq, Current, Refs, ReqRefs
<1>7. ClosesPooled'
  BY <1>2, <1>3, <1>4 DEF ClosesPooled, ClosingAdmin, OpeningReq, Refs, AdminRefs
<1>8. PoolIsCurrent'
  <2> SUFFICES ASSUME NEW l \in Keys, NEW f \in Emails, account[f].key = l, pool'[l] # None
               PROVE  \/ Current(pool[l], f)' /\ pool'[l] = pool[l]
                      \/ pool'[l] = c /\ Current(c, f)'
                      \/ \E a \in Admins : ClosingAdmin(a) /\ l \in {admin[a].key, admin[a].then}
    BY <1>3 DEF PoolIsCurrent, Owner, ClosingAdmin, Current
  <2>1. f \in Owner(l) /\ account[f].key # None
    BY PoolAssumption DEF Owner
  <2>2. CASE l = k
    <3>1. client[c].email \in Emails /\ account[client[c].email].key = k /\ Current(c, client[c].email)
      BY <1>1, <1>4 DEF OpensCurrent, ReqOpened, OpeningReq, Refs, ReqRefs, PoolRefs
    <3>2. client[c].email = f
      BY <2>1, <2>2, <3>1 DEF KeysAreUnique
    <3> QED
      BY <1>3, <2>2, <3>1, <3>2 DEF Current
  <2>3. CASE l # k
    BY <1>2, <1>3, <1>4, <2>1, <2>3 DEF PoolIsCurrent, Current
  <2> QED
    BY <2>2, <2>3
<1> QED
  BY <1>5, <1>6, <1>7, <1>8 DEF CalmInv

LEMMA CalmOpenFailed ==
  ASSUME TypeOK, Refs, CalmInv, Calm, NEW r \in Requests, ReqOpenFailed(r)
  PROVE  CalmInv'
<1>1. /\ account \in [Emails -> Row] /\ client \in [Clients -> ClientRecord]
      /\ req \in [Requests -> ReqRecord]
  BY TypeParts DEF TableOK, RowsOK, ClientsOK, CallersOK
<1>2. PICK c \in Clients : c = req[r].client /\ client[c].at = "opening"
  BY DEF ReqOpenFailed, Refs, ReqRefs, OpeningReq
<1>3. /\ \A d \in Clients \ {c} : client'[d] = client[d]
      /\ req'[r].at = "idle" /\ \A s \in Requests \ {r} : req'[s] = req[s]
      /\ UNCHANGED <<file, pool, admin>>
      /\ \A e \in Emails : account'[e].key = account[e].key /\ account'[e].state = account[e].state
  BY <1>1, <1>2 DEF ReqOpenFailed, Expire, Row, IdleReq
<1>4. /\ \A k \in Keys : pool[k] # None => pool[k] \in Clients \ {c}
      /\ \A s \in Requests \ {r} : OpeningReq(s) => req[s].client \in Clients \ {c}
  BY <1>2, TypeParts DEF ClientsOK, Refs, PoolRefs, ReqRefs, Live, OpeningReq, ReqOpenFailed
<1>5. \A k \in Keys : pool[k] # None => ClientKept(pool[k])
  BY <1>3, <1>4 DEF ClientKept
<1>6. \A s \in Requests : req'[s].at = "opening" =>
        OpeningReq(s) /\ req'[s] = req[s] /\ ClientKept(req[s].client)
  BY <1>3, <1>4 DEF ClientKept, OpeningReq
<1> QED
  BY <1>3, <1>5, <1>6, CalmKept DEF UploadKept

LEMMA CalmClient ==
  ASSUME TypeOK, Refs, CalmInv, Calm,
         \/ \E c \in Clients : Rotate(c) \/ Collect(c)
         \/ \E a \in Admins : CloseDrains(a) \/ ClientCloses(a)
  PROVE  CalmInv'
<1>1. /\ file \in [Emails -> StorageState] /\ client \in [Clients -> ClientRecord]
      /\ UNCHANGED <<account, pool, req, admin>>
      /\ \A k \in Keys : pool[k] # None => pool[k] \in Clients
      /\ \A r \in Requests : OpeningReq(r) =>
           req[r].client \in Clients /\ client[req[r].client].at = "opening"
  BY TypeParts DEF TableOK, ClientsOK, Rotate, Collect, CloseDrains, ClientCloses, Refs, ReqRefs
<1>2. ASSUME NEW c \in Clients, Rotate(c) PROVE CalmInv'
  <2>1. \A d \in Clients : ClientKept(d)
    BY <1>1, <1>2 DEF Rotate, ClientKept, ClientRecord
  <2>2. \A e \in Emails : UploadKept(e)
    <3> SUFFICES ASSUME NEW e \in Emails PROVE file'[e][1] = file[e][1]
      BY <1>1 DEF UploadKept
    <3>1. file'[e] \in {file[e], <<client[c].state[1], client[c].state[2] + 1>>}
          /\ (file'[e] # file[e] => file[e] = client[c].state)
      BY <1>1, <1>2 DEF Rotate
    <3> QED
      BY <3>1
  <2> QED
    BY <1>1, <2>1, <2>2, CalmKept DEF OpeningReq
<1>3. ASSUME NEW c \in Clients, Collect(c) PROVE CalmInv'
  <2>1. \A d \in Clients \ {c} : ClientKept(d)
    BY <1>1, <1>3 DEF Collect, ClientKept
  <2>2. (\A k \in Keys : pool[k] # c) /\ client[c].at = "closed" /\ file' = file
    BY <1>3 DEF Collect
  <2> QED
    BY <1>1, <2>1, <2>2, CalmKept DEF OpeningReq, UploadKept
<1>4. ASSUME NEW a \in Admins, CloseDrains(a) \/ ClientCloses(a) PROVE CalmInv'
  <2>1. (\A d \in Clients : ClientKept(d)) /\ file' = file
    BY <1>1, <1>4 DEF CloseDrains, ClientCloses, ClientKept, ClientRecord
  <2> QED
    BY <1>1, <2>1, CalmKept DEF OpeningReq, UploadKept
<1> QED
  BY <1>2, <1>3, <1>4

(* An admin call that leaves the admin calls apart starts when no client   *)
(* is being closed or opened.                                              *)
LEMMA CalmAdminStart ==
  ASSUME TypeOK, Refs, KeysAreUnique, CalmInv, NEW a \in Admins, NEW e \in Emails,
         \/ DeleteStart(a, e)
         \/ \E k \in Keys : UploadStart(a, e, k) \/ ChangeKeyStart(a, e, k)
         \/ \E st \in {"active", "expired"} : SetStatus(a, e, st),
         Calm'
  PROVE  CalmInv'
<1>1. Calm /\ Quiet /\ ~Opening
  BY DEF Calm, DeleteStart, UploadStart, ChangeKeyStart, SetStatus, MayStart
<1>2. /\ \A b \in Admins : ~ClosingAdmin(b)
      /\ \A r \in Requests : ~OpeningReq(r)
      /\ \A k \in Keys : \A f \in Owner(k) : pool[k] # None => Current(pool[k], f)
  BY <1>1 DEF Quiet, Opening, OpeningReq, ClosingAdmin, CalmInv, PoolIsCurrent
<1>3. /\ account \in [Emails -> Row] /\ client \in [Clients -> ClientRecord]
      /\ admin \in [Admins -> AdminRecord] /\ pool \in [Keys -> Clients \cup {None}]
      /\ UNCHANGED <<file, pool, req>>
  BY TypeParts DEF TableOK, RowsOK, ClientsOK, CallersOK, DeleteStart, UploadStart, SaveRow,
     ChangeKeyStart, SetStatus
<1>4. OpensCurrent'
  BY <1>2, <1>3 DEF OpensCurrent, OpeningReq
<1>5. ASSUME UNCHANGED admin,
             \A f \in Emails : \/ account'[f].key = account[f].key
                                  /\ account'[f].state = account[f].state
                               \/ account'[f].key = None
                               \/ pool[account'[f].key] = None,
             \A c \in Clients : client'[c] = client[c]
      PROVE  CalmInv'
  <2>1. OneAdmin' /\ ClosesPooled'
    BY <1>2, <1>5 DEF OneAdmin, ClosesPooled, ClosingAdmin
  <2>2. PoolIsCurrent'
    <3> SUFFICES ASSUME NEW k \in Keys, NEW f \in Emails, account'[f].key = k, pool[k] # None
                 PROVE  Current(pool[k], f)'
      BY <1>3 DEF PoolIsCurrent, Owner, Current
    <3>1. account[f].key = k /\ account'[f].state = account[f].state /\ k # None
      BY <1>5, PoolAssumption
    <3>2. Current(pool[k], f) /\ pool[k] \in Clients
      BY <1>2, <1>3, <3>1 DEF Owner
    <3> QED
      BY <1>3, <1>5, <3>1, <3>2 DEF Current
  <2> QED
    BY <1>4, <2>1, <2>2 DEF CalmInv
<1>6. ASSUME NEW op, NEW l \in Keys, NEW then \in Keys \cup {None}, pool[l] # None,
             CloseKey(a, op, e, l, then),
             op = "delete" => account'[e].key = l /\ then = None,
             \A f \in Emails : \/ account'[f].key = account[f].key
                                  /\ account'[f].state = account[f].state
                               \/ account'[f].key \in {l, then}
      PROVE  CalmInv'
  <2>1. /\ admin'[a].at = "closing" /\ admin'[a].key = l /\ admin'[a].then = then
        /\ admin'[a].op = op /\ admin'[a].email = e
        /\ \A b \in Admins \ {a} : admin'[b] = admin[b]
        /\ \A c \in Clients : client'[c].email = client[c].email /\ client'[c].state = client[c].state
    BY <1>3, <1>6 DEF CloseKey, ClientRecord
  <2>2. OneAdmin'
    BY <1>2, <2>1 DEF OneAdmin, ClosingAdmin
  <2>3. ClosesPooled'
    BY <1>2, <1>3, <1>6, <2>1 DEF ClosesPooled, ClosingAdmin, OpeningReq
  <2>4. PoolIsCurrent'
    <3> SUFFICES ASSUME NEW k \in Keys, NEW f \in Emails, account'[f].key = k, pool[k] # None,
                        k \notin {l, then}
                 PROVE  Current(pool[k], f)'
      BY <1>3, <2>1 DEF PoolIsCurrent, Owner, Current, ClosingAdmin
    <3>1. account[f].key = k /\ account'[f].state = account[f].state
      BY <1>6
    <3>2. Current(pool[k], f) /\ pool[k] \in Clients
      BY <1>2, <1>3, <3>1 DEF Owner
    <3> QED
      BY <1>3, <2>1, <3>1, <3>2 DEF Current
  <2> QED
    BY <1>4, <2>2, <2>3, <2>4 DEF CalmInv
<1>7. CASE DeleteStart(a, e)
  <2>1. account[e].key \in Keys
    BY <1>3, <1>7 DEF DeleteStart, Row
  <2>2. CASE pool[account[e].key] = None
    BY <1>3, <1>5, <1>7, <2>2, Blanks DEF DeleteStart
  <2>3. CASE pool[account[e].key] # None
    BY <1>6, <1>7, <2>1, <2>3 DEF DeleteStart
  <2> QED
    BY <2>2, <2>3
<1>8. ASSUME NEW k \in Keys, UploadStart(a, e, k) PROVE CalmInv'
  <2>1. account'[e].key = k /\ \A f \in Emails \ {e} : account'[f] = account[f]
    BY <1>3, <1>8 DEF UploadStart, SaveRow
  <2>2. CASE pool[k] = None
    BY <1>5, <1>8, <2>1, <2>2 DEF UploadStart
  <2>3. CASE pool[k] # None
    BY <1>6, <1>8, <2>1, <2>3 DEF UploadStart
  <2> QED
    BY <2>2, <2>3
<1>9. ASSUME NEW k \in Keys, ChangeKeyStart(a, e, k) PROVE CalmInv'
  <2>1. /\ account'[e].key = k /\ account[e].key \in Keys
        /\ \A f \in Emails \ {e} : account'[f] = account[f]
    BY <1>3, <1>9 DEF ChangeKeyStart, Row
  <2>2. CASE pool[account[e].key] # None
    BY <1>6, <1>9, <2>1, <2>2 DEF ChangeKeyStart
  <2>3. CASE pool[account[e].key] = None /\ pool[k] # None
    BY <1>6, <1>9, <2>1, <2>3 DEF ChangeKeyStart
  <2>4. CASE pool[account[e].key] = None /\ pool[k] = None
    BY <1>5, <1>9, <2>1, <2>4 DEF ChangeKeyStart
  <2> QED
    BY <2>2, <2>3, <2>4
<1>10. ASSUME NEW st, SetStatus(a, e, st) PROVE CalmInv'
  BY <1>3, <1>5, <1>10 DEF SetStatus, Row
<1> QED
  BY <1>7, <1>8, <1>9, <1>10

LEMMA CalmFinish ==
  ASSUME TypeOK, Refs, KeysAreUnique, CalmInv, Calm, NEW a \in Admins, CloseReturns(a)
  PROVE  CalmInv'
<1>1. OneAdmin /\ OpensCurrent /\ ClosesPooled /\ PoolIsCurrent
  BY DEF CalmInv
<1>2. PICK c \in Clients, k \in Keys, then \in Keys \cup {None}, e \in Emails :
        /\ admin[a].client = c /\ admin[a].key = k /\ admin[a].then = then /\ admin[a].email = e
        /\ pool[k] # None /\ client[c].at # "opening"
        /\ \A l \in Keys : pool[l] = c => l = k
  BY <1>1, TypeParts DEF CloseReturns, FinishClose, Refs, AdminRefs, ClosingAdmin, CallersOK,
     AdminRecord, ClosesPooled
<1>3. /\ ClosingAdmin(a) /\ \A b \in Admins \ {a} : ~ClosingAdmin(b) /\ admin'[b] = admin[b]
      /\ pool'[k] = None /\ \A l \in Keys \ {k} : pool'[l] = pool[l]
      /\ UNCHANGED <<file, req>>
  BY <1>1, <1>2, TypeParts DEF OneAdmin, ClosingAdmin, CloseReturns, FinishClose, ClientsOK, CallersOK
<1>4. /\ client \in [Clients -> ClientRecord] /\ pool \in [Keys -> Clients \cup {None}]
      /\ admin \in [Admins -> AdminRecord] /\ account \in [Emails -> Row]
  BY TypeParts DEF ClientsOK, CallersOK, TableOK, RowsOK
<1> DEFINE more == then \notin {None, k} /\ pool[then] # None
<1>5. IF more THEN admin'[a] = [admin[a] EXCEPT !.key = then, !.then = None, !.client = pool[then]]
              ELSE admin'[a].at = "idle"
  <2>1. CASE more
    BY <1>2, <1>4, <2>1 DEF CloseReturns, FinishClose
  <2>2. CASE ~more
    BY <1>2, <1>4, <2>2 DEF CloseReturns, FinishClose, IdleAdmin
  <2> QED
    BY <2>1, <2>2
<1>6. \A d \in Clients \ {c} : client'[d].email = client[d].email /\ client'[d].state = client[d].state
  <2>1. CASE more
    <3>1. pool[then] \in Clients
      BY <1>4, <2>1
    <3> QED
      BY <1>2, <1>4, <2>1, <3>1 DEF CloseReturns, FinishClose, ClientRecord
  <2>2. CASE ~more
    BY <1>2, <1>4, <2>2 DEF CloseReturns, FinishClose
  <2> QED
    BY <2>1, <2>2
<1>7. /\ \A f \in Emails \ {e} : account'[f] = account[f]
      /\ \/ account' = account
         \/ admin[a].op = "delete" /\ account'[e] = Absent
  BY <1>2, <1>4 DEF CloseReturns, FinishClose
<1>8. admin[a].op = "delete" => ~more
  BY <1>1, <1>2, <1>3 DEF ClosesPooled
<1> HIDE DEF more
<1>9. OneAdmin'
  BY <1>3 DEF OneAdmin, ClosingAdmin
<1>10. OpensCurrent'
  <2> SUFFICES ASSUME NEW r \in Requests, OpeningReq(r), NEW d \in Clients, d = req[r].client,
                      NEW f \in Emails, f = client[d].email
               PROVE  /\ client'[d].email = f /\ account'[f].key = req[r].key
                      /\ Current(d, f)'
    <3>1. \A r \in Requests : OpeningReq(r) =>
            req[r].client \in Clients /\ client[req[r].client].email \in Emails
      BY DEF Refs, ReqRefs, PoolRefs
    <3> QED
      BY <1>3, <3>1 DEF OpensCurrent, OpeningReq, Current
  <2>1. d # c /\ account[f].key = req[r].key /\ Current(d, f)
    BY <1>1, <1>2 DEF OpensCurrent, Refs, ReqRefs
  <2>2. account'[f] = account[f]
    BY <1>1, <1>2, <1>3, <1>7, <2>1 DEF ClosesPooled
  <2> QED
    BY <1>3, <1>6, <2>1, <2>2 DEF Current
<1>11. ClosesPooled'
  <2>1. more => pool'[then] # None /\ admin'[a].key = then /\ admin'[a].op # "delete"
    <3> SUFFICES ASSUME more PROVE pool'[then] # None /\ admin'[a].key = then /\ admin'[a].op # "delete"
      OBVIOUS
    <3>1. admin'[a].key = then /\ admin'[a].op = admin[a].op
      BY <1>4, <1>5 DEF AdminRecord
    <3>2. pool'[then] # None
      BY <1>2, <1>3, <1>4 DEF more
    <3> QED
      BY <1>8, <3>1, <3>2
  <2> QED
    BY <1>3, <1>5, <2>1 DEF ClosesPooled, ClosingAdmin
<1>12. PoolIsCurrent'
  <2> SUFFICES ASSUME NEW l \in Keys, NEW f \in Emails, account'[f].key = l, pool'[l] # None
               PROVE  \/ pool'[l] = pool[l] /\ Current(pool[l], f)'
                      \/ admin'[a].at = "closing" /\ admin'[a].key = l
    BY DEF PoolIsCurrent, Owner, ClosingAdmin, Current
  <2>1. l # k /\ pool'[l] = pool[l] /\ pool[l] \in Clients \ {c}
    BY <1>2, <1>3, <1>4
  <2>2. account[f] = account'[f] /\ f \in Owner(l) /\ l # None
    BY <1>7, PoolAssumption, Blanks DEF Owner
  <2>3. CASE Current(pool[l], f)
    BY <1>3, <1>6, <2>1, <2>2, <2>3 DEF Current
  <2>4. CASE ~Current(pool[l], f)
    <3>1. l = then
      BY <1>1, <1>2, <1>3, <2>1, <2>2, <2>4 DEF PoolIsCurrent
    <3>2. more
      BY <2>1, <2>2, <3>1 DEF more
    <3> QED
      BY <1>3, <1>4, <1>5, <3>1, <3>2 DEF ClosingAdmin, AdminRecord
  <2> QED
    BY <2>3, <2>4
<1> QED
  BY <1>9, <1>10, <1>11, <1>12 DEF CalmInv

LEMMA NextCalm ==
  ASSUME TypeOK, Refs, KeysAreUnique, CalmInv, [Next]_vars
  PROVE  CalmInv'
<1> SUFFICES ASSUME Calm' PROVE CalmInv'
  BY DEF CalmInv
<1>1. CASE Restart
  BY <1>1 DEF Restart, CalmInv, OneAdmin, OpensCurrent, ClosesPooled, PoolIsCurrent,
     ClosingAdmin, OpeningReq, IdleReq, IdleAdmin
<1>2. CASE UNCHANGED vars
  BY <1>2 DEF vars, Calm, CalmInv, OneAdmin, OpensCurrent, ClosesPooled, PoolIsCurrent, Owner,
     Current, ClosingAdmin, OpeningReq
<1>3. ASSUME NEW r \in Requests, ReqProgress(r) \/ \E k \in Keys : ReqAuth(r, k)
      PROVE  CalmInv'
  <2>1. Calm
    BY <1>3 DEF Calm, ReqProgress, ReqAuth, ReqHit, ReqMiss, MissWith, ReqUnauthorized,
       ReqOpened, ReqOpenFailed, ReqCall, BeginCall, ReqCallEnds, ReqDone
  <2> QED
    BY <1>3, <2>1, CalmReq, CalmHit, CalmMiss, CalmOpened, CalmOpenFailed DEF ReqProgress
<1>4. CASE \/ \E c \in Clients : Rotate(c) \/ Collect(c)
           \/ \E a \in Admins : CloseDrains(a) \/ ClientCloses(a)
  <2>1. Calm
    BY <1>4 DEF Calm, Rotate, Collect, CloseDrains, ClientCloses
  <2> QED
    BY <1>4, <2>1, CalmClient
<1>5. ASSUME NEW a \in Admins, CloseReturns(a) PROVE CalmInv'
  <2>1. Calm
    BY <1>5 DEF Calm, CloseReturns, FinishClose
  <2> QED
    BY <1>5, <2>1, CalmFinish
<1> QED
  BY <1>1, <1>2, <1>3, <1>4, <1>5, CalmAdminStart DEF Next

-----------------------------------------------------------------------------
(* No client leaks, as long as openings do not overlap either.             *)

(* Nobody starts to open, and who lives is pooled where it was.            *)
LEMMA LeakKept ==
  ASSUME Refs, LeakInv, overlap = {}, UNCHANGED <<pool, admin>>,
         \A r \in Requests : req'[r].at = "opening" => OpeningReq(r) /\ req'[r] = req[r],
         \A c \in Clients : client'[c].at \in Live => client[c].at \in Live
  PROVE  LeakInv'
<1>1. OneOpening /\ LiveIsPooled
  BY DEF LeakInv
<1>2. OneOpening'
  BY <1>1 DEF OneOpening, OpeningReq
<1>3. LiveIsPooled'
  BY <1>1 DEF LiveIsPooled, ClosingAdmin
<1> QED
  BY <1>2, <1>3 DEF LeakInv

LEMMA LeakReq ==
  ASSUME TypeOK, Refs, LeakInv, overlap = {}, NEW r \in Requests,
         \/ \E k \in Keys : ReqAuth(r, k)
         \/ ReqHit(r) \/ ReqUnauthorized(r) \/ ReqOpenFailed(r)
         \/ ReqCall(r) \/ ReqCallEnds(r) \/ ReqDone(r)
  PROVE  LeakInv'
<1>1. /\ req'[r].at # "opening"
      /\ \A s \in Requests \ {r} : req'[s] = req[s]
  BY TypeParts DEF CallersOK, ReqRecord, ReqAuth, ReqHit, ReqUnauthorized, ReqOpenFailed,
     ReqCall, BeginCall, ReqCallEnds, ReqDone, IdleReq
<1>2. UNCHANGED <<pool, admin>>
  BY DEF ReqAuth, ReqHit, ReqUnauthorized, ReqOpenFailed, ReqCall, BeginCall,
     ReqCallEnds, ReqDone
<1>3. \A c \in Clients : client'[c].at \in Live => client[c].at \in Live
  <2>1. client' = client \/ \E c : client' = [client EXCEPT ![c] = Unused]
    BY DEF ReqAuth, ReqHit, ReqUnauthorized, ReqOpenFailed, ReqCall, BeginCall,
       ReqCallEnds, ReqDone
  <2> QED
    BY <2>1, TypeParts, Blanks DEF ClientsOK, Live
<1> QED
  BY <1>1, <1>2, <1>3, LeakKept DEF OpeningReq

LEMMA LeakMiss ==
  ASSUME TypeOK, Refs, LeakInv, NEW r \in Requests, ReqMiss(r), overlap' = {}
  PROVE  LeakInv'
<1>1. overlap = {} /\ \A s \in Requests : ~OpeningReq(s)
  BY DEF ReqMiss, MissWith, Opening, OpeningReq
<1>2. OneOpening /\ LiveIsPooled
  BY <1>1 DEF LeakInv
<1>3. PICK c \in Clients :
        /\ \A d \in Clients \ {c} : client'[d] = client[d]
        /\ client'[c].at = "opening"
        /\ req' = [req EXCEPT ![r].at = "opening", ![r].client = c]
  <2>1. PICK e \in Active(req[r].key), c \in Clients :
          /\ client' = [client EXCEPT ![c] = [at |-> "opening", email |-> e,
                                              state |-> account[e].state]]
          /\ req' = [req EXCEPT ![r].at = "opening", ![r].client = c]
    BY DEF ReqMiss, MissWith, Active, Owner
  <2> QED
    BY <2>1, TypeParts DEF ClientsOK
<1>4. /\ \A s \in Requests \ {r} : req'[s] = req[s]
      /\ req'[r].key = req[r].key /\ pool[req[r].key] = None /\ UNCHANGED <<pool, admin>>
  BY <1>3, TypeParts DEF CallersOK, ReqRecord, ReqMiss, MissWith
<1>5. OneOpening'
  BY <1>1, <1>4 DEF OneOpening, OpeningReq
<1>6. LiveIsPooled'
  BY <1>2, <1>3, <1>4 DEF LiveIsPooled, ClosingAdmin, Live
<1> QED
  BY <1>5, <1>6 DEF LeakInv

LEMMA LeakOpened ==
  ASSUME TypeOK, Refs, CalmInv, LeakInv, overlap = {}, NEW r \in Requests, ReqOpened(r)
  PROVE  LeakInv'
<1>1. OneOpening /\ LiveIsPooled /\ ClosesPooled
  BY DEF LeakInv, CalmInv, Calm
<1>2. PICK c \in Clients, k \in Keys : c = req[r].client /\ k = req[r].key /\ pool[k] = None
  BY <1>1 DEF ReqOpened, Refs, ReqRefs, OpeningReq, OneOpening
<1>3. /\ \A d \in Clients \ {c} : client'[d] = client[d]
      /\ pool'[k] = c /\ \A l \in Keys \ {k} : pool'[l] = pool[l]
      /\ req'[r].at = "serving" /\ \A s \in Requests \ {r} : req'[s] = req[s]
      /\ admin' = admin
  BY <1>2, TypeParts DEF ReqOpened, ClientsOK, CallersOK, ReqRecord
<1>4. OneOpening'
  BY <1>1, <1>3 DEF OneOpening, OpeningReq, ReqOpened
<1>5. \A d \in Clients : client'[d].at \in Live => \E l \in Keys : pool'[l] = d
  BY <1>1, <1>2, <1>3, PoolAssumption DEF LiveIsPooled
<1>6. \A a \in Admins : ClosingAdmin(a) => pool'[admin[a].key] = admin[a].client
  BY <1>1, <1>2, <1>3 DEF LiveIsPooled, ClosesPooled, Refs, AdminRefs
<1> QED
  BY <1>3, <1>4, <1>5, <1>6 DEF LeakInv, LiveIsPooled, ClosingAdmin

LEMMA LeakClient ==
  ASSUME TypeOK, Refs, LeakInv, overlap = {},
         \/ \E c \in Clients : Rotate(c) \/ Collect(c)
         \/ \E a \in Admins : CloseDrains(a) \/ ClientCloses(a)
  PROVE  LeakInv'
<1>1. UNCHANGED <<pool, req, admin>> /\ client \in [Clients -> ClientRecord]
  BY TypeParts DEF Rotate, Collect, CloseDrains, ClientCloses, ClientsOK
<1>2. \A c \in Clients : client'[c].at \in Live => client[c].at \in Live
  <2>1. ASSUME NEW c \in Clients, Rotate(c) PROVE <1>2
    BY <1>1, <2>1 DEF Rotate, ClientRecord
  <2>2. ASSUME NEW c \in Clients, Collect(c) PROVE <1>2
    BY <1>1, <2>2, Blanks DEF Collect, Live
  <2>3. ASSUME NEW a \in Admins, CloseDrains(a) \/ ClientCloses(a) PROVE <1>2
    BY <1>1, <2>3 DEF CloseDrains, ClientCloses, Live, ClientRecord
  <2> QED
    BY <2>1, <2>2, <2>3
<1> QED
  BY <1>1, <1>2, LeakKept DEF OpeningReq

LEMMA LeakAdminStart ==
  ASSUME TypeOK, Refs, LeakInv, NEW a \in Admins, NEW e \in Emails,
         \/ DeleteStart(a, e)
         \/ \E k \in Keys : UploadStart(a, e, k) \/ ChangeKeyStart(a, e, k)
         \/ \E st \in {"active", "expired"} : SetStatus(a, e, st),
         overlap' = {}
  PROVE  LeakInv'
<1>1. /\ overlap = {} /\ UNCHANGED <<pool, req>>
      /\ \A b \in Admins : ~ClosingAdmin(b)
      /\ \A r \in Requests : ~OpeningReq(r)
  BY DEF DeleteStart, UploadStart, SaveRow, ChangeKeyStart, SetStatus, MayStart, Quiet, Opening,
     OpeningReq, ClosingAdmin
<1>2. OneOpening'
  BY <1>1 DEF OneOpening, OpeningReq
<1>3. LiveIsPooled
  BY <1>1 DEF LeakInv
<1>4. account[e].key \in Keys \cup {None}
  BY TypeParts DEF TableOK, RowsOK, Row
<1>5. \/ UNCHANGED <<client, admin>>
      \/ \E op, then : \E k \in Keys : pool[k] # None /\ CloseKey(a, op, e, k, then)
  BY <1>4 DEF DeleteStart, UploadStart, ChangeKeyStart, SetStatus
<1>6. CASE UNCHANGED <<client, admin>>
  BY <1>1, <1>2, <1>3, <1>6 DEF LeakInv, LiveIsPooled, ClosingAdmin
<1>7. ASSUME NEW op, NEW then, NEW k \in Keys, pool[k] # None, CloseKey(a, op, e, k, then)
      PROVE  LeakInv'
  <2>1. /\ \A c \in Clients : client'[c].at \in Live => client[c].at \in Live
        /\ admin'[a].key = k /\ admin'[a].client = pool[k]
        /\ \A b \in Admins \ {a} : admin'[b] = admin[b]
    BY <1>7, TypeParts DEF CloseKey, ClientsOK, CallersOK, ClientRecord, Live
  <2> QED
    BY <1>1, <1>2, <1>3, <2>1 DEF LeakInv, LiveIsPooled, ClosingAdmin
<1> QED
  BY <1>5, <1>6, <1>7

LEMMA LeakFinish ==
  ASSUME TypeOK, Refs, CalmInv, LeakInv, overlap = {}, NEW a \in Admins, CloseReturns(a)
  PROVE  LeakInv'
<1>1. OneOpening /\ LiveIsPooled /\ OneAdmin
  BY DEF LeakInv, CalmInv, Calm
<1>2. PICK c \in Clients, k \in Keys, then \in Keys \cup {None} :
        /\ admin[a].client = c /\ admin[a].key = k /\ admin[a].then = then
        /\ pool[k] = c /\ c # None
        /\ \A l \in Keys : pool[l] = c => l = k
  BY <1>1, TypeParts, PoolAssumption DEF CloseReturns, FinishClose, Refs, AdminRefs, ClosingAdmin,
     CallersOK, AdminRecord, LiveIsPooled
<1>3. /\ ClosingAdmin(a) /\ \A b \in Admins \ {a} : ~ClosingAdmin(b) /\ admin'[b] = admin[b]
      /\ pool'[k] = None /\ req' = req /\ \A l \in Keys \ {k} : pool'[l] = pool[l]
  BY <1>1, <1>2, TypeParts DEF OneAdmin, ClosingAdmin, CloseReturns, FinishClose, ClientsOK, CallersOK
<1>4. /\ client \in [Clients -> ClientRecord] /\ pool \in [Keys -> Clients \cup {None}]
      /\ admin \in [Admins -> AdminRecord]
  BY TypeParts DEF ClientsOK, CallersOK
<1>5. OneOpening'
  <2>1. \A r \in Requests : OpeningReq(r) => req[r].key \in Keys /\ pool[req[r].key] = None
    BY <1>1 DEF OneOpening, OpeningReq, Refs, ReqRefs
  <2>2. \A l \in Keys : pool[l] = None => pool'[l] = None
    BY <1>3
  <2>3. \A r \in Requests : OpeningReq(r) => pool'[req[r].key] = None
    BY <2>1, <2>2
  <2>4. req' = req
    BY <1>3
  <2> QED
    BY <1>1, <2>3, <2>4 DEF OneOpening, OpeningReq
<1>6. CASE then \notin {None, k} /\ pool[then] # None
  <2>1. pool[then] \in Clients \ {c} /\ pool'[then] = pool[then]
    BY <1>2, <1>3, <1>4, <1>6
  <2>2. admin'[a].key = then /\ admin'[a].client = pool[then]
    BY <1>2, <1>4, <1>6 DEF CloseReturns, FinishClose, AdminRecord
  <2>3. client'[c].at = "closed" /\ \A d \in Clients \ {c} : client'[d].at \in Live => client[d].at \in Live
    BY <1>2, <1>4, <1>6, <2>1 DEF CloseReturns, FinishClose, ClientRecord, Live
  <2>4. LiveIsPooled'
    BY <1>1, <1>2, <1>3, <2>1, <2>2, <2>3 DEF LiveIsPooled, ClosingAdmin, Live
  <2> QED
    BY <1>5, <2>4 DEF LeakInv
<1>7. CASE ~(then \notin {None, k} /\ pool[then] # None)
  <2>1. admin'[a].at = "idle"
    BY <1>2, <1>4, <1>7 DEF CloseReturns, FinishClose, IdleAdmin
  <2>2. client'[c].at = "closed" /\ \A d \in Clients \ {c} : client'[d] = client[d]
    BY <1>2, <1>4, <1>7 DEF CloseReturns, FinishClose
  <2>3. LiveIsPooled'
    BY <1>1, <1>2, <1>3, <2>1, <2>2 DEF LiveIsPooled, ClosingAdmin, Live
  <2> QED
    BY <1>5, <2>3 DEF LeakInv
<1> QED
  BY <1>6, <1>7

LEMMA NextLeak ==
  ASSUME TypeOK, Refs, CalmInv, LeakInv, [Next]_vars
  PROVE  LeakInv'
<1> SUFFICES ASSUME overlap' = {} PROVE LeakInv'
  BY DEF LeakInv
<1>1. CASE Restart
  BY <1>1, Blanks DEF Restart, LeakInv, OneOpening, LiveIsPooled, ClosingAdmin, OpeningReq,
     IdleReq, IdleAdmin, Live
<1>2. CASE UNCHANGED vars
  BY <1>2 DEF vars, LeakInv, OneOpening, LiveIsPooled, ClosingAdmin, OpeningReq
<1>3. ASSUME NEW r \in Requests, ReqProgress(r) \/ \E k \in Keys : ReqAuth(r, k)
      PROVE  LeakInv'
  <2>1. ReqMiss(r) \/ overlap = {}
    BY <1>3 DEF ReqProgress, ReqAuth, ReqHit, ReqUnauthorized,
       ReqOpened, ReqOpenFailed, ReqCall, BeginCall, ReqCallEnds, ReqDone
  <2> QED
    BY <1>3, <2>1, LeakReq, LeakMiss, LeakOpened DEF ReqProgress
<1>4. CASE \/ \E c \in Clients : Rotate(c) \/ Collect(c)
           \/ \E a \in Admins : CloseDrains(a) \/ ClientCloses(a)
  <2>1. overlap = {}
    BY <1>4 DEF Rotate, Collect, CloseDrains, ClientCloses
  <2> QED
    BY <1>4, <2>1, LeakClient
<1>5. ASSUME NEW a \in Admins, CloseReturns(a) PROVE LeakInv'
  <2>1. overlap = {}
    BY <1>5 DEF CloseReturns, FinishClose
  <2> QED
    BY <1>5, <2>1, LeakFinish
<1> QED
  BY <1>1, <1>2, <1>3, <1>4, <1>5, LeakAdminStart DEF Next

-----------------------------------------------------------------------------
(* The theorems. *)

LEMMA InitIInv == Init => IInv
<1> SUFFICES ASSUME Init PROVE IInv
  OBVIOUS
<1>1. /\ \A e \in Emails : account[e].key = None
      /\ \A k \in Keys : pool[k] = None
      /\ \A c \in Clients : client[c].at = "unused"
      /\ \A r \in Requests : req[r].at = "idle"
      /\ \A a \in Admins : admin[a].at = "idle"
  BY Blanks DEF Init, IdleReq, IdleAdmin
<1>2. KeysAreUnique /\ Refs
  BY <1>1 DEF KeysAreUnique, Refs, PoolRefs, ReqRefs, AdminRefs, OpeningReq, ClosingAdmin, Live
<1>3. CalmInv
  BY <1>1 DEF CalmInv, OneAdmin, OpensCurrent, ClosesPooled, PoolIsCurrent, OpeningReq, ClosingAdmin
<1>4. LeakInv
  BY <1>1 DEF LeakInv, OneOpening, LiveIsPooled, OpeningReq, ClosingAdmin, Live
<1> QED
  BY <1>2, <1>3, <1>4, InitTypeOK DEF IInv, Refs

(* The inductive invariant: which objects may refer to which clients and   *)
(* in which state, what agrees with the table while admin calls do not     *)
(* overlap, and what is pooled while openings do not.                      *)
THEOREM PoolInvariant == Spec => []IInv
<1>1. IInv /\ [Next]_vars => IInv'
  BY NextTypeOK, NextRefs, NextKeys, NextCalm, NextLeak DEF IInv, Refs
<1> QED
  BY <1>1, InitIInv, PTL DEF Spec

(* Rows, clients, requests and admin calls keep their types; in particular *)
(* an absent row stays blank (database.py update_account_status).          *)
THEOREM PoolTypeOK == Spec => []TypeOK
BY PoolInvariant, PTL DEF IInv

(* However requests and admin calls overlap, a closed client is in the     *)
(* pool only while an admin call that awaited its close() has yet to       *)
(* delete its entry (main.py closes first and deletes after).              *)
THEOREM NoClosedClient == Spec => []NoClosedClientPooled
<1>1. IInv => NoClosedClientPooled
  BY DEF IInv, PoolRefs, InHand, NoClosedClientPooled, ClosingAdmin, Live
<1> QED
  BY <1>1, PoolInvariant, PTL

(* Hot update and routing: as long as admin calls do not overlap, after    *)
(* each of them the pool holds for a key a client of its owner, opened     *)
(* with the owner's credentials.                                           *)
THEOREM PoolFollowsTable == Spec => []PoolMatchesTable
<1>1. IInv => PoolMatchesTable
  BY DEF IInv, CalmInv, Calm, PoolIsCurrent, PoolMatchesTable, Quiet, ClosingAdmin, Current
<1> QED
  BY <1>1, PoolInvariant, PTL

(* No client that lives is out of the pool, unless openings or admin calls *)
(* overlapped.                                                             *)
THEOREM NoClientLeaks == Spec => []OpenClientsArePooled
<1>1. IInv => OpenClientsArePooled
  BY DEF IInv, LeakInv, LiveIsPooled, OpenClientsArePooled, Live
<1> QED
  BY <1>1, PoolInvariant, PTL

(* A client that is being opened has the credentials of the row that a     *)
(* failure would mark expired.                                             *)
THEOREM OpensFollowRows == Spec => []OpensFromRow
<1>1. IInv => OpensFromRow
  BY DEF IInv, CalmInv, Calm, OpensCurrent, OpeningReq, OpensFromRow, Current
<1> QED
  BY <1>1, PoolInvariant, PTL

=============================================================================
