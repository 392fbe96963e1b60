----------------------------- MODULE GatewayPool -----------------------------
(***************************************************************************)
(* The multi-account gateway: the accounts table (database.py), the admin  *)
(* endpoints (main.py), and the pool that maps an API key to an open       *)
(* NotebookLMClient (notebooklm/server/_context.py, _auth.py).             *)
(*                                                                         *)
(* Everything runs on one event loop, so a step goes from one suspension   *)
(* to the next: a request suspends in its limiter, while its client opens  *)
(* and in each call, an admin call while it closes a client.  The accounts *)
(* table and the storage_state.json of each account survive a restart, the *)
(* pool does not.                                                          *)
(*                                                                         *)
(* A storage state is <<upload, rotation>>: the upload it descends from    *)
(* and how many cookie rotations it has seen since.                        *)
(***************************************************************************)
EXTENDS Integers

CONSTANTS Emails, Keys,
          Requests,    \* business requests, one at a time each
          Admins,      \* admin calls, one at a time each
          Clients,     \* NotebookLMClient objects
          None,        \* no key, no client, no account
          MaxUploads,  \* bound: uploads
          MaxAge       \* bound: uploads and rotations behind a storage state

ASSUME PoolAssumption ==
  /\ MaxUploads \in Nat
  /\ MaxAge \in Nat
  /\ None \notin Keys \cup Clients

VARIABLES account,  \* the table: row of each email; key None when absent
          uploads,  \* uploads so far, the source of fresh credentials
          file,     \* profiles/<email>/storage_state.json
          pool,     \* app.state.client_pool
          client,   \* client objects
          req,      \* where each request is, its key and its client
          admin,    \* where each admin call is, and what it closes
          overlap   \* history, since the process started: an "admin" call came
                    \* while another ran or a client was being opened, an
                    \* "open" began while another was under way

vars == <<account, uploads, file, pool, client, req, admin, overlap>>

Absent == [key |-> None, id |-> 0, state |-> <<0, 0>>, status |-> "none"]
Unused == [at |-> "unused", email |-> None, state |-> <<0, 0>>]
IdleReq == [at |-> "idle", key |-> None, client |-> None]
IdleAdmin == [at |-> "idle", op |-> "none", email |-> None, id |-> 0,
              key |-> None, then |-> None, client |-> None]

Owner(k) == {e \in Emails : account[e].key = k}
Active(k) == {e \in Owner(k) : account[e].status = "active"}

-----------------------------------------------------------------------------

Quiet == \A a \in Admins : admin[a].at = "idle"
Opening == \E r \in Requests : req[r].at = "opening"

Init ==
  /\ account = [e \in Emails |-> Absent]
  /\ uploads = 0
  /\ file = [e \in Emails |-> <<0, 0>>]
  /\ pool = [k \in Keys |-> None]
  /\ client = [c \in Clients |-> Unused]
  /\ req = [r \in Requests |-> IdleReq]
  /\ admin = [a \in Admins |-> IdleAdmin]
  /\ overlap = {}

(***************************************************************************)
(* Requests                                                                *)
(***************************************************************************)

(* require_auth: the key is that of an active account.  The limiter of the *)
(* route suspends before get_client runs.                                  *)
ReqAuth(r, k) ==
  /\ req[r].at = "idle"
  /\ Active(k) # {}
  /\ req' = [req EXCEPT ![r] = [at |-> "limited", key |-> k, client |-> None]]
  /\ UNCHANGED <<account, uploads, file, pool, client, admin, overlap>>

(* _sync_back_if_modified: the file goes into the row, modified or not.    *)
SyncBack(e) ==
  account' = IF account[e].key = None THEN account
             ELSE [account EXCEPT ![e].state = file[e]]

(* get_client finds the key in the pool, whatever the table says by now.   *)
ReqHit(r) ==
  LET c == pool[req[r].key] IN
  /\ req[r].at = "limited"
  /\ c # None
  /\ SyncBack(client[c].email)
  /\ req' = [req EXCEPT ![r].at = "serving", ![r].client = c]
  /\ UNCHANGED <<uploads, file, pool, client, admin, overlap>>

MissWith(r, source) ==
  /\ req[r].at = "limited"
  /\ pool[req[r].key] = None
  /\ \E e \in Active(req[r].key), c \in Clients :
       /\ client[c].at = "unused"
       /\ file' = [file EXCEPT ![e] = source[e]]
       /\ client' = [client EXCEPT ![c] = [at |-> "opening", email |-> e,
                                           state |-> source[e]]]
       /\ req' = [req EXCEPT ![r].at = "opening", ![r].client = c]
  /\ overlap' = overlap \cup (IF Opening THEN {"open"} ELSE {})
  /\ UNCHANGED <<account, uploads, pool, admin>>

ReqMiss_KeepsFile(r) ==  \* mutant: a profile that exists is not rewritten
  MissWith(r, [e \in Emails |-> IF file[e] = <<0, 0>> THEN account[e].state ELSE file[e]])

(* get_client misses: the row is read, written over the account's file,    *)
(* and a client starts to open from that file.                             *)
ReqMiss(r) == MissWith(r, [e \in Emails |-> account[e].state])

ReqUnauthorized(r) ==
  /\ req[r].at = "limited"
  /\ pool[req[r].key] = None
  /\ Active(req[r].key) = {}
  /\ req' = [req EXCEPT ![r] = IdleReq]
  /\ UNCHANGED <<account, uploads, file, pool, client, admin, overlap>>

(* __aenter__ came back: the pool is assigned without a second look.       *)
ReqOpened(r) ==
  LET c == req[r].client IN
  /\ req[r].at = "opening"
  /\ client' = [client EXCEPT ![c].at = "open"]
  /\ pool' = [pool EXCEPT ![req[r].key] = c]
  /\ req' = [req EXCEPT ![r].at = "serving"]
  /\ UNCHANGED <<account, uploads, file, admin, overlap>>

Expire(row) == IF row.key = None THEN row ELSE [row EXCEPT !.status = "expired"]

(* It raised: the account is marked expired, whatever its row says now.    *)
ReqOpenFailed(r) ==
  LET c == req[r].client IN
  /\ req[r].at = "opening"
  /\ client' = [client EXCEPT ![c] = Unused]
  /\ account' = [account EXCEPT ![client[c].email] = Expire(@)]
  /\ req' = [req EXCEPT ![r] = IdleReq]
  /\ UNCHANGED <<uploads, file, pool, admin, overlap>>

BeginCall(r, admits) ==
  /\ req[r].at = "serving"
  /\ req' = [req EXCEPT ![r] = IF client[@.client].at \in admits
                               THEN [@ EXCEPT !.at = "calling"] ELSE IdleReq]
  /\ UNCHANGED <<account, uploads, file, pool, client, admin, overlap>>

ReqCall_Always(r) == BeginCall(r, {"open", "closing", "draining"})  \* mutant

(* The handler calls Google through its client; one that drains, or that   *)
(* was closed between two calls, refuses and the request fails.            *)
ReqCall(r) == BeginCall(r, {"open", "closing"})

ReqCallEnds(r) ==
  /\ req[r].at = "calling"
  /\ req' = [req EXCEPT ![r].at = "serving"]
  /\ UNCHANGED <<account, uploads, file, pool, client, admin, overlap>>

ReqDone(r) ==
  /\ req[r].at = "serving"
  /\ req' = [req EXCEPT ![r] = IdleReq]
  /\ UNCHANGED <<account, uploads, file, pool, client, admin, overlap>>

(* A live client persists rotated cookies; the compare-and-swap of         *)
(* save_cookies_to_storage keeps it from touching a file of another upload *)
(* or of a rotation it has not seen.                                       *)
Rotate(c) ==
  LET e == client[c].email
      next == <<client[c].state[1], client[c].state[2] + 1>> IN
  /\ client[c].at \in {"opening", "open", "closing", "draining"}
  /\ client[c].state[1] + client[c].state[2] < MaxAge
  /\ client' = [client EXCEPT ![c].state = next]
  /\ file' = IF file[e] = client[c].state THEN [file EXCEPT ![e] = next] ELSE file
  /\ UNCHANGED <<account, uploads, pool, req, admin, overlap>>

(***************************************************************************)
(* Admin calls                                                             *)
(***************************************************************************)

MayStart(a) ==
  /\ admin[a].at = "idle"
  /\ overlap' = overlap \cup (IF Quiet /\ ~Opening THEN {} ELSE {"admin"})

(* The call suspends in close() of the client pooled under k; after it,    *)
(* the key in then is looked at in the same way.                           *)
CloseKey(a, op, e, k, then) ==
  /\ admin' = [admin EXCEPT ![a] =
       [at |-> "closing", op |-> op, email |-> e, id |-> account[e].id,
        key |-> k, then |-> then, client |-> pool[k]]]
  /\ client' = [client EXCEPT ![pool[k]].at = IF @ = "open" THEN "closing" ELSE @]

SaveRow(e, k) ==
  /\ uploads < MaxUploads
  /\ Owner(k) \subseteq {e}
  /\ uploads' = uploads + 1
  /\ account' = [account EXCEPT ![e] =
       [key |-> k, id |-> IF @.key = None THEN uploads + 1 ELSE @.id,
        state |-> <<uploads + 1, 0>>, status |-> "active"]]
  /\ UNCHANGED <<file, pool, req>>

(* Mutant: the pooled client is left alone.                                *)
UploadStart_NoClose(a, e, k) ==
  MayStart(a) /\ SaveRow(e, k) /\ UNCHANGED <<admin, client>>

(* upload_credentials: insert or replace the row, then close what the key  *)
(* has in the pool.                                                        *)
UploadStart(a, e, k) ==
  /\ MayStart(a)
  /\ SaveRow(e, k)
  /\ IF pool[k] = None THEN UNCHANGED <<admin, client>>
     ELSE CloseKey(a, "upload", e, k, None)

DeleteStart_NoClose(a, e) ==  \* mutant: the entry goes, the client stays open
  /\ MayStart(a)
  /\ account[e].key # None
  /\ account' = [account EXCEPT ![e] = Absent]
  /\ pool' = [pool EXCEPT ![account[e].key] = None]
  /\ UNCHANGED <<uploads, file, client, req, admin>>

(* delete_account: the pool first, the row after.                          *)
DeleteStart(a, e) ==
  LET k == account[e].key IN
  /\ MayStart(a)
  /\ k # None
  /\ IF pool[k] = None
     THEN /\ account' = [account EXCEPT ![e] = Absent]
          /\ UNCHANGED <<admin, client>>
     ELSE CloseKey(a, "delete", e, k, None) /\ account' = account
  /\ UNCHANGED <<uploads, file, pool, req>>

SetStatus(a, e, s) ==
  /\ MayStart(a)
  /\ account[e].key # None
  /\ account' = [account EXCEPT ![e].status = s]
  /\ UNCHANGED <<uploads, file, pool, client, req, admin>>

(* update_account_key_api: the row first, then the pool of the old key,    *)
(* then the pool of the new one.                                           *)
ChangeKeyStart(a, e, k) ==
  LET old == account[e].key IN
  /\ MayStart(a)
  /\ old # None
  /\ Owner(k) \subseteq {e}
  /\ account' = [account EXCEPT ![e].key = k]
  /\ IF pool[old] # None THEN CloseKey(a, "key", e, old, k)
     ELSE IF pool[k] # None THEN CloseKey(a, "key", e, k, None)
     ELSE UNCHANGED <<admin, client>>
  /\ UNCHANGED <<uploads, file, pool, req>>

(* The drain hooks of close() have run: the client drains from here on.    *)
CloseDrains(a) ==
  LET c == admin[a].client IN
  /\ admin[a].at = "closing"
  /\ client[c].at = "closing"
  /\ client' = [client EXCEPT ![c].at = "draining"]
  /\ UNCHANGED <<account, uploads, file, pool, req, admin, overlap>>

(* close() has drained the calls it found, and its teardown, a task of its *)
(* own that it awaits, marks the client closed.  The loop may run others   *)
(* before the admin call goes on: the client is still pooled.              *)
ClientCloses(a) ==
  LET c == admin[a].client IN
  /\ admin[a].at = "closing"
  /\ client[c].at = "draining"
  /\ \A r \in Requests : ~(req[r].at = "calling" /\ req[r].client = c)
  /\ client' = [client EXCEPT ![c].at = "closed"]
  /\ UNCHANGED <<account, uploads, file, pool, req, admin, overlap>>

FinishClose(a, left) ==
  LET m == admin[a] IN
  /\ m.at = "closing"
  /\ client[m.client].at = "closed"
  /\ pool' = [pool EXCEPT ![m.key] = left]
  /\ IF pool[m.key] # None /\ m.then \notin {None, m.key} /\ pool[m.then] # None
     THEN /\ admin' = [admin EXCEPT ![a].key = m.then, ![a].then = None,
                                    ![a].client = pool[m.then]]
          /\ client' = [client EXCEPT ![pool[m.then]].at = IF @ = "open" THEN "closing" ELSE @]
     ELSE admin' = [admin EXCEPT ![a] = IdleAdmin] /\ UNCHANGED client
  /\ account' = IF /\ pool[m.key] # None
                   /\ m.op = "delete"
                   /\ account[m.email].id = m.id
                THEN [account EXCEPT ![m.email] = Absent] ELSE account
  /\ UNCHANGED <<uploads, file, req, overlap>>

CloseReturns_KeepsEntry(a) == FinishClose(a, pool[admin[a].key])  \* mutant

(* close() comes back.  The pool entry is deleted by key, whoever is in it *)
(* by now; when it is already gone the call dies with a KeyError and does  *)
(* nothing more.                                                           *)
CloseReturns(a) == FinishClose(a, None)

(* A closed client nobody refers to is garbage.                            *)
Collect(c) ==
  /\ client[c].at = "closed"
  /\ \A k \in Keys : pool[k] # c
  /\ \A r \in Requests : req[r].client # c
  /\ \A a \in Admins : admin[a].client # c
  /\ client' = [client EXCEPT ![c] = Unused]
  /\ UNCHANGED <<account, uploads, file, pool, req, admin, overlap>>

(* The process restarts: only the table and the files are left.            *)
Restart ==
  /\ pool' = [k \in Keys |-> None]
  /\ client' = [c \in Clients |-> Unused]
  /\ req' = [r \in Requests |-> IdleReq]
  /\ admin' = [a \in Admins |-> IdleAdmin]
  /\ overlap' = {}
  /\ UNCHANGED <<account, uploads, file>>

-----------------------------------------------------------------------------

ReqProgress(r) ==
  \/ ReqHit(r) \/ ReqMiss(r) \/ ReqUnauthorized(r)
  \/ ReqOpened(r) \/ ReqOpenFailed(r) \/ ReqCall(r) \/ ReqCallEnds(r) \/ ReqDone(r)

Next ==
  \/ \E r \in Requests : ReqProgress(r) \/ \E k \in Keys : ReqAuth(r, k)
  \/ \E c \in Clients : Rotate(c) \/ Collect(c)
  \/ \E a \in Admins :
       \/ \E e \in Emails :
            \/ DeleteStart(a, e)
            \/ \E k \in Keys : UploadStart(a, e, k) \/ ChangeKeyStart(a, e, k)
            \/ \E s \in {"active", "expired"} : SetStatus(a, e, s)
       \/ CloseDrains(a) \/ ClientCloses(a) \/ CloseReturns(a)
  \/ Restart

Spec == Init /\ [][Next]_vars

(* A call comes back (every HTTP request has a timeout), and the loop      *)
(* runs a close() that has nothing left to wait for.  Clients, operators   *)
(* and Google owe nobody anything.                                         *)
Fairness ==
  /\ \A r \in Requests : WF_vars(ReqCallEnds(r))
  /\ \A a \in Admins :
       WF_vars(CloseDrains(a)) /\ WF_vars(ClientCloses(a)) /\ WF_vars(CloseReturns(a))

FairSpec == Spec /\ Fairness

-----------------------------------------------------------------------------
(* Properties *)

StorageState == (0 .. MaxUploads) \X (0 .. MaxAge)

(* Every variable has its type, and an absent row is absent altogether.    *)
TypeOK ==
  /\ account \in [Emails -> [key : Keys \cup {None}, id : 0 .. MaxUploads,
                             state : StorageState,
                             status : {"none", "active", "expired"}]]
  /\ \A e \in Emails : account[e].key = None => account[e] = Absent
  /\ overlap \subseteq {"admin", "open"}
  /\ uploads \in 0 .. MaxUploads
  /\ file \in [Emails -> StorageState]
  /\ pool \in [Keys -> Clients \cup {None}]
  /\ client \in [Clients -> [at : {"unused", "opening", "open", "closing",
                                   "draining", "closed"},
                             email : Emails \cup {None}, state : StorageState]]
  /\ req \in [Requests -> [at : {"idle", "limited", "opening", "serving", "calling"},
                           key : Keys \cup {None}, client : Clients \cup {None}]]
  /\ admin \in [Admins -> [at : {"idle", "closing"},
                           op : {"none", "upload", "delete", "key"},
                           email : Emails \cup {None}, id : 0 .. MaxUploads,
                           key : Keys \cup {None}, then : Keys \cup {None},
                           client : Clients \cup {None}]]

(* A closed client does not stay in the pool, where every request of its   *)
(* key would fail from then on, since nothing reopens one: however admin   *)
(* calls and requests overlap, a request may find it there only while an   *)
(* admin call that waited for its close() has yet to delete that entry.    *)
NoClosedClientPooled ==
  \A k \in Keys :
    pool[k] # None /\ client[pool[k]].at = "closed" =>
      \E a \in Admins :
        admin[a].at = "closing" /\ admin[a].key = k /\ admin[a].client = pool[k]

(* Hot update and routing: as long as admin calls come one at a time and   *)
(* while no client is being opened, what the pool holds for a registered   *)
(* key after each of them is a client of the account that owns the key,    *)
(* opened with the credentials of the row.                                 *)
PoolMatchesTable ==
  Quiet /\ "admin" \notin overlap =>
    \A k \in Keys : \A e \in Owner(k) :
      pool[k] # None =>
        /\ client[pool[k]].email = e
        /\ client[pool[k]].state[1] = account[e].state[1]

(* No client leaks: an open client is one the pool can hand out, and close *)
(* one day, unless two clients were opened at once or an admin call ran    *)
(* into an opening or another admin call: the pool is assigned, and its    *)
(* entries deleted, by key without looking at what they hold.              *)
OpenClientsArePooled ==
  overlap = {} =>
    \A c \in Clients :
      client[c].at \in {"open", "closing", "draining"} => \E k \in Keys : pool[k] = c

(* An opening that fails marks the account expired without a look at the   *)
(* row: as long as no admin call overlaps it, the credentials that failed  *)
(* are those the row still holds.                                          *)
OpensFromRow ==
  "admin" \notin overlap =>
    \A r \in Requests : req[r].at = "opening" =>
      LET c == client[req[r].client] IN
      /\ account[c.email].key = req[r].key
      /\ c.state[1] = account[c.email].state[1]

(* An admin call comes back, also when requests keep arriving for the      *)
(* client it closes.                                                       *)
AdminEnds == \A a \in Admins : admin[a].at = "closing" ~> admin[a].at = "idle"

(* The credentials of a row are replaced by newer uploads only: the sync   *)
(* back of a file never undoes one.                                        *)
UploadsNeverUndone ==
  [][\A e \in Emails :
       account'[e].id = account[e].id => account'[e].state[1] >= account[e].state[1]]_vars

=============================================================================
