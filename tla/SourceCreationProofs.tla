------------------------- MODULE SourceCreationProofs -------------------------
(***************************************************************************)
(* What the creation of a source guarantees: probe-then-create, for any    *)
(* number of calls, attempts and resources, and the uploads of files,      *)
(* for any number of uploads, links and permits.                           *)
(***************************************************************************)
EXTENDS IdempotentCreate, SourceUpload, FiniteSetTheorems, TLAPS

-----------------------------------------------------------------------------
(* Probe-then-create *)

Attempts == 1 .. MaxAttempts
Waiting == {"posted", "probe", "confirm"}
Active == Waiting \cup {"create"}

Used(c, n) == <<c, n>> \in sent \/ \E i \in Ids : maker[i] = <<c, n>>

(* A request makes at most one resource, and none while it is still to be  *)
(* executed.  A call with no excuse has made at most one altogether, and   *)
(* none of them is older than the call.                                    *)
ResourcesInv ==
  /\ \A i \in Ids : maker[i] \notin sent
  /\ \A i, j \in Ids : maker[i] \in Requests /\ maker[i] = maker[j] => i = j
  /\ \A c \in Callers :
       /\ before[c] \subseteq Created
       /\ before[c] \cap MadeBy(c) = {}
       /\ c \notin blind \cup late => \A i, j \in MadeBy(c) : i = j

(* A call in state r has sent the requests of its attempts so far, takes   *)
(* nothing for old that it has made itself, and returns nothing old, but   *)
(* for want of a baseline.                                                 *)
CallOK(c, r) ==
  /\ \A n \in Attempts : Used(c, n) =>
       /\ r.at \notin {"idle", "list"}
       /\ r.at = "create" => n < r.attempt
       /\ r.at \in Waiting => n <= r.attempt
  /\ r.baseline \cap MadeBy(c) = {}
  /\ r.baseline \subseteq Created
  /\ r.at \in Active /\ r.known /\ r.kind # "url" => before[c] \subseteq r.baseline
  /\ r.at = "done" /\ r.kind # "url" /\ r.result \in before[c] =>
       ~r.known /\ (r.kind = "notebook" \/ r.named)

(* It has made nothing before its present attempt.                         *)
AllLanded(c, r) ==
  /\ r.at = "create" => MadeBy(c) = {}
  /\ r.at \in Waiting =>
       \A i \in Ids, n \in Attempts : maker[i] = <<c, n>> => n = r.attempt

IInv ==
  /\ TypeOK
  /\ ResourcesInv
  /\ \A c \in Callers : CallOK(c, call[c])
  /\ \A c \in Callers : c \notin blind \cup late => AllLanded(c, call[c])

-----------------------------------------------------------------------------

LEMMA InitInvariant == Init => IInv
<1> SUFFICES ASSUME Init PROVE IInv
  OBVIOUS
<1>1. NewCall \in CallRecord
  BY CreateAssumption DEF NewCall, CallRecord
<1>2. TypeOK
  BY <1>1 DEF Init, TypeOK
<1>3. Created = {} /\ \A c \in Callers : MadeBy(c) = {}
  BY CreateAssumption DEF Init, Created, MadeBy
<1>4. \A c \in Callers, n \in Attempts : ~Used(c, n)
  BY CreateAssumption DEF Init, Used, Attempts
<1>5. ResourcesInv
  BY <1>3, CreateAssumption DEF Init, ResourcesInv, Requests
<1>6. \A c \in Callers : CallOK(c, call[c]) /\ AllLanded(c, call[c])
  BY <1>3, <1>4 DEF Init, CallOK, AllLanded, NewCall, Waiting, Active
<1> QED
  BY <1>2, <1>5, <1>6 DEF IInv

(* A step of one call that leaves Google alone.                            *)
LEMMA CallMoves ==
  ASSUME IInv, NEW c \in Callers, NEW r \in CallRecord,
         call' = [call EXCEPT ![c] = r], UNCHANGED <<maker, sent, before, late>>,
         blind \subseteq blind', blind' \subseteq Callers,
         CallOK(c, r), c \in blind' \cup late \/ AllLanded(c, r)
  PROVE  IInv'
<1>1. TypeOK'
  BY DEF IInv, TypeOK
<1>2. Created' = Created /\ \A d \in Callers : MadeBy(d)' = MadeBy(d)
  BY DEF Created, MadeBy
<1>3. ResourcesInv'
  BY <1>2 DEF IInv, ResourcesInv
<1>4. call'[c] = r /\ \A d \in Callers : d # c => call'[d] = call[d]
  BY DEF IInv, TypeOK
<1>5. \A d \in Callers : CallOK(d, call[d])'
  <2> SUFFICES ASSUME NEW d \in Callers PROVE CallOK(d, call[d])'
    OBVIOUS
  <2>1. \A n \in Attempts : Used(d, n)' <=> Used(d, n)
    BY DEF Used
  <2> QED
    BY <1>2, <1>4, <2>1 DEF IInv, CallOK
<1>6. \A d \in Callers : d \notin blind' \cup late' => AllLanded(d, call[d])'
  BY <1>2, <1>4 DEF IInv, AllLanded
<1> QED
  BY <1>1, <1>3, <1>5, <1>6 DEF IInv

(* Giving up keeps nothing to be wrong about.                              *)
LEMMA RaiseKeeps ==
  ASSUME IInv, NEW c \in Callers, Raise(c), UNCHANGED <<maker, sent, before, late>>,
         blind \subseteq blind', blind' \subseteq Callers
  PROVE  IInv'
<1> DEFINE r == [NewCall EXCEPT !.at = "failed"]
<1>0. NewCall \in CallRecord
  BY CreateAssumption DEF NewCall, CallRecord
<1>1. r \in CallRecord
  BY <1>0 DEF CallRecord
<1>2. CallOK(c, r) /\ AllLanded(c, r)
  BY DEF CallOK, AllLanded, NewCall, Waiting, Active
<1> QED
  BY <1>1, <1>2, CallMoves DEF Raise

LEMMA ReturnKeeps ==
  ASSUME IInv, NEW c \in Callers, NEW i \in Ids, NEW named \in BOOLEAN, Return(c, i, named),
         UNCHANGED <<maker, sent, before, blind, late>>,
         call[c].kind # "url" /\ i \in before[c] =>
           ~call[c].known /\ (call[c].kind = "notebook" \/ named)
  PROVE  IInv'
<1> DEFINE r == [NewCall EXCEPT !.at = "done", !.kind = call[c].kind,
                                !.known = call[c].known, !.result = i, !.named = named]
<1>1. call[c].kind \in {"url", "notebook", "file"} /\ call[c].known \in BOOLEAN
  BY DEF IInv, TypeOK, CallRecord
<1>0. NewCall \in CallRecord
  BY CreateAssumption DEF NewCall, CallRecord
<1>2. r \in CallRecord
  BY <1>0, <1>1 DEF CallRecord
<1>3. CallOK(c, r) /\ AllLanded(c, r)
  BY DEF CallOK, AllLanded, NewCall, Waiting, Active
<1>4. blind \subseteq Callers
  BY DEF IInv, TypeOK
<1> QED
  BY <1>2, <1>3, <1>4, CallMoves DEF Return

(* What a call has made is there, and was made by a request it used.       *)
LEMMA MadeIsCreated ==
  ASSUME IInv, NEW c \in Callers
  PROVE  /\ MadeBy(c) \subseteq Created
         /\ (\A n \in Attempts : ~Used(c, n)) => MadeBy(c) = {}
BY CreateAssumption DEF MadeBy, Created, Used, Attempts

LEMMA CallFacts ==
  ASSUME IInv, NEW c \in Callers
  PROVE  /\ call[c] \in CallRecord /\ call[c].attempt \in Attempts
         /\ CallOK(c, call[c])
         /\ c \in blind \cup late \/ AllLanded(c, call[c])
BY DEF IInv, TypeOK, CallRecord, Attempts

(* The next attempt follows only a probe that was right, or an excuse.     *)
LEMMA NotFoundKeeps ==
  ASSUME IInv, NEW c \in Callers, NotFound(c), call[c].at \in {"probe", "confirm"},
         UNCHANGED <<maker, sent, before, late>>,
         blind \subseteq blind', blind' \subseteq Callers,
         c \in blind' \cup late \/ MadeBy(c) = {}
  PROVE  IInv'
<1>1. CASE Raise(c)
  BY <1>1, RaiseKeeps
<1>2. CASE ~Raise(c)
  <2> DEFINE r == [call[c] EXCEPT !.at = "create", !.attempt = @ + 1]
  <2>1. call[c].at = "probe" /\ call[c].attempt < MaxAttempts
    BY <1>2 DEF NotFound
  <2>2. call' = [call EXCEPT ![c] = r]
    BY <2>1 DEF NotFound
  <2>3. call[c] \in CallRecord /\ call[c].attempt \in Attempts /\ CallOK(c, call[c])
    BY CallFacts
  <2>4. call[c].attempt + 1 \in 1 .. MaxAttempts
    BY <2>1, <2>3, CreateAssumption DEF Attempts
  <2>5. r \in CallRecord
    BY <2>3, <2>4 DEF CallRecord
  <2>6. /\ r.at = "create" /\ r.attempt = call[c].attempt + 1 /\ r.known = call[c].known
        /\ r.baseline = call[c].baseline /\ r.kind = call[c].kind
    BY <2>3 DEF CallRecord
  <2>7. \A n \in Attempts : Used(c, n) => n < r.attempt
    BY <2>1, <2>3, <2>6 DEF CallOK, Attempts, Waiting
  <2>8. CallOK(c, r)
    BY <2>1, <2>3, <2>6, <2>7 DEF CallOK, Waiting, Active
  <2>9. c \in blind' \cup late \/ AllLanded(c, r)
    BY <2>6 DEF AllLanded, Waiting
  <2> QED
    BY <2>2, <2>5, <2>8, <2>9, CallMoves
<1> QED
  BY <1>1, <1>2

LEMMA StartKeeps ==
  ASSUME IInv, NEW c \in Callers, NEW kind \in Kinds, Start(c, kind)
  PROVE  IInv'
<1> DEFINE r == [NewCall EXCEPT !.at = IF kind = "url" THEN "create" ELSE "list",
                                !.kind = kind]
<1>1. /\ call[c].at = "idle" /\ call' = [call EXCEPT ![c] = r]
      /\ before' = [before EXCEPT ![c] = Created]
      /\ UNCHANGED <<maker, sent, blind, late>>
  BY DEF Start
<1>2. kind \in {"url", "notebook", "file"} /\ NewCall \in CallRecord
  BY CreateAssumption DEF NewCall, CallRecord
<1>3. r \in CallRecord
  BY <1>2 DEF CallRecord
<1>4. TypeOK'
  BY <1>1, <1>3 DEF IInv, TypeOK, Created
<1>5. Created' = Created /\ \A d \in Callers : MadeBy(d)' = MadeBy(d)
  BY <1>1 DEF Created, MadeBy
<1>6. (\A n \in Attempts : ~Used(c, n)) /\ MadeBy(c) = {}
  BY <1>1, CallFacts, MadeIsCreated DEF CallOK
<1>7. /\ call'[c] = r /\ before'[c] = Created
      /\ \A d \in Callers : d # c => call'[d] = call[d] /\ before'[d] = before[d]
  BY <1>1 DEF IInv, TypeOK
<1>8. ResourcesInv'
  BY <1>1, <1>5, <1>6, <1>7 DEF IInv, ResourcesInv
<1>9. ASSUME NEW d \in Callers PROVE CallOK(d, call[d])'
  <2>1. \A n \in Attempts : Used(d, n)' <=> Used(d, n)
    BY <1>1 DEF Used
  <2>2. CASE d = c
    <3>1. /\ r.at \in {"create", "list"} /\ r.baseline = {} /\ r.kind = kind
          /\ r.at = "create" => r.kind = "url"
      BY DEF NewCall
    <3> QED
      BY <1>6, <1>7, <2>1, <2>2, <3>1 DEF CallOK, Active, Waiting
  <2>3. CASE d # c
    BY <1>5, <1>7, <2>1, <2>3 DEF IInv, CallOK
  <2> QED
    BY <2>2, <2>3
<1>10. ASSUME NEW d \in Callers, d \notin blind' \cup late' PROVE AllLanded(d, call[d])'
  <2>1. CASE d = c
    BY <1>5, <1>6, <1>7, <2>1 DEF NewCall, AllLanded, Waiting
  <2>2. CASE d # c
    BY <1>1, <1>5, <1>7, <1>10, <2>2 DEF IInv, AllLanded
  <2> QED
    BY <2>1, <2>2
<1> QED
  BY <1>4, <1>8, <1>9, <1>10 DEF IInv

LEMMA TakeBaselineKeeps ==
  ASSUME IInv, NEW c \in Callers, NEW found \in SUBSET Created, NEW known \in BOOLEAN,
         TakeBaseline(c, found, known), known => found = Created
  PROVE  IInv'
<1> DEFINE r == [call[c] EXCEPT !.at = "create", !.baseline = found, !.known = known]
<1>1. /\ call[c].at = "list" /\ call' = [call EXCEPT ![c] = r]
      /\ UNCHANGED <<maker, sent, before, blind, late>>
  BY DEF TakeBaseline
<1>2. call[c] \in CallRecord /\ CallOK(c, call[c]) /\ found \in SUBSET Ids
  BY CallFacts DEF Created
<1>3. r \in CallRecord
  BY <1>2 DEF CallRecord
<1>4. /\ r.at = "create" /\ r.baseline = found /\ r.known = known
      /\ r.kind = call[c].kind /\ r.attempt = call[c].attempt
  BY <1>2 DEF CallRecord
<1>5. (\A n \in Attempts : ~Used(c, n)) /\ MadeBy(c) = {}
  BY <1>1, <1>2, MadeIsCreated DEF CallOK
<1>6. before[c] \subseteq Created
  BY DEF IInv, ResourcesInv
<1>7. CallOK(c, r)
  BY <1>4, <1>5, <1>6 DEF CallOK, Active, Waiting
<1>8. AllLanded(c, r)
  BY <1>4, <1>5 DEF AllLanded, Waiting
<1>9. blind \subseteq Callers
  BY DEF IInv, TypeOK
<1> QED
  BY <1>1, <1>3, <1>7, <1>8, <1>9, CallMoves

LEMMA PostKeeps ==
  ASSUME IInv, NEW c \in Callers, Post(c)
  PROVE  IInv'
<1> DEFINE r == [call[c] EXCEPT !.at = "posted"]
<1> DEFINE n == call[c].attempt
<1>1. /\ call[c].at = "create" /\ call' = [call EXCEPT ![c] = r]
      /\ sent' = sent \cup {<<c, n>>} /\ UNCHANGED <<maker, before, blind, late>>
  BY DEF Post
<1>2. call[c] \in CallRecord /\ n \in Attempts /\ CallOK(c, call[c])
  BY CallFacts
<1>3. r \in CallRecord /\ <<c, n>> \in Requests
  BY <1>2 DEF CallRecord, Requests, Attempts
<1>4. /\ r.at = "posted" /\ r.baseline = call[c].baseline /\ r.known = call[c].known
      /\ r.kind = call[c].kind /\ r.attempt = n
  BY <1>2 DEF CallRecord
<1>5. TypeOK'
  BY <1>1, <1>3 DEF IInv, TypeOK
<1>6. Created' = Created /\ \A d \in Callers : MadeBy(d)' = MadeBy(d)
  BY <1>1 DEF Created, MadeBy
<1>7. ~Used(c, n)
  BY <1>1, <1>2 DEF CallOK, Attempts
<1>8. ResourcesInv'
  BY <1>1, <1>6, <1>7 DEF IInv, ResourcesInv, Used
<1>9. call'[c] = r /\ \A d \in Callers : d # c => call'[d] = call[d]
  BY <1>1 DEF IInv, TypeOK
<1>10. ASSUME NEW d \in Callers PROVE CallOK(d, call[d])'
  <2>1. CASE d = c
    <3>1. \A m \in Attempts : Used(c, m)' => m <= n
      BY <1>1, <1>2 DEF Used, CallOK, Attempts
    <3> QED
      BY <1>1, <1>2, <1>4, <1>6, <1>9, <2>1, <3>1 DEF CallOK, Active, Waiting
  <2>2. CASE d # c
    <3>1. \A m \in Attempts : Used(d, m)' <=> Used(d, m)
      BY <1>1, <2>2 DEF Used
    <3> QED
      BY <1>1, <1>6, <1>9, <2>2, <3>1 DEF IInv, CallOK
  <2> QED
    BY <2>1, <2>2
<1>11. ASSUME NEW d \in Callers, d \notin blind' \cup late' PROVE AllLanded(d, call[d])'
  <2>1. CASE d = c
    <3>1. MadeBy(c) = {}
      BY <1>1, <1>11, <2>1, CallFacts DEF AllLanded
    <3> QED
      BY <1>1, <1>4, <1>9, <2>1, <3>1 DEF AllLanded, MadeBy, Attempts
  <2>2. CASE d # c
    BY <1>1, <1>6, <1>9, <1>11, <2>2 DEF IInv, AllLanded
  <2> QED
    BY <2>1, <2>2
<1> QED
  BY <1>5, <1>8, <1>10, <1>11 DEF IInv

(* Google executes a request that nobody had executed before.  If its call *)
(* has no excuse it is the request of the present attempt and the first of *)
(* this call to be executed.                                               *)
LEMMA ExecuteKeeps ==
  ASSUME IInv, NEW c \in Callers, NEW n \in Attempts, NEW i \in Ids, Execute(c, n, i)
  PROVE  IInv'
<1>1. /\ <<c, n>> \in sent /\ maker[i] = None
      /\ maker' = [maker EXCEPT ![i] = <<c, n>>] /\ sent' = sent \ {<<c, n>>}
      /\ UNCHANGED <<call, before, blind>>
      /\ late' = IF MayBeFound(c, n) THEN late ELSE late \cup {c}
  BY DEF Execute
<1>2. <<c, n>> \in Requests /\ <<c, n>> # None
  BY CreateAssumption DEF Requests, Attempts
<1>3. TypeOK'
  BY <1>1, <1>2 DEF IInv, TypeOK
<1>4. maker'[i] = <<c, n>> /\ \A j \in Ids : j # i => maker'[j] = maker[j]
  BY <1>1 DEF IInv, TypeOK
<1>5. i \notin Created /\ Created \subseteq Created'
  BY <1>1, <1>2, <1>4 DEF Created
<1>6. \A d \in Callers, m \in Attempts : Used(d, m)' => Used(d, m)
  BY <1>1, <1>4 DEF Used
<1>7. \A d \in Callers : MadeBy(d)' = IF d = c THEN MadeBy(c) \cup {i} ELSE MadeBy(d)
  <2>1. \A d \in Callers, j \in Ids, m \in Attempts :
          maker'[j] = <<d, m>> <=> (j # i /\ maker[j] = <<d, m>>)
                                     \/ (j = i /\ d = c /\ m = n)
    BY <1>4
  <2>2. \A d \in Callers : i \notin MadeBy(d)
    BY <1>5, MadeIsCreated
  <2> QED
    BY <2>1, <2>2 DEF MadeBy, Attempts
<1>8. late \subseteq late' /\ (c \notin late' => MayBeFound(c, n))
  BY <1>1
<1>9. c \notin blind' \cup late' => MadeBy(c) = {} /\ call[c].at \in Waiting /\ call[c].attempt = n
  <2> SUFFICES ASSUME c \notin blind' \cup late'
               PROVE  MadeBy(c) = {} /\ call[c].at \in Waiting /\ call[c].attempt = n
    OBVIOUS
  <2>1. call[c].at \in Waiting /\ call[c].attempt = n
    BY <1>8 DEF MayBeFound, Waiting
  <2>2. AllLanded(c, call[c])
    BY <1>1, <1>8, CallFacts
  <2>3. \A j \in Ids : maker[j] # <<c, n>>
    BY <1>1 DEF IInv, ResourcesInv
  <2> QED
    BY <2>1, <2>2, <2>3 DEF AllLanded, MadeBy, Attempts
<1>10. ResourcesInv'
  <2>1. \A j \in Ids : maker'[j] \notin sent'
    BY <1>1, <1>4 DEF IInv, ResourcesInv
  <2>2. \A j, k \in Ids : maker'[j] \in Requests /\ maker'[j] = maker'[k] => j = k
    BY <1>1, <1>4 DEF IInv, ResourcesInv
  <2>3. ASSUME NEW d \in Callers
        PROVE  before'[d] \subseteq Created' /\ before'[d] \cap MadeBy(d)' = {}
    BY <1>1, <1>5, <1>7 DEF IInv, ResourcesInv
  <2>4. ASSUME NEW d \in Callers, d \notin blind' \cup late'
        PROVE  \A j, k \in MadeBy(d)' : j = k
    BY <1>1, <1>7, <1>8, <1>9, <2>4 DEF IInv, ResourcesInv
  <2> QED
    BY <2>1, <2>2, <2>3, <2>4 DEF ResourcesInv
<1>11. ASSUME NEW d \in Callers PROVE CallOK(d, call[d])'
  <2>1. CallOK(d, call[d]) /\ i \notin call[d].baseline
    BY <1>5, CallFacts DEF CallOK
  <2>2. call'[d] = call[d] /\ before'[d] = before[d]
    BY <1>1
  <2>3. call[d].baseline \cap MadeBy(d)' = {} /\ call[d].baseline \subseteq Created'
    BY <1>5, <1>7, <2>1 DEF CallOK
  <2> QED
    BY <1>6, <2>1, <2>2, <2>3 DEF CallOK
<1>12. ASSUME NEW d \in Callers, d \notin blind' \cup late' PROVE AllLanded(d, call[d])'
  <2>1. CASE d = c
    <3>1. \A j \in Ids, m \in Attempts : maker'[j] = <<c, m>> => m = n
      BY <1>4, <1>9, <1>12, <2>1 DEF MadeBy, Attempts
    <3> QED
      BY <1>1, <1>9, <1>12, <2>1, <3>1 DEF AllLanded, Waiting
  <2>2. CASE d # c
    <3>1. AllLanded(d, call[d]) /\ call'[d] = call[d] /\ MadeBy(d)' = MadeBy(d)
      BY <1>1, <1>7, <1>8, <1>12, <2>2 DEF IInv
    <3>2. \A j \in Ids, m \in Attempts : maker'[j] = <<d, m>> => maker[j] = <<d, m>>
      BY <1>4, <2>2
    <3> QED
      BY <3>1, <3>2 DEF AllLanded
  <2> QED
    BY <2>1, <2>2
<1> QED
  BY <1>3, <1>10, <1>11, <1>12 DEF IInv

LEMMA DropKeeps ==
  ASSUME IInv, NEW r \in sent, Drop(r)
  PROVE  IInv'
<1>1. sent' = sent \ {r} /\ UNCHANGED <<maker, call, before, blind, late>>
  BY DEF Drop
<1>2. TypeOK' /\ Created' = Created /\ \A d \in Callers : MadeBy(d)' = MadeBy(d)
  BY <1>1 DEF IInv, TypeOK, Created, MadeBy
<1>3. \A d \in Callers, m \in Attempts : Used(d, m)' => Used(d, m)
  BY <1>1 DEF Used
<1>4. ResourcesInv'
  BY <1>1, <1>2 DEF IInv, ResourcesInv
<1>5. \A d \in Callers : CallOK(d, call[d])'
  BY <1>1, <1>2, <1>3 DEF IInv, CallOK
<1>6. \A d \in Callers : d \notin blind' \cup late' => AllLanded(d, call[d])'
  BY <1>1, <1>2 DEF IInv, AllLanded
<1> QED
  BY <1>2, <1>4, <1>5, <1>6 DEF IInv

LEMMA OthersKeep ==
  ASSUME IInv, NEW i \in Ids, OthersCreate(i)
  PROVE  IInv'
<1>1. /\ maker[i] = None /\ maker' = [maker EXCEPT ![i] = Others]
      /\ UNCHANGED <<sent, call, before, blind, late>>
  BY DEF OthersCreate
<1>2. TypeOK'
  BY <1>1 DEF IInv, TypeOK
<1>3. maker'[i] = Others /\ \A j \in Ids : j # i => maker'[j] = maker[j]
  BY <1>1 DEF IInv, TypeOK
<1>4. Others \notin Requests /\ None \notin Requests
  BY CreateAssumption DEF Requests
<1>5. \A d \in Callers, j \in Ids, m \in Attempts : maker'[j] = <<d, m>> <=> maker[j] = <<d, m>>
  BY <1>1, <1>3, <1>4 DEF Requests, Attempts
<1>6. Created \subseteq Created' /\ \A d \in Callers : MadeBy(d)' = MadeBy(d)
  BY <1>3, <1>5, CreateAssumption DEF Created, MadeBy, Attempts
<1>7. \A d \in Callers, m \in Attempts : Used(d, m)' <=> Used(d, m)
  BY <1>1, <1>5 DEF Used
<1>8. ResourcesInv'
  <2>1. \A j \in Ids : maker'[j] \notin sent'
    BY <1>1, <1>3, <1>4 DEF IInv, ResourcesInv, TypeOK
  <2>2. \A j, k \in Ids : maker'[j] \in Requests /\ maker'[j] = maker'[k] => j = k
    BY <1>1, <1>3, <1>4 DEF IInv, ResourcesInv
  <2>3. \A d \in Callers :
          /\ before'[d] \subseteq Created' /\ before'[d] \cap MadeBy(d)' = {}
          /\ d \notin blind' \cup late' => \A j, k \in MadeBy(d)' : j = k
    BY <1>1, <1>6 DEF IInv, ResourcesInv
  <2> QED
    BY <2>1, <2>2, <2>3 DEF ResourcesInv
<1>9. \A d \in Callers : CallOK(d, call[d])'
  BY <1>1, <1>6, <1>7 DEF IInv, CallOK
<1>10. \A d \in Callers : d \notin blind' \cup late' => AllLanded(d, call[d])'
  BY <1>1, <1>5, <1>6 DEF IInv, AllLanded
<1> QED
  BY <1>2, <1>8, <1>9, <1>10 DEF IInv

LEMMA ReplyKeeps ==
  ASSUME IInv, NEW c \in Callers, Reply(c)
  PROVE  IInv'
<1>1. PICK i \in Ids : maker[i] = <<c, call[c].attempt>> /\ Return(c, i, TRUE)
  BY DEF Reply
<1>2. i \in MadeBy(c)
  BY <1>1, CallFacts DEF MadeBy, Attempts
<1>3. i \notin before[c]
  BY <1>2 DEF IInv, ResourcesInv
<1> QED
  BY <1>1, <1>3, ReturnKeeps DEF Reply

(* From posted to confirm or probe: still the same attempt.                *)
LEMMA WaitKeeps ==
  ASSUME IInv, NEW c \in Callers, call[c].at = "posted",
         NEW next \in {"probe", "confirm"},
         call' = [call EXCEPT ![c] = [@ EXCEPT !.at = next]],
         UNCHANGED <<maker, sent, before, blind, late>>
  PROVE  IInv'
<1> DEFINE r == [call[c] EXCEPT !.at = next]
<1>1. call[c] \in CallRecord /\ CallOK(c, call[c])
      /\ (c \in blind \cup late \/ AllLanded(c, call[c]))
  BY CallFacts
<1>2. r \in CallRecord
  BY <1>1 DEF CallRecord
<1>3. /\ r.at = next /\ r.baseline = call[c].baseline /\ r.known = call[c].known
      /\ r.kind = call[c].kind /\ r.attempt = call[c].attempt
  BY <1>1 DEF CallRecord
<1>4. CallOK(c, r)
  BY <1>1, <1>3 DEF CallOK, Active, Waiting
<1>5. c \in blind' \cup late \/ AllLanded(c, r)
  BY <1>1, <1>3 DEF AllLanded, Waiting
<1>6. blind \subseteq Callers
  BY DEF IInv, TypeOK
<1> QED
  BY <1>2, <1>4, <1>5, <1>6, CallMoves

(* What the baseline has is not believed; without one the answer is.       *)
LEMMA ReplyNamesKeeps ==
  ASSUME IInv, NEW c \in Callers, ReplyNamesAnother(c)
  PROVE  IInv'
<1>1. PICK i \in Created : ReplyNames(c, i, ~call[c].known \/ i \notin call[c].baseline)
  BY DEF ReplyNamesAnother
<1>2. /\ call[c].at = "posted" /\ call[c].kind = "file"
      /\ UNCHANGED <<maker, sent, before, blind, late>> /\ i \in Ids
  BY <1>1 DEF ReplyNames, Created
<1>3. CASE ~call[c].known \/ i \notin call[c].baseline
  <2>1. Return(c, i, TRUE)
    BY <1>1, <1>3 DEF ReplyNames
  <2>2. i \in before[c] => ~call[c].known
    BY <1>2, <1>3, CallFacts DEF CallOK, Active, Waiting
  <2> QED
    BY <1>2, <2>1, <2>2, ReturnKeeps
<1>4. CASE ~(~call[c].known \/ i \notin call[c].baseline)
  BY <1>1, <1>2, <1>4, WaitKeeps DEF ReplyNames
<1> QED
  BY <1>3, <1>4

(* What is trusted is not older than the call, and no match means that     *)
(* nothing has been made.                                                  *)
LEMMA ProbeKeeps ==
  ASSUME IInv, NEW c \in Callers, Probe(c)
  PROVE  IInv'
<1>1. /\ call[c].at \in {"probe", "confirm"}
      /\ UNCHANGED <<maker, sent, before, blind, late>>
  BY DEF Probe, ProbeSees
<1>2. call[c] \in CallRecord /\ CallOK(c, call[c]) /\ blind \subseteq Callers
  BY CallFacts DEF IInv, TypeOK
<1>3. CASE Trusted(call[c]) /\ \E i \in Matches(call[c]) : Return(c, i, FALSE)
  <2>1. PICK i \in Matches(call[c]) : Return(c, i, FALSE)
    BY <1>3
  <2>2. i \in Ids
    BY DEF Matches, Created
  <2>3. call[c].kind = "file" => call[c].known
    BY <1>3 DEF Trusted
  <2>4. call[c].kind # "url" /\ i \in before[c] => ~call[c].known /\ call[c].kind = "notebook"
    <3> SUFFICES ASSUME call[c].kind # "url", i \in before[c]
                 PROVE  ~call[c].known /\ call[c].kind = "notebook"
      OBVIOUS
    <3>1. i \notin call[c].baseline
      BY DEF Matches
    <3>2. call[c].known => before[c] \subseteq call[c].baseline
      BY <1>1, <1>2 DEF CallOK, Active, Waiting
    <3> QED
      BY <1>2, <2>3, <3>1, <3>2 DEF CallRecord
  <2> QED
    BY <1>1, <2>1, <2>2, <2>4, ReturnKeeps
<1>4. CASE Raise(c)
  BY <1>1, <1>2, <1>4, RaiseKeeps
<1>5. CASE Matches(call[c]) = {} /\ NotFound(c)
  <2>1. MadeBy(c) = {}
    BY <1>2, <1>5, MadeIsCreated DEF Matches, CallOK
  <2> QED
    BY <1>1, <1>2, <1>5, <2>1, NotFoundKeeps
<1> QED
  BY <1>3, <1>4, <1>5 DEF Probe, ProbeSees

LEMMA CallerKeeps ==
  ASSUME IInv, NEW c \in Callers, Caller(c)
  PROVE  IInv'
<1>1. blind \subseteq Callers /\ blind \cup {c} \subseteq Callers
  BY DEF IInv, TypeOK
<1>2. ASSUME NEW kind \in Kinds, Start(c, kind) PROVE IInv'
  BY <1>2, StartKeeps
<1>3. CASE Baseline(c)
  BY <1>3, TakeBaselineKeeps DEF Baseline
<1>4. CASE BaselineFails(c)
  BY <1>4, TakeBaselineKeeps DEF BaselineFails
<1>5. CASE Post(c)
  BY <1>5, PostKeeps
<1>6. CASE Reply(c)
  BY <1>6, ReplyKeeps
<1>13. CASE ReplyNamesAnother(c)
  BY <1>13, ReplyNamesKeeps
<1>7. CASE ReplyUseless(c)
  BY <1>1, <1>7, RaiseKeeps, WaitKeeps DEF ReplyUseless
<1>8. CASE ReplyLost(c)
  BY <1>8, WaitKeeps DEF ReplyLost
<1>9. CASE Probe(c)
  BY <1>9, ProbeKeeps
<1>10. CASE ProbeFails(c)
  BY <1>1, <1>10, RaiseKeeps DEF ProbeFails
<1>11. CASE ProbeUnreadable(c)
  BY <1>1, <1>11, NotFoundKeeps DEF ProbeUnreadable
<1>12. CASE Cancel(c)
  BY <1>1, <1>12, RaiseKeeps DEF Cancel
<1> QED
  BY <1>2, <1>3, <1>4, <1>5, <1>6, <1>7, <1>8, <1>9, <1>10, <1>11, <1>12,
     <1>13 DEF Caller

-----------------------------------------------------------------------------

(* The invariant holds at every moment, for every step of the callers and  *)
(* of Google.                                                              *)
THEOREM CreateInvariant == Spec => []IInv
<1>1. IInv /\ [Next]_vars => IInv'
  <2> SUFFICES ASSUME IInv, [Next]_vars PROVE IInv'
    OBVIOUS
  <2>1. CASE UNCHANGED vars
    <3>1. TypeOK' /\ ResourcesInv'
      BY <2>1 DEF vars, IInv, TypeOK, ResourcesInv, Created, MadeBy
    <3>2. \A c \in Callers :
            CallOK(c, call[c])' /\ (c \notin (blind \cup late)' => AllLanded(c, call[c])')
      BY <2>1 DEF vars, IInv, CallOK, AllLanded, Used, Created, MadeBy
    <3> QED
      BY <3>1, <3>2 DEF IInv
  <2>2. ASSUME NEW c \in Callers, NEW n \in 1 .. MaxAttempts, NEW i \in Ids, Execute(c, n, i)
        PROVE  IInv'
    BY <2>2, ExecuteKeeps DEF Attempts
  <2>3. ASSUME NEW r \in sent, Drop(r) PROVE IInv'
    BY <2>3, DropKeeps
  <2>4. ASSUME NEW i \in Ids, OthersCreate(i) PROVE IInv'
    BY <2>4, OthersKeep
  <2>5. ASSUME NEW c \in Callers, Caller(c) PROVE IInv'
    BY <2>5, CallerKeeps
  <2> QED
    BY <2>1, <2>2, <2>3, <2>4, <2>5 DEF Next, Google
<1> QED
  BY <1>1, InitInvariant, PTL DEF Spec

(* Every variable of the creates has its type.                             *)
THEOREM CreateTypeOK == Spec => []TypeOK
<1>1. IInv => TypeOK
  BY DEF IInv
<1> QED
  BY <1>1, CreateInvariant, PTL

(* A call makes at most one resource, except after an unreadable list or a *)
(* request that was executed too late for its probe.                       *)
THEOREM AtMostOneResource == Spec => []DuplicatesExplained
<1>1. IInv => DuplicatesExplained
  <2> SUFFICES ASSUME IInv, NEW c \in Callers, c \notin blind \cup late
               PROVE  ~(Cardinality(MadeBy(c)) > 1)
    BY DEF DuplicatesExplained
  <2>1. \A i, j \in MadeBy(c) : i = j
    BY DEF IInv, ResourcesInv
  <2>2. CASE MadeBy(c) = {}
    BY <2>2, FS_EmptySet
  <2>3. CASE MadeBy(c) # {}
    <3>1. PICK i \in MadeBy(c) : MadeBy(c) = {i}
      BY <2>1, <2>3
    <3>2. Cardinality({i}) = 1
      BY FS_Singleton
    <3> QED
      BY <3>1, <3>2
  <2> QED
    BY <2>2, <2>3
<1> QED
  BY <1>1, CreateInvariant, PTL

(* What a call returns as its own is not older than the call, except where *)
(* it could not list what was there: then a notebook may be, and a file if *)
(* the answer to its registration has named it.                            *)
THEOREM NothingOldIsReturned == Spec => []ResultIsNew
<1>1. IInv => ResultIsNew
  BY DEF IInv, CallOK, ResultIsNew
<1> QED
  BY <1>1, CreateInvariant, PTL

-----------------------------------------------------------------------------
(* Uploads *)

Stages ==
  {"idle", "spooling", "queued", "opening", "registering", "starting", "announcing",
   "streaming", "landing", "waiting", "renaming", "done", "failed", "cancelled"}

CallsTyped ==
  /\ at \in [Uploads -> Stages] /\ plan \in [Uploads -> Plans]
  /\ link \in [Uploads -> Links \cup {NoLink}]

StoreTyped ==
  /\ active \subseteq Links /\ seen \subseteq Links
  /\ expired \subseteq Links /\ evicted \subseteq Links

(* The permits, the route and the link store within their limits.          *)
Bounded ==
  /\ IsFiniteSet(Permits) /\ Cardinality(Permits) <= MaxConcurrent
  /\ IsFiniteSet(Inflight) /\ Cardinality(Inflight) <= MaxInflight
  /\ IsFiniteSet(seen) /\ Cardinality(seen) <= MaxSeen

(* A link in use is active, and only one call uses it; a link that was burnt*)
(* is remembered until it expires, and can burn again only once forgotten. *)
LinksOK ==
  /\ \A u \in Uploads :
       /\ at[u] = "idle" => link[u] = NoLink
       /\ Live(u) /\ link[u] # NoLink => link[u] \in active
       /\ at[u] = "done" /\ link[u] # NoLink => link[u] \in seen \cup evicted \cup expired
  /\ \A u, v \in Uploads :
       u # v /\ link[u] = link[v] /\ link[u] # NoLink =>
         /\ ~(Live(u) /\ Live(v))
         /\ at[u] = "done" /\ (Live(v) \/ at[v] = "done") => link[u] \in evicted

CallsInv == CallsTyped /\ StoreTyped /\ Bounded /\ LinksOK

TasksTyped ==
  /\ fd \in [Uploads -> {"none", "open", "closed", "orphan"}]
  /\ task \in [Uploads -> {"none", "created", "posting", "dying", "stillborn", "sent", "broken"}]
  /\ session \in [Uploads -> {"none", "open", "finalized", "dropped"}]
  /\ dropping \subseteq Uploads /\ abandoned \subseteq Uploads

(* How far the call, its file, its task and its session have come together.*)
(* The hand-off is at the end of "announcing": before it there is no task, *)
(* after it the call stands where the state of the task lets it.           *)
HandedOff ==
  \A u \in Uploads :
    /\ at[u] \in {"idle", "spooling", "queued", "opening"} => task[u] = "none" /\ fd[u] = "none"
    /\ at[u] \in {"idle", "spooling", "queued", "opening", "registering"} => session[u] = "none"
    /\ at[u] \in {"registering", "starting", "announcing"} => task[u] = "none" /\ fd[u] = "open"
    /\ at[u] = "streaming" => task[u] \in {"created", "posting", "stillborn", "sent", "broken"}
    /\ at[u] = "landing" => task[u] \in {"posting", "sent", "broken"}
    /\ at[u] \in {"waiting", "renaming", "done"} => task[u] = "sent"
    /\ task[u] = "created" => at[u] = "streaming"
    /\ task[u] = "posting" => at[u] \in {"streaming", "landing"} \/ u \in abandoned
    /\ task[u] = "none" => session[u] \in {"none", "open"}

TasksInv == TasksTyped /\ HandedOff /\ FileFollowsTask /\ DroppedNeverStreamed

(* What a step can disturb falls into two parts: of the calls and their    *)
(* links, and of the files, tasks and sessions.  The second needs of the   *)
(* first only that the calls have their types.                             *)
UploadInv == CallsInv /\ TasksInv

(* Bounded sets: a smaller one, one more element, one for another.         *)
LEMMA BoundSubset ==
  ASSUME NEW S, NEW T \in SUBSET S, NEW N \in Nat, IsFiniteSet(S), Cardinality(S) <= N
  PROVE  IsFiniteSet(T) /\ Cardinality(T) <= N
BY FS_Subset, FS_CardinalityType

LEMMA BoundAdd ==
  ASSUME NEW S, NEW x, NEW N \in Nat, IsFiniteSet(S), Cardinality(S) <= N,
         x \in S \/ Cardinality(S) < N
  PROVE  IsFiniteSet(S \cup {x}) /\ Cardinality(S \cup {x}) <= N
<1>1. CASE x \in S
  <2>1. S \cup {x} = S
    BY <1>1
  <2> QED
    BY <2>1
<1>2. CASE x \notin S
  <2>1. Cardinality(S) \in Nat
    BY FS_CardinalityType
  <2>2. IsFiniteSet(S \cup {x}) /\ Cardinality(S \cup {x}) = Cardinality(S) + 1
    BY <1>2, FS_AddElement
  <2> QED
    BY <1>2, <2>1, <2>2
<1> QED
  BY <1>1, <1>2

LEMMA BoundReplace ==
  ASSUME NEW S, NEW x, NEW y \in S, NEW N \in Nat, IsFiniteSet(S), Cardinality(S) <= N
  PROVE  IsFiniteSet((S \ {y}) \cup {x}) /\ Cardinality((S \ {y}) \cup {x}) <= N
<1>1. Cardinality(S) \in Nat
  BY FS_CardinalityType
<1>2. IsFiniteSet(S \ {y}) /\ Cardinality(S \ {y}) = Cardinality(S) - 1
  BY FS_RemoveElement
<1>3. Cardinality(S \ {y}) < N /\ Cardinality(S \ {y}) <= N
  BY <1>1, <1>2
<1> QED
  BY <1>2, <1>3, BoundAdd

(* A call goes on from one place to the next.  Into the permits it comes only*)
(* while there is room.                                                    *)
LEMMA MoveKeeps ==
  ASSUME CallsInv, NEW u \in Uploads, NEW to \in Stages, Go(u, to), Live(u),
         to \notin {"idle", "done", "failed", "cancelled"},
         u \in Permits \/ Cardinality(Permits) < MaxConcurrent \/ u \notin Permits',
         UNCHANGED <<link, links>>, plan' \in [Uploads -> Plans]
  PROVE  CallsInv'
<1>1. /\ CallsTyped' /\ at'[u] = to
      /\ \A v \in Uploads : v # u => at'[v] = at[v]
  BY DEF Go, CallsInv, CallsTyped
<1>2. StoreTyped'
  BY DEF CallsInv, StoreTyped, links
<1>3. LinksOK'
  BY <1>1 DEF CallsInv, LinksOK, Live, Ended, links
<1>4. Bounded'
  <2>1. IsFiniteSet(Permits') /\ Cardinality(Permits') <= MaxConcurrent
    <3>1. Permits' \subseteq Permits \/ Permits' = Permits \cup {u}
      BY <1>1 DEF Permits
    <3>2. u \notin Permits' => Permits' \subseteq Permits
      BY <1>1 DEF Permits
    <3>3. u \in Permits => Permits \cup {u} = Permits
      OBVIOUS
    <3> QED
      BY <3>1, <3>2, <3>3, BoundSubset, BoundAdd, UploadAssumption DEF CallsInv, Bounded
  <2>2. Inflight' = Inflight
    BY <1>1 DEF Inflight, Live, Ended
  <2> QED
    BY <2>1, <2>2 DEF CallsInv, Bounded, links
<1> QED
  BY <1>1, <1>2, <1>3, <1>4 DEF CallsInv

(* What a commit does to the store: the link is in it, and of the others it*)
(* forgets those that have expired and at most one more, which is evicted. *)
LEMMA CommitEffect ==
  ASSUME StoreTyped, Bounded, NEW l \in Links, Commit(l)
  PROVE  /\ StoreTyped' \/ expired' # expired
         /\ IsFiniteSet(seen') /\ Cardinality(seen') <= MaxSeen
         /\ l \in seen' /\ active' = active \ {l}
         /\ seen \subseteq seen' \cup evicted' \cup expired
         /\ evicted \subseteq evicted'
<1> DEFINE kept == seen \ expired
<1>1. IsFiniteSet(kept) /\ Cardinality(kept) <= MaxSeen
  BY BoundSubset, UploadAssumption DEF Bounded
<1>2. CASE l \in kept \/ Cardinality(kept) < MaxSeen
  <2>1. seen' = kept \cup {l} /\ evicted' = evicted
    BY <1>2 DEF Commit
  <2>2. IsFiniteSet(seen') /\ Cardinality(seen') <= MaxSeen
    BY <1>1, <1>2, <2>1, BoundAdd, UploadAssumption
  <2> QED
    BY <2>1, <2>2 DEF Commit, StoreTyped
<1>3. CASE ~(l \in kept \/ Cardinality(kept) < MaxSeen)
  <2>1. PICK old \in kept : seen' = (kept \ {old}) \cup {l} /\ evicted' = evicted \cup {old}
    BY <1>3 DEF Commit
  <2>2. IsFiniteSet(seen') /\ Cardinality(seen') <= MaxSeen
    BY <1>1, <2>1, BoundReplace, UploadAssumption
  <2> QED
    BY <2>1, <2>2 DEF Commit, StoreTyped
<1> QED
  BY <1>2, <1>3

(* A call ends.  By LinksOK the link it burns has burnt for no other call  *)
(* that is not evicted, and no other call uses the one it gives back.      *)
LEMMA SettleKeeps ==
  ASSUME CallsInv, NEW u \in Uploads, NEW outcome \in {"done", "failed", "cancelled"},
         Settle(u, outcome), Live(u)
  PROVE  CallsInv'
<1>1. /\ CallsTyped' /\ at'[u] = outcome
      /\ \A v \in Uploads : v # u => at'[v] = at[v]
      /\ link' = link /\ expired' = expired
  BY DEF Settle, Go, CallsInv, CallsTyped, Stages
<1>2. Permits' \subseteq Permits /\ Inflight' \subseteq Inflight
  BY <1>1 DEF Permits, Inflight, Live, Ended
<1>3. /\ IsFiniteSet(Permits') /\ Cardinality(Permits') <= MaxConcurrent
      /\ IsFiniteSet(Inflight') /\ Cardinality(Inflight') <= MaxInflight
  BY <1>2, BoundSubset, UploadAssumption DEF CallsInv, Bounded
<1>4. /\ StoreTyped' /\ IsFiniteSet(seen') /\ Cardinality(seen') <= MaxSeen
      /\ active \ {link[u]} \subseteq active'
      /\ outcome = "done" /\ link[u] # NoLink => link[u] \in seen'
      /\ seen \subseteq seen' \cup evicted' \cup expired /\ evicted \subseteq evicted'
  <2>1. CASE link[u] = NoLink
    BY <1>1, <2>1 DEF Settle, CallsInv, StoreTyped, Bounded
  <2>2. CASE link[u] # NoLink /\ outcome = "done"
    <3>1. Commit(link[u]) /\ link[u] \in Links
      BY <2>2 DEF Settle, CallsInv, CallsTyped
    <3> QED
      BY <1>1, <3>1, CommitEffect DEF CallsInv
  <2>3. CASE link[u] # NoLink /\ outcome # "done"
    BY <1>1, <2>3 DEF Settle, CallsInv, StoreTyped, Bounded
  <2> QED
    BY <2>1, <2>2, <2>3
<1>5. LinksOK'
  <2>1. ASSUME NEW v \in Uploads
        PROVE  /\ at'[v] = "idle" => link'[v] = NoLink
               /\ Live(v)' /\ link'[v] # NoLink => link'[v] \in active'
               /\ at'[v] = "done" /\ link'[v] # NoLink
                    => link'[v] \in seen' \cup evicted' \cup expired'
    BY <1>1, <1>4 DEF CallsInv, LinksOK, Live, Ended
  <2>2. ASSUME NEW v \in Uploads, NEW w \in Uploads, v # w, link[v] = link[w], link[v] # NoLink
        PROVE  /\ ~(Live(v)' /\ Live(w)')
               /\ at'[v] = "done" /\ (Live(w)' \/ at'[w] = "done") => link[v] \in evicted'
    BY <1>1, <1>4, <2>2 DEF CallsInv, LinksOK, Live, Ended
  <2> QED
    BY <1>1, <2>1, <2>2 DEF LinksOK
<1> QED
  BY <1>1, <1>3, <1>4, <1>5 DEF CallsInv, Bounded

(* The calls begin: by a link that nobody uses or has used, or directly.   *)
LEMMA RouteKeeps ==
  ASSUME CallsInv, NEW u \in Uploads, NEW l \in Links, RouteBegin(u, l)
  PROVE  CallsInv'
<1>1. /\ CallsTyped' /\ at[u] = "idle" /\ at'[u] = "spooling" /\ link'[u] = l
      /\ \A v \in Uploads : v # u => at'[v] = at[v] /\ link'[v] = link[v]
      /\ active' = active \cup {l} /\ UNCHANGED <<seen, expired, evicted>>
      /\ l \notin active \cup seen \cup expired /\ l # NoLink
  BY UploadAssumption DEF RouteBegin, TryBegin, Go, CallsInv, CallsTyped, Stages
<1>2. StoreTyped'
  BY <1>1 DEF CallsInv, StoreTyped
<1>3. LinksOK'
  BY <1>1 DEF CallsInv, LinksOK, Live, Ended
<1>4. Permits' = Permits /\ Inflight' = Inflight \cup {u}
  BY <1>1 DEF Permits, Inflight, Live, Ended
<1>5. Cardinality(Inflight) < MaxInflight
  BY DEF RouteBegin
<1> QED
  BY <1>1, <1>2, <1>3, <1>4, <1>5, BoundAdd, UploadAssumption DEF CallsInv, Bounded

LEMMA CallKeeps ==
  ASSUME CallsInv, NEW u \in Uploads, NEW p \in Plans, Call(u, p)
  PROVE  CallsInv'
<1>1. /\ CallsTyped' /\ at[u] = "idle" /\ at'[u] = "queued" /\ UNCHANGED <<link, links>>
      /\ \A v \in Uploads : v # u => at'[v] = at[v]
  BY DEF Call, Go, CallsInv, CallsTyped, Stages
<1>2. StoreTyped' /\ LinksOK'
  BY <1>1 DEF CallsInv, StoreTyped, LinksOK, Live, Ended, links
<1>3. Permits' = Permits /\ Inflight' = Inflight
  BY <1>1 DEF CallsInv, LinksOK, Permits, Inflight, Live, Ended
<1> QED
  BY <1>1, <1>2, <1>3 DEF CallsInv, Bounded, links

LEMMA ExpireKeeps ==
  ASSUME CallsInv, NEW l \in Links, Expire(l)
  PROVE  CallsInv'
<1>1. UNCHANGED <<at, plan, link, active, seen, evicted>> /\ expired' = expired \cup {l}
  BY DEF Expire, calls
<1>2. CallsTyped' /\ StoreTyped' /\ LinksOK'
  BY <1>1 DEF CallsInv, CallsTyped, StoreTyped, LinksOK, Live, Ended
<1>3. Permits' = Permits /\ Inflight' = Inflight
  BY <1>1 DEF Permits, Inflight, Live, Ended
<1> QED
  BY <1>1, <1>2, <1>3 DEF CallsInv, Bounded

LEMMA SameCallsKeep ==
  ASSUME CallsInv, UNCHANGED <<calls, links>>
  PROVE  CallsInv'
<1>1. UNCHANGED <<at, plan, link, active, seen, expired, evicted>>
  BY DEF calls, links
<1>2. CallsTyped' /\ StoreTyped' /\ LinksOK'
  BY <1>1 DEF CallsInv, CallsTyped, StoreTyped, LinksOK, Live, Ended
<1>3. Permits' = Permits /\ Inflight' = Inflight
  BY <1>1 DEF Permits, Inflight, Live, Ended
<1> QED
  BY <1>1, <1>2, <1>3 DEF CallsInv, Bounded

(* Every step keeps the part of the calls.                                 *)
LEMMA CallsKeep ==
  ASSUME UploadInv, [UploadNext]_uploadVars
  PROVE  CallsInv'
<1>a. CallsInv /\ CallsTyped
  BY DEF UploadInv, CallsInv
<1>1. ASSUME NEW u \in Uploads, Spooled(u) PROVE CallsInv'
  <2>1. plan' \in [Uploads -> Plans] /\ u \notin Permits'
    BY <1>a, <1>1 DEF Spooled, Go, CallsTyped, Plans, Permits
  <2> QED
    BY <1>a, <1>1, <2>1, MoveKeeps DEF Spooled, CallsTyped, Stages, Live, Ended
<1>2. ASSUME NEW u \in Uploads,
             \/ Acquire(u) \/ Opened(u) \/ Registered(u)
             \/ Started(u) \/ Announced(u)
      PROVE  CallsInv'
  BY <1>a, <1>2, MoveKeeps DEF Acquire, Opened, Registered, Started, Announced, CallsTyped,
                               Stages, Permits, Live, Ended
<1>3. ASSUME NEW u \in Uploads, Streamed(u) PROVE CallsInv'
  <2>1. CASE Go(u, "waiting") /\ UNCHANGED <<plan, link, links>>
    BY <1>a, <1>3, <2>1, MoveKeeps DEF Streamed, CallsTyped, Stages, Permits, Live,
                                       Ended
  <2>2. CASE Settle(u, "failed") \/ Settle(u, "done")
    BY <1>a, <1>3, <2>2, SettleKeeps DEF Streamed, Live, Ended
  <2> QED
    BY <1>3, <2>1, <2>2 DEF Streamed
<1>4. ASSUME NEW u \in Uploads, NEW o \in {"failed", "cancelled"}, GiveUp(u, o) PROVE CallsInv'
  BY <1>a, <1>4, SettleKeeps DEF GiveUp, Live, Ended
<1>5. ASSUME NEW u \in Uploads,
             \/ CancelUnstarted(u) \/ NotStarted(u)
             \/ Landed(u) \/ CancelAgain(u)
      PROVE  CallsInv'
  BY <1>a, <1>5, SettleKeeps DEF CancelUnstarted, NotStarted, Landed, CancelAgain,
                                 Live, Ended
<1>6. ASSUME NEW u \in Uploads, CancelStarted(u) PROVE CallsInv'
  BY <1>a, <1>6, MoveKeeps DEF CancelStarted, CallsTyped, Stages, Permits, Live, Ended
<1>7. ASSUME NEW u \in Uploads, Polled(u) PROVE CallsInv'
  <2>1. CASE Go(u, "renaming") /\ UNCHANGED <<plan, link, links>>
    <3>1. u \notin Permits'
      BY <1>a, <2>1 DEF Go, CallsTyped, Permits
    <3> QED
      BY <1>a, <1>7, <2>1, <3>1, MoveKeeps DEF Polled, CallsTyped, Stages, Live, Ended
  <2>2. CASE Settle(u, "failed") \/ Settle(u, "done")
    BY <1>a, <1>7, <2>2, SettleKeeps DEF Polled, Live, Ended
  <2> QED
    BY <1>7, <2>1, <2>2 DEF Polled
<1>8. ASSUME NEW u \in Uploads, NEW o \in {"done", "failed", "cancelled"}, WaitEnds(u, o)
      PROVE  CallsInv'
  BY <1>a, <1>8, SettleKeeps DEF WaitEnds, Live, Ended
<1>9. ASSUME NEW u \in Uploads,
             \/ TaskStep(u) \/ Dropped(u)
             \/ OpensSession(u) \/ Finalizes(u)
      PROVE  CallsInv'
  <2>1. UNCHANGED <<calls, links>>
    BY <1>9 DEF TaskStep, TaskStarts, TaskDies, TaskFailsToStart, PostAnswered,
                PostFails, TaskOver, Dropped, OpensSession, Finalizes, calls,
                links, uploadVars
  <2> QED
    BY <1>a, <2>1, SameCallsKeep
<1>10. ASSUME NEW u \in Uploads, NEW l \in Links, RouteBegin(u, l) PROVE CallsInv'
  BY <1>a, <1>10, RouteKeeps
<1>11. ASSUME NEW u \in Uploads, NEW p \in Plans, Call(u, p) PROVE CallsInv'
  BY <1>a, <1>11, CallKeeps
<1>12. ASSUME NEW l \in Links, Expire(l) PROVE CallsInv'
  BY <1>a, <1>12, ExpireKeeps
<1>13. CASE UNCHANGED uploadVars
  BY <1>a, <1>13, SameCallsKeep DEF uploadVars, calls, links
<1> QED
  BY <1>1, <1>2, <1>3, <1>4, <1>5, <1>6, <1>7, <1>8, <1>9, <1>10, <1>11, <1>12, <1>13
     DEF UploadNext, CallStep, CancelUpload, WaitFails, Renamed

(* Every step keeps the part of the files, tasks and sessions.             *)
LEMMA TasksKeep ==
  ASSUME UploadInv, [UploadNext]_uploadVars
  PROVE  TasksInv'
<1> USE DEF TasksInv, TasksTyped, HandedOff, FileFollowsTask, DroppedNeverStreamed, Ended
<1>a. TasksInv /\ at \in [Uploads -> Stages]
  BY DEF UploadInv, CallsInv, CallsTyped
<1>1. ASSUME NEW u \in Uploads, NEW l \in Links, RouteBegin(u, l) PROVE TasksInv'
  BY <1>a, <1>1 DEF RouteBegin, Go
<1>2. ASSUME NEW u \in Uploads, NEW p \in Plans, Call(u, p) PROVE TasksInv'
  BY <1>a, <1>2 DEF Call, Go
<1>3. ASSUME NEW u \in Uploads, Spooled(u) \/ Acquire(u) PROVE TasksInv'
  BY <1>a, <1>3 DEF Spooled, Acquire, Go
<1>4. ASSUME NEW u \in Uploads, Opened(u) PROVE TasksInv'
  BY <1>a, <1>4 DEF Opened, Go
<1>5. ASSUME NEW u \in Uploads, Registered(u) \/ Started(u) PROVE TasksInv'
  BY <1>a, <1>5 DEF Registered, Started, Go
<1>6. ASSUME NEW u \in Uploads, Announced(u) PROVE TasksInv'
  BY <1>a, <1>6 DEF Announced, Go
<1>7. ASSUME NEW u \in Uploads, NEW o, GiveUp(u, o), o \in {"failed", "cancelled"}
      PROVE  TasksInv'
  BY <1>a, <1>7 DEF GiveUp, Settle, Go
<1>8. ASSUME NEW u \in Uploads, Streamed(u) PROVE TasksInv'
  BY <1>a, <1>8 DEF Streamed, Settle, Go
<1>9. ASSUME NEW u \in Uploads, CancelUnstarted(u) PROVE TasksInv'
  BY <1>a, <1>9 DEF CancelUnstarted, Settle, Go
<1>10. ASSUME NEW u \in Uploads,
              CancelStarted(u) \/ NotStarted(u) \/ Landed(u)
       PROVE  TasksInv'
  BY <1>a, <1>10 DEF CancelStarted, NotStarted, Landed, Settle, Go
<1>11. ASSUME NEW u \in Uploads, CancelAgain(u) PROVE TasksInv'
  BY <1>a, <1>11 DEF CancelAgain, Settle, Go
<1>12. ASSUME NEW u \in Uploads, Polled(u) PROVE TasksInv'
  BY <1>a, <1>12 DEF Polled, Settle, Go
<1>13. ASSUME NEW u \in Uploads, NEW o \in {"done", "failed", "cancelled"}, WaitEnds(u, o)
       PROVE  TasksInv'
  BY <1>a, <1>13 DEF WaitEnds, Settle, Go
<1>14. ASSUME NEW u \in Uploads, TaskStep(u) PROVE TasksInv'
  BY <1>a, <1>14 DEF TaskStep, TaskStarts, TaskDies, TaskFailsToStart,
                     PostAnswered, PostFails, TaskOver, calls
<1>15. ASSUME NEW u \in Uploads, Dropped(u) PROVE TasksInv'
  BY <1>a, <1>15 DEF Dropped, calls
<1>16. ASSUME NEW u \in Uploads, OpensSession(u) \/ Finalizes(u) PROVE TasksInv'
  BY <1>a, <1>16 DEF OpensSession, Finalizes, calls
<1>17. ASSUME NEW l \in Links, Expire(l) PROVE TasksInv'
  BY <1>a, <1>17 DEF Expire, calls
<1>18. CASE UNCHANGED uploadVars
  BY <1>a, <1>18 DEF uploadVars
<1> QED
  BY <1>1, <1>2, <1>3, <1>4, <1>5, <1>6, <1>7, <1>8, <1>9, <1>10, <1>11, <1>12, <1>13, <1>14,
     <1>15, <1>16, <1>17, <1>18
     DEF UploadNext, CallStep, CancelUpload, WaitFails, Renamed

LEMMA UploadStarts ==
  ASSUME UploadInit
  PROVE  UploadInv
<1>1. CallsTyped /\ StoreTyped /\ LinksOK
  BY DEF UploadInit, CallsTyped, StoreTyped, LinksOK, Stages, Plans, Live, Ended
<1>2. Permits = {} /\ Inflight = {} /\ seen = {}
  BY DEF UploadInit, Permits, Inflight, Live
<1>3. Bounded
  BY <1>2, FS_EmptySet, UploadAssumption DEF Bounded
<1>4. TasksInv
  BY DEF UploadInit, TasksInv, TasksTyped, HandedOff, FileFollowsTask, DroppedNeverStreamed,
         Ended
<1> QED
  BY <1>1, <1>3, <1>4 DEF UploadInv, CallsInv

(* The invariant of the uploads, for any number of them, and any limits.   *)
THEOREM UploadInvariant == UploadSpec => []UploadInv
<1>1. UploadInit => UploadInv
  BY UploadStarts
<1>2. UploadInv /\ [UploadNext]_uploadVars => UploadInv'
  BY CallsKeep, TasksKeep DEF UploadInv
<1> QED
  BY <1>1, <1>2, PTL DEF UploadSpec

(* Every variable of the uploads has its type, and permits, route and link *)
(* store stay within their limits.                                         *)
THEOREM UploadTypes == UploadSpec => []UploadTypeOK
<1>1. UploadInv => UploadTypeOK
  BY DEF UploadInv, CallsInv, TasksInv, CallsTyped, StoreTyped, Bounded,
                         TasksTyped, UploadTypeOK, Stages
<1> QED
  BY <1>1, UploadInvariant, PTL

(* A file is open as long as its task reads it and is closed by exactly one*)
(* of the call and the callback of the task, wherever either is cancelled. *)
THEOREM FileFollowsTaskHolds == UploadSpec => []FileFollowsTask
<1>1. UploadInv => FileFollowsTask
  BY DEF UploadInv, TasksInv
<1> QED
  BY <1>1, UploadInvariant, PTL

(* No file is streamed to a session that a cancelled add_file asked to drop.*)
THEOREM DroppedNeverStreamedHolds == UploadSpec => []DroppedNeverStreamed
<1>1. UploadInv => DroppedNeverStreamed
  BY DEF UploadInv, TasksInv
<1> QED
  BY <1>1, UploadInvariant, PTL

(* max_concurrent_uploads bounds the uploads that stream, but for those whose*)
(* caller was cancelled twice.                                             *)
THEOREM StreamsBoundedHolds == UploadSpec => []StreamsBounded
<1>1. ASSUME UploadInv PROVE StreamsBounded
  <2>1. Streaming \ abandoned \subseteq Permits
    BY <1>1 DEF UploadInv, TasksInv, HandedOff, Streaming, Permits
  <2> QED
    BY <1>1, <2>1, BoundSubset, UploadAssumption DEF UploadInv, CallsInv,
           Bounded, StreamsBounded
<1> QED
  BY <1>1, UploadInvariant, PTL

(* An upload link adds one source, as long as the store has not forgotten it,*)
(* and serves one call at a time.                                          *)
THEOREM LinkUsedOnceHolds == UploadSpec => []LinkUsedOnce
<1>1. UploadInv => LinkUsedOnce
  BY DEF UploadInv, CallsInv, TasksInv, LinksOK, HandedOff, LinkUsedOnce, Streaming,
         Live, Ended
<1> QED
  BY <1>1, UploadInvariant, PTL

===============================================================================
