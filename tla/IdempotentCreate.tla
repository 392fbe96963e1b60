--------------------------- MODULE IdempotentCreate ---------------------------
(***************************************************************************)
(* Creating a resource at Google when the answer to the POST may be lost:  *)
(* idempotent_create (_idempotency.py) with the probes of its three kinds  *)
(* of caller, SourceAddService.add_url and add_drive (_source/add.py, kind *)
(* "url"), NotebooksAPI.create (_notebooks.py, "notebook") and             *)
(* register_file_source (_source/upload.py, "file").                       *)
(*                                                                         *)
(* All resources here carry the same key: the URL, or the title.  Others   *)
(* never match a probe.  A request is <<caller, attempt>>; Google executes *)
(* it at any time after it was sent, also after the caller has given it up *)
(* for lost, or never.                                                     *)
(***************************************************************************)
EXTENDS Integers, FiniteSets

CONSTANTS Callers,     \* calls, each made once
          Ids,         \* bound: resources
          Kinds,       \* the kinds of call that are made
          MaxAttempts, \* max_attempts
          None,        \* no resource, no maker
          Others       \* the maker of what nobody here has asked for

ASSUME CreateAssumption ==
  /\ Kinds \subseteq {"url", "notebook", "file"}
  /\ MaxAttempts \in Nat \ {0}
  /\ None \notin Ids
  /\ None # Others
  /\ \A r \in Callers \X (1 .. MaxAttempts) : r # None /\ r # Others

VARIABLES maker, \* at Google: the request that made each resource
          sent,  \* requests Google may still execute
          call,  \* where each call is
          before,\* history: the resources that existed when the call began
          blind, \* history: calls that took an unreadable list for no match
          late   \* history: calls whose request was executed after a probe
                 \* had not found it

vars == <<maker, sent, call, before, blind, late>>

Requests == Callers \X (1 .. MaxAttempts)
Created == {i \in Ids : maker[i] # None}

NewCall == [at |-> "idle", kind |-> "url", attempt |-> 1, known |-> TRUE,
            baseline |-> {}, result |-> None, named |-> FALSE]

-----------------------------------------------------------------------------

Init ==
  /\ maker = [i \in Ids |-> None]
  /\ sent = {}
  /\ call = [c \in Callers |-> NewCall]
  /\ before = [c \in Callers |-> {}]
  /\ blind = {}
  /\ late = {}

(* A URL is its own key; the other kinds first list what is already there. *)
Start(c, kind) ==
  /\ call[c].at = "idle"
  /\ call' = [call EXCEPT ![c] =
       [NewCall EXCEPT !.at = IF kind = "url" THEN "create" ELSE "list", !.kind = kind]]
  /\ before' = [before EXCEPT ![c] = Created]
  /\ UNCHANGED <<maker, sent, blind, late>>

TakeBaseline(c, seen, known) ==
  /\ call[c].at = "list"
  /\ call' = [call EXCEPT ![c] = [@ EXCEPT !.at = "create", !.baseline = seen,
                                           !.known = known]]
  /\ UNCHANGED <<maker, sent, before, blind, late>>

Baseline(c) == TakeBaseline(c, Created, TRUE)

(* The list fails: a notebook goes on with an empty baseline, a file       *)
(* remembers that it has none.                                             *)
BaselineFails(c) == TakeBaseline(c, {}, FALSE)

Post(c) ==
  /\ call[c].at = "create"
  /\ call' = [call EXCEPT ![c] = [@ EXCEPT !.at = "posted"]]
  /\ sent' = sent \cup {<<c, call[c].attempt>>}
  /\ UNCHANGED <<maker, before, blind, late>>

(* The probe of this attempt is still to come.                             *)
MayBeFound(c, n) == call[c].at \in {"posted", "probe", "confirm"} /\ call[c].attempt = n

Execute(c, n, i) ==
  /\ <<c, n>> \in sent
  /\ maker[i] = None
  /\ maker' = [maker EXCEPT ![i] = <<c, n>>]
  /\ sent' = sent \ {<<c, n>>}
  /\ late' = IF MayBeFound(c, n) THEN late ELSE late \cup {c}
  /\ UNCHANGED <<call, before, blind>>

Drop(r) ==
  /\ r \in sent
  /\ sent' = sent \ {r}
  /\ UNCHANGED <<maker, call, before, blind, late>>

(* A browser tab, the web app, another process.                            *)
OthersCreate(i) ==
  /\ maker[i] = None
  /\ maker' = [maker EXCEPT ![i] = Others]
  /\ UNCHANGED <<sent, call, before, blind, late>>

-----------------------------------------------------------------------------

(* named: the id is from the answer, and not from a probe.                 *)
Return(c, i, named) ==
  call' = [call EXCEPT ![c] = [NewCall EXCEPT !.at = "done", !.kind = call[c].kind,
                                              !.known = call[c].known, !.result = i,
                                              !.named = named]]
Raise(c) == call' = [call EXCEPT ![c] = [NewCall EXCEPT !.at = "failed"]]

(* Google's answer names the resource. *)
Reply(c) ==
  /\ call[c].at = "posted"
  /\ \E i \in Ids : maker[i] = <<c, call[c].attempt>> /\ Return(c, i, TRUE)
  /\ UNCHANGED <<maker, sent, before, blind, late>>

ReplyNames(c, i, trusted) ==
  /\ call[c].at = "posted"
  /\ call[c].kind = "file"
  /\ IF trusted THEN Return(c, i, TRUE)
     ELSE call' = [call EXCEPT ![c] = [@ EXCEPT !.at = "confirm"]]
  /\ UNCHANGED <<maker, sent, before, blind, late>>

ReplyNamesAnother_Trusting(c) ==  \* mutant: no look into the baseline
  \E i \in Created : ReplyNames(c, i, TRUE)

(* The id extracted from the answer to a file registration is that of some *)
(* other source: what the baseline has is not believed, and anything is    *)
(* where there is no baseline.                                             *)
ReplyNamesAnother(c) ==
  \E i \in Created : ReplyNames(c, i, ~call[c].known \/ i \notin call[c].baseline)

(* An answer without an id one can use, or an error that is no transport   *)
(* error.  Only an answered file registration looks for its resource.      *)
ReplyUseless(c) ==
  /\ call[c].at = "posted"
  /\ \/ Raise(c)
     \/ /\ call[c].kind = "file"
        /\ call' = [call EXCEPT ![c] = [@ EXCEPT !.at = "confirm"]]
  /\ UNCHANGED <<maker, sent, before, blind, late>>

(* 5xx, 429, timeout, broken connection. *)
ReplyLost(c) ==
  /\ call[c].at = "posted"
  /\ call' = [call EXCEPT ![c] = [@ EXCEPT !.at = "probe"]]
  /\ UNCHANGED <<maker, sent, before, blind, late>>

(* What the probe finds new in the list, and when it may take its pick.    *)
Matches(r) == IF r.kind = "url" THEN Created ELSE Created \ r.baseline

Trusted(r) ==
  CASE r.kind = "url" -> Matches(r) # {}
    [] r.kind = "notebook" -> Cardinality(Matches(r)) = 1
    [] r.kind = "file" -> r.known /\ Cardinality(Matches(r)) = 1

(* No match: the next attempt, or the last error; a file that only wanted  *)
(* to confirm its answer is given up at once.                              *)
NotFound(c) ==
  IF call[c].at = "probe" /\ call[c].attempt < MaxAttempts
  THEN call' = [call EXCEPT ![c] = [@ EXCEPT !.at = "create",
                                         !.attempt = call[c].attempt + 1]]
  ELSE Raise(c)

ProbeSees(c, raises) ==
  /\ call[c].at \in {"probe", "confirm"}
  /\ \/ Trusted(call[c]) /\ \E i \in Matches(call[c]) : Return(c, i, FALSE)
     \/ ~Trusted(call[c]) /\ raises /\ Raise(c)
     \/ ~Trusted(call[c]) /\ ~raises /\ NotFound(c)
  /\ UNCHANGED <<maker, sent, before, blind, late>>

Probe_RetriesAmbiguous(c) == ProbeSees(c, FALSE)  \* mutant

Probe(c) == ProbeSees(c, Matches(call[c]) # {})

(* A transport or auth error of the probe reaches the caller ... *)
ProbeFails(c) ==
  /\ call[c].at \in {"probe", "confirm"}
  /\ Raise(c)
  /\ UNCHANGED <<maker, sent, before, blind, late>>

(* ... any other counts as no match. *)
ProbeUnreadable(c) ==
  /\ call[c].at \in {"probe", "confirm"}
  /\ NotFound(c)
  /\ blind' = blind \cup {c}
  /\ UNCHANGED <<maker, sent, before, late>>

Cancel(c) ==
  /\ call[c].at \notin {"idle", "done", "failed"}
  /\ Raise(c)
  /\ UNCHANGED <<maker, sent, before, blind, late>>

-----------------------------------------------------------------------------

Google ==
  \/ \E c \in Callers, n \in 1 .. MaxAttempts, i \in Ids : Execute(c, n, i)
  \/ \E r \in sent : Drop(r)
  \/ \E i \in Ids : OthersCreate(i)

Caller(c) ==
  \/ \E kind \in Kinds : Start(c, kind)
  \/ Baseline(c) \/ BaselineFails(c) \/ Post(c)
  \/ Reply(c) \/ ReplyNamesAnother(c) \/ ReplyUseless(c) \/ ReplyLost(c)
  \/ Probe(c) \/ ProbeFails(c) \/ ProbeUnreadable(c) \/ Cancel(c)

Next == Google \/ \E c \in Callers : Caller(c)

Spec == Init /\ [][Next]_vars

-----------------------------------------------------------------------------
(* Properties *)

CallRecord ==
  [at : {"idle", "list", "create", "posted", "probe", "confirm", "done", "failed"},
   kind : {"url", "notebook", "file"}, attempt : 1 .. MaxAttempts, known : BOOLEAN,
   baseline : SUBSET Ids, result : Ids \cup {None}, named : BOOLEAN]

(* Every variable has its type. *)
TypeOK ==
  /\ maker \in [Ids -> Requests \cup {None, Others}]
  /\ sent \in SUBSET Requests
  /\ call \in [Callers -> CallRecord]
  /\ before \in [Callers -> SUBSET Ids]
  /\ blind \in SUBSET Callers
  /\ late \in SUBSET Callers

MadeBy(c) == {i \in Ids : \E n \in 1 .. MaxAttempts : maker[i] = <<c, n>>}

(* A call makes at most one resource, however its answers get lost, unless *)
(* it could not read the list it was to look in, or Google executed its    *)
(* request after the probe.                                                *)
DuplicatesExplained ==
  \A c \in Callers : Cardinality(MadeBy(c)) > 1 => c \in blind \cup late

(* What a call returns as newly created did not exist before the call: a   *)
(* file is not streamed into an older source of the same name.  Where the  *)
(* baseline could not be listed a notebook gives that up, and a file does  *)
(* only for the id that Google's answer names: a probe never takes an old  *)
(* source for it.  (A URL returns what is there for that URL.)             *)
ResultIsNew ==
  \A c \in Callers :
    call[c].at = "done" /\ call[c].kind # "url" /\ call[c].result \in before[c] =>
      ~call[c].known /\ (call[c].kind = "notebook" \/ call[c].named)

=============================================================================
