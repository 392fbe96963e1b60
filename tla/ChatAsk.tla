-------------------------------- MODULE ChatAsk --------------------------------
(***************************************************************************)
(* Concurrent questions to one notebook (_chat/api.py ask and              *)
(* delete_conversation) and the conversation cache of the client           *)
(* (_conversation_cache.py) from which a follow-up takes the history it    *)
(* posts.                                                                  *)
(*                                                                         *)
(* A follow-up, a question with a conversation id, holds the lock of the   *)
(* conversation from the reading of the history to the caching of the      *)
(* answer.  A question without an id ("null ask") holds the lock of the    *)
(* notebook while it is posted, then asks Google for the most recent       *)
(* conversation, and caches its answer under the lock of what it is told.  *)
(* asyncio.Lock serves its waiters in order: a lock is the sequence of the *)
(* calls that want it, and the head holds it.  Under the lock a request    *)
(* that got no answer may be posted again (_middleware/retry.py).          *)
(*                                                                         *)
(* External: what Google does with a question, and which conversation of a *)
(* notebook it reports as the most recent one.                             *)
(***************************************************************************)
EXTENDS Integers, SequencesExt

CONSTANTS Asks, Deletes,  \* calls of ask() and of delete_conversation()
          Past,           \* an ask that was answered before
          Convs,          \* conversation ids
          MaxConvs,       \* MAX_CONVERSATION_CACHE_SIZE
          MaxTurns,       \* MAX_TURNS_PER_CONVERSATION
          MaxOthers,      \* bound: what other clients do to the notebook
          MaxReplays,     \* bound: how often requests are posted again
          NoConv          \* no conversation

ASSUME ChatAssumption ==
  /\ MaxConvs \in Nat \ {0} /\ MaxTurns \in Nat \ {0} /\ MaxOthers \in Nat
  /\ MaxReplays \in Nat
  /\ NoConv \notin Convs
  /\ Asks \cap Deletes = {} /\ Past \in Asks

Calls == Asks \cup Deletes

VARIABLES at,      \* where each call is
          conv,    \* its conversation: the caller's, or the one Google reported
          null,    \* the asks without a conversation id
          hist,    \* the turns a follow-up has posted as history
          notebookLock, convLock,   \* who holds (the head) and awaits each lock
          lru,     \* cached conversations, the least recently used first
          turns,   \* the cached turns of each
          net,     \* calls whose last request may still be executed
          stale,   \* of how many earlier requests of a call this is also so
          replays, \* how often requests were posted again
          log,     \* at Google: every turn of each conversation
          gone,    \* at Google: the turns that were deleted
          current, \* at Google: the most recent conversation of the notebook
          others,  \* what other clients have done so far
          late,    \* history: calls posted again before that was known
          moved,   \* history: null asks after which current was changed
          unsure   \* history: turns deleted without an answer to this client

calls == <<at, conv, null, hist>>
locks == <<notebookLock, convLock>>
cache == <<lru, turns>>
requests == <<stale, replays, late>>
google == <<net, requests, log, gone, current, others, moved, unsure>>
chatVars == <<at, conv, null, hist, notebookLock, convLock, lru, turns, net, requests, log, gone,
              current, others, moved, unsure>>

ChatInit ==
  /\ at = [k \in Calls |-> IF k = Past THEN "done" ELSE "idle"]
  /\ \E c \in Convs :
       /\ conv = [k \in Calls |-> IF k = Past THEN c ELSE NoConv]
       /\ lru = <<c>>
       /\ turns = [d \in Convs |-> IF d = c THEN <<Past>> ELSE <<>>]
       /\ log = turns
       /\ current = c
  /\ null = {}
  /\ hist = [a \in Asks |-> {}]
  /\ notebookLock = <<>>
  /\ convLock = [c \in Convs |-> <<>>]
  /\ net = {}
  /\ stale = [k \in Calls |-> 0]
  /\ replays = 0
  /\ late = {}
  /\ gone = {}
  /\ others = 0
  /\ moved = {} /\ unsure = {}

Live(k) == at[k] \in {"waiting", "sent", "answered", "caching"}

(* A sequence without e, of which it has at most one: an entry of the      *)
(* cache is moved or deleted, a call leaves the queue of a lock.           *)
Without(s, e) ==
  IF Contains(s, e) THEN RemoveAt(s, CHOOSE i \in 1 .. Len(s) : s[i] = e) ELSE s

-----------------------------------------------------------------------------
(* ConversationCache *)

(* get_cached_conversation moves what it reads to the end.                 *)
Touched(c) == IF Contains(lru, c) THEN Append(Without(lru, c), c) ELSE lru

(* How many conversations, the oldest ones, make room for a new one.       *)
Evicted_OneTooMany(c) ==  \* mutant: > for >=
  IF Contains(lru, c) \/ Len(lru) <= MaxConvs THEN 0 ELSE Len(lru) - MaxConvs + 1

Evicted(c) == IF Contains(lru, c) \/ Len(lru) < MaxConvs THEN 0 ELSE Len(lru) - MaxConvs + 1

LastTurns(s) == SubSeq(s, IF Len(s) > MaxTurns THEN Len(s) - MaxTurns + 1 ELSE 1, Len(s))

(* cache_turn of ask: an empty answer is not cached.                       *)
CacheTurn(a, c, text) ==
  IF ~text THEN lru' = Touched(c) /\ UNCHANGED turns
  ELSE LET out == {lru[i] : i \in 1 .. Evicted(c)} IN
       /\ lru' = Append(Without(SubSeq(lru, Evicted(c) + 1, Len(lru)), c), c)
       /\ turns' = [d \in Convs |-> IF d \in out THEN <<>>
                                   ELSE IF d = c THEN LastTurns(Append(turns[d], a)) ELSE turns[d]]

Clear(c) == lru' = Without(lru, c) /\ turns' = [turns EXCEPT ![c] = <<>>]

-----------------------------------------------------------------------------
(* The calls of this client *)

Queue(c) == IF c = NoConv THEN notebookLock ELSE convLock[c]

Start(k, c) ==
  /\ at[k] = "idle" /\ (k \in Deletes => c # NoConv)
  /\ at' = [at EXCEPT ![k] = "waiting"]
  /\ conv' = [conv EXCEPT ![k] = c]
  /\ null' = IF c = NoConv THEN null \cup {k} ELSE null
  /\ IF c = NoConv THEN notebookLock' = Append(notebookLock, k) /\ UNCHANGED convLock
     ELSE convLock' = [convLock EXCEPT ![c] = Append(@, k)] /\ UNCHANGED notebookLock
  /\ UNCHANGED <<hist, lru, turns, google>>

(* The holder of its lock posts; a follow-up with the cached history.      *)
Post(k) ==
  LET c == conv[k] IN
  /\ at[k] = "waiting"
  /\ at' = [at EXCEPT ![k] = "sent"]
  /\ net' = net \cup {k}
  /\ IF k \in Asks /\ c # NoConv
     THEN hist' = [hist EXCEPT ![k] = ToSet(turns[c])] /\ lru' = Touched(c)
     ELSE UNCHANGED <<hist, lru>>
  /\ UNCHANGED <<conv, null, locks, turns, requests, log, gone, current, others, moved, unsure>>

HoldsLock(k) == at[k] = "waiting" /\ Head(Queue(conv[k])) = k

Send_Unlocked(k) == Post(k)  \* mutant

Send_DeleteUnlocked(k) == (k \in Deletes \/ HoldsLock(k)) /\ Post(k)  \* mutant

Send(k) == HoldsLock(k) /\ Post(k)

(* Posted again as it was, after an answer 5xx or 429 or a failed           *)
(* connection: Google may have executed the request before, or may still do*)
(* so.                                                                     *)
PostAgain(k) ==
  /\ at[k] = "sent" /\ replays < MaxReplays
  /\ replays' = replays + 1
  /\ net' = net \cup {k}
  /\ \/ UNCHANGED <<stale, late>>
     \/ k \in net /\ stale' = [stale EXCEPT ![k] = @ + 1] /\ late' = late \cup {k}
  /\ UNCHANGED <<calls, locks, cache, log, gone, current, others, moved, unsure>>

Leave(k) ==
  /\ notebookLock' = Without(notebookLock, k)
  /\ convLock' = [c \in Convs |-> Without(convLock[c], k)]

(* The answer of a follow-up, with or without text: cached, lock released. *)
FollowUpAnswered(a, text) ==
  /\ a \in Asks \ null /\ at[a] = "sent" /\ a \notin net
  /\ at' = [at EXCEPT ![a] = "done"]
  /\ CacheTurn(a, conv[a], text)
  /\ Leave(a)
  /\ UNCHANGED <<conv, null, hist, google>>

(* The answer of a null ask: hPTbtc is asked for its conversation.         *)
NullAnswered_Unlocks(a) ==  \* mutant: the lock is free during hPTbtc
  /\ a \in null /\ at[a] = "sent" /\ a \notin net
  /\ at' = [at EXCEPT ![a] = "answered"]
  /\ Leave(a)
  /\ UNCHANGED <<conv, null, hist, cache, google>>

NullAnswered(a) ==
  /\ a \in null /\ at[a] = "sent" /\ a \notin net
  /\ at' = [at EXCEPT ![a] = "answered"]
  /\ UNCHANGED <<conv, null, hist, locks, cache, google>>

(* Its reply: no conversation is an error; else the lock of the notebook is*)
(* exchanged for that of the conversation.                                 *)
Resolve_FromStream(a) ==  \* mutant: takes the id in the answer for the conversation's
  /\ at[a] = "answered"
  /\ notebookLock' = Without(notebookLock, a)
  /\ \E c \in Convs : /\ conv' = [conv EXCEPT ![a] = c]
                     /\ convLock' = [convLock EXCEPT ![c] = Append(@, a)]
  /\ at' = [at EXCEPT ![a] = "caching"]
  /\ UNCHANGED <<null, hist, cache, google>>

Resolve(a) ==
  /\ at[a] = "answered"
  /\ conv' = [conv EXCEPT ![a] = current]
  /\ at' = [at EXCEPT ![a] = IF current = NoConv THEN "failed" ELSE "caching"]
  /\ notebookLock' = Without(notebookLock, a)
  /\ convLock' = [c \in Convs |-> IF c = current THEN Append(convLock[c], a) ELSE convLock[c]]
  /\ UNCHANGED <<null, hist, cache, google>>

NullCached(a, text) ==
  /\ at[a] = "caching" /\ Head(convLock[conv[a]]) = a
  /\ at' = [at EXCEPT ![a] = "done"]
  /\ CacheTurn(a, conv[a], text)
  /\ Leave(a)
  /\ UNCHANGED <<conv, null, hist, google>>

DeleteAnswered(d) ==
  /\ d \in Deletes /\ at[d] = "sent" /\ d \notin net
  /\ at' = [at EXCEPT ![d] = "done"]
  /\ Clear(conv[d])
  /\ Leave(d)
  /\ UNCHANGED <<conv, null, hist, google>>

(* An error or a cancellation: the locks are released and the cache stays. *)
(* What a delete has done by now is not known to this client.              *)
Fail(k) ==
  /\ at' = [at EXCEPT ![k] = "failed"]
  /\ Leave(k)
  /\ unsure' = IF k \in Deletes /\ at[k] = "sent"
               THEN unsure \cup (ToSet(log[conv[k]]) \cap gone) ELSE unsure
  /\ UNCHANGED <<conv, null, hist, cache, net, requests, log, gone, current, others, moved>>

RequestFails_KeepsLock(k) ==  \* mutant: no release on an error
  /\ at[k] \in {"sent", "answered"}
  /\ at' = [at EXCEPT ![k] = "failed"]
  /\ UNCHANGED <<conv, null, hist, locks, cache, google>>

RequestFails(k) == at[k] \in {"sent", "answered"} /\ Fail(k)
Cancel(k) == at[k] \in {"waiting", "caching"} /\ Fail(k)

(* clear_cache takes no lock. *)
ClearCache ==
  /\ \/ \E c \in Convs : Contains(lru, c) /\ Clear(c)
     \/ lru # <<>> /\ lru' = <<>> /\ turns' = [c \in Convs |-> <<>>]
  /\ UNCHANGED <<calls, locks, google>>

-----------------------------------------------------------------------------
(* Google *)

(* The null asks whose turn is in a conversation they do not know yet.     *)
Unresolved == {a \in null : at[a] \in {"sent", "answered"} /\ a \notin net}

(* A request is executed, perhaps after its caller has given up or, if it  *)
(* was posted again, after it has been answered.                           *)
Execute(k) ==
  /\ \/ k \in net /\ net' = net \ {k} /\ UNCHANGED stale
     \/ stale[k] > 0 /\ stale' = [stale EXCEPT ![k] = @ - 1] /\ UNCHANGED net
  /\ UNCHANGED <<replays, late>>

Disturb(c) ==
  /\ current' = c
  /\ moved' = IF c = current THEN moved ELSE moved \cup Unresolved

(* A null ask extends the most recent conversation or opens a new one; a   *)
(* follow-up may make its conversation the most recent one.                *)
RunNullAsk(a) ==
  /\ a \in null /\ Execute(a)
  /\ \E c \in Convs :
       /\ IF current # NoConv THEN c = current ELSE log[c] = <<>>
       /\ log' = [log EXCEPT ![c] = Append(@, a)]
       /\ current' = c
  /\ UNCHANGED <<calls, locks, cache, gone, others, moved, unsure>>

RunFollowUp(a) ==
  /\ a \in Asks \ null /\ Execute(a)
  /\ log' = [log EXCEPT ![conv[a]] = Append(@, a)]
  /\ \E c \in {current, conv[a]} : Disturb(c)
  /\ UNCHANGED <<calls, locks, cache, gone, others, unsure>>

(* DeleteChatTurns. *)
DeleteTurns(c, told) ==
  /\ gone' = gone \cup ToSet(log[c])
  /\ unsure' = IF told THEN unsure ELSE unsure \cup ToSet(log[c])
  /\ Disturb(IF current = c THEN NoConv ELSE current)

RunDelete(d) ==
  /\ d \in Deletes /\ Execute(d)
  /\ DeleteTurns(conv[d], at[d] = "sent")
  /\ UNCHANGED <<calls, locks, cache, log, others>>

(* Another client of the account deletes a conversation.                   *)
OtherClient(c) ==
  /\ others < MaxOthers /\ others' = others + 1
  /\ DeleteTurns(c, FALSE)
  /\ UNCHANGED <<calls, locks, cache, net, requests, log>>

-----------------------------------------------------------------------------

CallStep(k) ==
  \/ Send(k) \/ NullAnswered(k) \/ Resolve(k) \/ DeleteAnswered(k) \/ RequestFails(k)
  \/ \E text \in BOOLEAN : FollowUpAnswered(k, text) \/ NullCached(k, text)

ChatNext ==
  \/ \E k \in Calls : CallStep(k) \/ PostAgain(k) \/ Cancel(k) \/ \E c \in Convs \cup {NoConv} : Start(k, c)
  \/ \E k \in Calls : RunNullAsk(k) \/ RunFollowUp(k) \/ RunDelete(k)
  \/ \E c \in Convs : OtherClient(c)
  \/ ClearCache

(* The event loop runs what is ready, and a request has a timeout.         *)
ChatSpec == ChatInit /\ [][ChatNext]_chatVars /\ \A k \in Calls : WF_chatVars(CallStep(k))

-----------------------------------------------------------------------------
(* Properties *)

(* Every variable has its type; the cache is within its two limits, and    *)
(* lists exactly the conversations it has turns of.                        *)
ChatTypeOK ==
  /\ at \in [Calls -> {"idle", "waiting", "sent", "answered", "caching", "done", "failed"}]
  /\ conv \in [Calls -> Convs \cup {NoConv}]
  /\ null \subseteq Asks /\ net \subseteq Calls /\ gone \subseteq Asks
  /\ stale \in [Calls -> 0 .. replays] /\ replays \in 0 .. MaxReplays /\ late \subseteq Calls
  /\ moved \subseteq null /\ unsure \subseteq gone
  /\ hist \in [Asks -> SUBSET Asks]
  /\ current \in Convs \cup {NoConv} /\ others \in 0 .. MaxOthers
  /\ Len(lru) <= MaxConvs /\ IsInjective(lru)
  /\ \A c \in Convs : Len(turns[c]) <= MaxTurns /\ (Contains(lru, c) <=> turns[c] # <<>>)

Before(s, a, b) == \E i, j \in 1 .. Len(s) : i < j /\ s[i] = a /\ s[j] = b

(* The turns of a conversation are cached in the order in which Google has *)
(* executed them, two follow-ups as well as two null asks; only a null ask *)
(* and a follow-up may be swapped (the comment before the locks says so).  *)
(* Not so behind an ask that was posted again before it was known that its *)
(* first request could not be executed any more.                           *)
CachedInServerOrder ==
  \A c \in Convs, a, b \in Asks :
    /\ Before(turns[c], a, b)
    /\ a # b /\ a \notin late
    /\ a \in null <=> b \in null
    => ~Before(log[c], b, a)

(* A cached turn belongs to its conversation, unless the most recent one   *)
(* was changed between the execution of a null ask and the reply of hPTbtc.*)
(* Other null asks of this client never change it then.                    *)
CachedWhereItBelongs ==
  \A c \in Convs : \A a \in ToSet(turns[c]) \ moved : a \in ToSet(log[c])

(* No follow-up that is still awaited is executed with a history that has  *)
(* a follow-up turn of before a delete this client has been told of:       *)
(* delete_conversation takes the lock of the asks (_chat/api.py:684).      *)
NoDeletedHistory ==
  [][\A a \in Asks \ null : at[a] = "sent" /\ (a \in net \ net' \/ stale'[a] < stale[a]) =>
       hist[a] \cap (gone \ (null \cup unsure)) = {}]_chatVars

(* An answered follow-up was posted with every earlier one that the cache  *)
(* still has: no two of them are posted from the same history (comment at  *)
(* _chat/api.py:172), unless the second was posted again as above.         *)
Lineage ==
  \A c \in Convs, a, b \in Asks \ null :
    /\ at[b] = "done" /\ a # b /\ b \notin late
    /\ Before(log[c], a, b) /\ Contains(turns[c], a)
    => a \in hist[b]

(* Every ask and every delete comes to an end, so that in the end none is  *)
(* left: the two kinds of lock are never waited for in a circle, and a     *)
(* cancelled holder lets them go.                                          *)
AsksEnd == <>[](\A k \in Calls : ~Live(k))

=============================================================================
