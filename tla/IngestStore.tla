------------------------------- MODULE IngestStore -------------------------------
(***************************************************************************)
(* The Postgres backend for one session: processes that register the agent *)
(* (sdk/registration.py) and send envelopes through                        *)
(* ManagedLocalIngestClient (sdk/client.py), IngestHandler                 *)
(* (ingest/handler.py) with its IdempotencyStore (ingest/idempotency.py),  *)
(* and the hash-chain write of crud/action.py.                             *)
(*                                                                         *)
(* A client's lock makes its transactions sequential; those of different   *)
(* processes interleave at the unlocked read of the session and at the row *)
(* lock, which is held until the commit.  The ORM session keeps the object *)
(* it read first, so what is written is computed from that reading.        *)
(* Postgres is external: it may fail, or lose the answer to a COMMIT.      *)
(***************************************************************************)
EXTENDS Integers, Sequences, FiniteSets, SequencesExt

CONSTANTS
    Client,       \* processes, one ManagedLocalIngestClient each
    Event,        \* envelopes, by event_id
    ClientOf,     \* event -> the process that sends it
    TypeOf,       \* event -> "open" | "action" | "decision" | "close"
    MaxResends,   \* bound on the resends after an exception
    MaxEntries,   \* MAX_ENTRIES of the IdempotencyStore
    None

ASSUME IngestAssumption ==
    /\ ClientOf \in [Event -> Client]
    /\ TypeOf \in [Event -> {"open", "action", "decision", "close"}]
    /\ MaxResends \in Nat
    /\ MaxEntries \in Nat \ {0}
    /\ None \notin Client \cup Event

VARIABLES
    session,    \* the row of the session
    rows,       \* committed rows of actions and decisions
    lock,       \* the process whose transaction holds the session's row
    pc,         \* client -> where it is
    current,    \* client -> the event its transaction is about
    seen,       \* client -> the session as its ORM session read it
    cache,      \* client -> _entries of its IdempotencyStore, oldest first
    answer,     \* event -> what the caller was told
    resends,    \* resends so far
    agents,     \* rows of the agents table for (name, environment)
    agentOf,    \* client -> the agent_id it uses
    undone,     \* events whose transaction was rolled back at its commit
    forgotten   \* events that left a cache by TTL or size

callVars == <<pc, current, seen, answer, resends>>
agentVars == <<agents, agentOf>>
vars == <<session, rows, lock, callVars, cache, agentVars, undone, forgotten>>

NoSession == [status |-> "none", count |-> 0, tail |-> 0, decisions |-> 0]

Chained == {r \in rows : r.seq > 0}

-------------------------------------------------------------------------------
(* The IdempotencyStore *)

Entry(c, e) == {i \in DOMAIN cache[c] : cache[c][i].event = e}

(* Mutant of Remembered: the lookup always misses. *)
NeverRemembered(c, e) == FALSE

Remembered(c, e) == Entry(c, e) # {}

Response(c, e) == cache[c][CHOOSE i \in Entry(c, e) : TRUE].response

(* _enforce_size_cap_locked *)
Overflow(q) == Len(q) - MaxEntries

(* set(): a refreshed key goes to the end; the oldest go over the size cap.  *)
Remember(c, e, response) ==
    LET others == IF Remembered(c, e) THEN RemoveAt(cache[c], CHOOSE i \in Entry(c, e) : TRUE)
                                      ELSE cache[c]
        q == Append(others, [event |-> e, response |-> response])
        kept == SubSeq(q, IF Overflow(q) > 0 THEN Overflow(q) + 1 ELSE 1, Len(q))
    IN /\ cache' = [cache EXCEPT ![c] = kept]
       /\ forgotten' = forgotten \cup ({x.event : x \in ToSet(q)} \ {x.event : x \in ToSet(kept)})

-------------------------------------------------------------------------------
Init ==
    /\ session = NoSession
    /\ rows = {}
    /\ lock = None
    /\ pc = [c \in Client |-> "start"]
    /\ current = [c \in Client |-> None]
    /\ seen = [c \in Client |-> NoSession]
    /\ cache = [c \in Client |-> <<>>]
    /\ answer = [e \in Event |-> "new"]
    /\ resends = 0
    /\ agents = {}
    /\ agentOf = [c \in Client |-> None]
    /\ undone = {}
    /\ forgotten = {}

(* get_or_register_agent: INSERT ... ON CONFLICT DO NOTHING, committed; an   *)
(* agent row is named after the process that made it.                        *)
InsertAgent(c) ==
    /\ pc[c] = "start"
    /\ pc' = [pc EXCEPT ![c] = "select"]
    /\ agents' = IF agents = {} THEN {c} ELSE agents
    /\ UNCHANGED <<session, rows, lock, current, seen, cache, answer, resends, agentOf, undone, forgotten>>

(* Mutant of SelectAgent: the id that was to be inserted is returned. *)
ReturnOwnAgent(c) ==
    /\ pc[c] = "select"
    /\ pc' = [pc EXCEPT ![c] = "idle"]
    /\ agentOf' = [agentOf EXCEPT ![c] = c]
    /\ UNCHANGED <<session, rows, lock, current, seen, cache, answer, resends, agents, undone, forgotten>>

(* Then the SELECT, whose row is the agent. *)
SelectAgent(c) ==
    /\ pc[c] = "select"
    /\ pc' = [pc EXCEPT ![c] = "idle"]
    /\ \E a \in agents : agentOf' = [agentOf EXCEPT ![c] = a]
    /\ UNCHANGED <<session, rows, lock, current, seen, cache, answer, resends, agents, undone, forgotten>>

(* A caller calls handle(), or calls it again after an exception.            *)
Sends(c, e) ==
    /\ pc[c] = "idle"
    /\ ClientOf[e] = c
    /\ \/ answer[e] = "new" /\ UNCHANGED resends
       \/ answer[e] = "raised" /\ resends < MaxResends /\ resends' = resends + 1

(* handle() answers from the IdempotencyStore. *)
AnswerCached(c, e) ==
    /\ Sends(c, e)
    /\ Remembered(c, e)
    /\ answer' = [answer EXCEPT ![e] = Response(c, e)]
    /\ UNCHANGED <<session, rows, lock, pc, current, seen, cache, agentVars, undone, forgotten>>

(* Mutant of Refused: the status of the session is not looked at. *)
RefusedUnlessOpened(e) ==
    IF TypeOf[e] = "open" THEN session.status # "none" ELSE session.status = "none"

(* SessionAlreadyExistsError; _require_running_session.                      *)
Refused(e) ==
    IF TypeOf[e] = "open" THEN session.status # "none" ELSE session.status # "running"

(* The handler raises an IngestError: the rejection is final and cached.     *)
Refuse(c, e) ==
    /\ Sends(c, e)
    /\ ~Remembered(c, e)
    /\ Refused(e)
    /\ answer' = [answer EXCEPT ![e] = "rejected"]
    /\ Remember(c, e, "rejected")
    /\ UNCHANGED <<session, rows, lock, pc, current, seen, agentVars, undone>>

(* Mutant of ReadSession: the answer is cached before the work is done. *)
ReadAndCache(c, e) ==
    /\ Sends(c, e)
    /\ ~Remembered(c, e)
    /\ ~Refused(e)
    /\ seen' = [seen EXCEPT ![c] = session]
    /\ current' = [current EXCEPT ![c] = e]
    /\ pc' = [pc EXCEPT ![c] = "execute"]
    /\ Remember(c, e, "accepted")
    /\ UNCHANGED <<session, rows, lock, answer, agentVars, undone>>

(* The handler finds the session in the state it needs, without a lock.      *)
ReadSession(c, e) ==
    /\ Sends(c, e)
    /\ ~Remembered(c, e)
    /\ ~Refused(e)
    /\ seen' = [seen EXCEPT ![c] = session]
    /\ current' = [current EXCEPT ![c] = e]
    /\ pc' = [pc EXCEPT ![c] = "execute"]
    /\ UNCHANGED <<session, rows, lock, answer, cache, agentVars, undone, forgotten>>

(* The transaction ends with an exception for the caller.                    *)
Raise(c) ==
    /\ answer' = [answer EXCEPT ![current[c]] = "raised"]
    /\ pc' = [pc EXCEPT ![c] = "idle"]
    /\ current' = [current EXCEPT ![c] = None]
    /\ seen' = [seen EXCEPT ![c] = NoSession]
    /\ UNCHANGED resends

(* SELECT ... FOR UPDATE or the first flushed write waits for the row; the   *)
(* accepted response is cached, and only then the caller commits.            *)
Execute(c) ==
    /\ pc[c] = "execute"
    /\ lock = None
    /\ ~(TypeOf[current[c]] = "open" /\ session.status # "none")
    /\ lock' = c
    /\ pc' = [pc EXCEPT ![c] = "commit"]
    /\ Remember(c, current[c], "accepted")
    /\ UNCHANGED <<session, rows, current, seen, answer, resends, agentVars, undone>>

(* The database fails before the response is cached, or the session_id is    *)
(* taken by the time it is inserted.                                         *)
ExecuteFails(c) ==
    /\ pc[c] = "execute"
    /\ Raise(c)
    /\ UNCHANGED <<session, rows, lock, cache, agentVars, undone, forgotten>>

(* Mutant of Written: the session's counter is left to SESSION_CLOSE. *)
WrittenUncounted(e, was, id) ==
    CASE TypeOf[e] = "open"     -> [session EXCEPT !.status = "running"]
      [] TypeOf[e] = "action"   -> [session EXCEPT !.tail = id]
      [] TypeOf[e] = "decision" -> [session EXCEPT !.decisions = was.decisions + 1]
      [] TypeOf[e] = "close"    -> [session EXCEPT !.status = "closed"]

(* The columns the transaction sets: create_with_hash steps 6 and 7, the     *)
(* decision_count, the status; each from the session as it was read.         *)
Written(e, was, id) ==
    CASE TypeOf[e] = "open"     -> [session EXCEPT !.status = "running"]
      [] TypeOf[e] = "action"   -> [session EXCEPT !.count = was.count + 1, !.tail = id]
      [] TypeOf[e] = "decision" -> [session EXCEPT !.decisions = was.decisions + 1]
      [] TypeOf[e] = "close"    -> [session EXCEPT !.status = "closed"]

(* The row it inserts: an action at the next number after the tail.          *)
Inserted(e, was, id) ==
    CASE TypeOf[e] = "action"   -> {[id |-> id, event |-> e, seq |-> was.count + 1, prev |-> was.tail]}
      [] TypeOf[e] = "decision" -> {[id |-> id, event |-> e, seq |-> 0, prev |-> 0]}
      [] OTHER                  -> {}

(* The commit takes effect. *)
Apply(c) ==
    LET id == Cardinality(rows) + 1 IN
    /\ session' = Written(current[c], seen[c], id)
    /\ rows' = rows \cup Inserted(current[c], seen[c], id)

(* db.commit() returns, and handle() with it. *)
Commit(c) ==
    /\ pc[c] = "commit"
    /\ Apply(c)
    /\ lock' = None
    /\ answer' = [answer EXCEPT ![current[c]] = "accepted"]
    /\ pc' = [pc EXCEPT ![c] = "idle"]
    /\ current' = [current EXCEPT ![c] = None]
    /\ seen' = [seen EXCEPT ![c] = NoSession]
    /\ UNCHANGED <<resends, cache, agentVars, undone, forgotten>>

(* The commit takes effect but its answer is lost. *)
CommitUnknown(c) ==
    /\ pc[c] = "commit"
    /\ Apply(c)
    /\ lock' = None
    /\ Raise(c)
    /\ UNCHANGED <<cache, agentVars, undone, forgotten>>

(* The commit fails: all is rolled back except the cached response.          *)
CommitFails(c) ==
    /\ pc[c] = "commit"
    /\ lock' = None
    /\ undone' = undone \cup {current[c]}
    /\ Raise(c)
    /\ UNCHANGED <<session, rows, cache, agentVars, forgotten>>

(* _evict_expired_locked drops an entry whose time is over; the sender's     *)
(* emitted_at decides which that is.                                         *)
Expire(c) ==
    /\ \E i \in DOMAIN cache[c] :
          /\ cache' = [cache EXCEPT ![c] = RemoveAt(@, i)]
          /\ forgotten' = forgotten \cup {cache[c][i].event}
    /\ UNCHANGED <<session, rows, lock, callVars, agentVars, undone>>

Next ==
    \E c \in Client :
        \/ InsertAgent(c) \/ SelectAgent(c)
        \/ Execute(c) \/ ExecuteFails(c)
        \/ Commit(c) \/ CommitUnknown(c) \/ CommitFails(c)
        \/ Expire(c)
        \/ \E e \in Event : AnswerCached(c, e) \/ Refuse(c, e) \/ ReadSession(c, e)

Spec == Init /\ [][Next]_vars

-------------------------------------------------------------------------------
(* Properties *)

Stored(e) ==
    CASE TypeOf[e] = "open"  -> session.status # "none"
      [] TypeOf[e] = "close" -> session.status = "closed"
      [] OTHER               -> \E r \in rows : r.event = e

(* "Every record is durable the moment `handle()` returns" (client.py:126):  *)
(* an event that was answered as accepted is in the store.                   *)
AcceptedIsStored == \A e \in Event : answer[e] = "accepted" => Stored(e)

(* The one way to an accepted answer without a row is a commit that failed   *)
(* after the response had been cached; no failure before it, no lost answer  *)
(* and no other process's transaction leads to one.                          *)
AcceptedOrUndone == \A e \in Event : answer[e] = "accepted" => Stored(e) \/ e \in undone

(* A resend does not store an event twice, lost answers included, unless the *)
(* IdempotencyStore forgot it in between.                                    *)
OneRowPerEvent == \A r, q \in rows : r # q /\ r.event = q.event => r.event \in forgotten

(* "So concurrent writers never produce duplicate sequence_numbers or fork   *)
(* the chain" (crud/action.py:5).                                            *)
NoFork ==
    \A r, q \in Chained : r # q => r.seq # q.seq /\ r.prev # q.prev

(* What is left of it without a fresh reading under the lock: every action   *)
(* links to a committed one numbered one lower, so no number is skipped,     *)
(* whatever other processes do between a transaction's reading and its lock; *)
(* and a fork has two processes in it, none makes one on its own.            *)
LinksResolve ==
    /\ \A r \in Chained : IF r.seq = 1 THEN r.prev = 0
                          ELSE \E q \in Chained : q.id = r.prev /\ q.seq = r.seq - 1
    /\ Cardinality({ClientOf[r.event] : r \in Chained}) = 1 =>
          \A r, q \in Chained : r.seq = q.seq => r = q

(* "The session MUST exist and be `running`" (ingest-spec-v1.md:124):        *)
(* nothing is added to a closed one.                                         *)
(* It does not hold.                                                         *)
NothingAfterClose == [][session.status = "closed" => rows' = rows]_vars

(* How far that holds without the lock: a closed session stays closed, and a *)
(* row that is still added to it was begun while the session was running, by *)
(* a process that has not closed it itself.                                  *)
QuietAfterClose ==
    [][session.status = "closed" =>
          /\ session'.status = "closed"
          /\ \A r \in rows' \ rows :
                /\ seen[ClientOf[r.event]].status = "running"
                /\ \E k \in Event : TypeOf[k] = "close" /\ ClientOf[k] # ClientOf[r.event]]_vars

(* Two first runs end up with the same agent. *)
OneAgentIdentity ==
    \A c, d \in Client : agentOf[c] # None /\ agentOf[d] # None => agentOf[c] = agentOf[d]

================================================================================
