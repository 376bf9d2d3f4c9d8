------------------------------- MODULE Traceability -------------------------------
(***************************************************************************)
(* Batches and their append-only events.  A create holds an advisory lock on *)
(* its operation key, an append the lock of the batch row; uniqueness of the *)
(* operation key is left to the index, whose violation is resolved as a      *)
(* replay.  A transaction's rows stay in its frame until it commits; an      *)
(* insert waits for another transaction that holds the same key.             *)
(***************************************************************************)
EXTENDS Handlers, Integers, FiniteSets, FiniteSetsExt

CONSTANTS
    Batches,    \* batch ids; each stands for its codes, which are unique too
    Keys,       \* operation keys
    Facts,      \* kind, time, payload and evidence of an event
    MaxEvents   \* bound on the events of a batch

ASSUME TraceAssumption == MaxEvents \in Nat /\ "BATCH_CREATED" \notin Facts

VARIABLES
    events,     \* committed events; a batch is there with its first event
    answered,   \* history: requests answered with success, and for which batch
    refused     \* history: appends to a batch that is there, answered with an error

traceRows == <<events, answered, refused>>

Events == [batch : Batches, sequence : 1..MaxEvents, fact : Facts \cup {"BATCH_CREATED"}, key : Keys]
Request(c) == [key |-> call[c].key, fact |-> call[c].fact, batch |-> call[c].batch]

TraceInit == events = {} /\ answered = {} /\ refused = {}

EventsOf(b) == {e \in events : e.batch = b}
WithKey(key) == {e \in events : e.key = key}

\* What the open transactions hold.
Holds(c, lock) == "locks" \in DOMAIN call[c] /\ lock \in call[c].locks
Free(lock) == \A c \in Calls : ~Holds(c, lock)

Trace(c, await, b, fact, key) ==
    Receive(c, [at |-> await, batch |-> b, fact |-> fact, key |-> key, locks |-> {}, row |-> {}])

Step(c, await, locks) ==
    call' = [call EXCEPT ![c].at = await, ![c].locks = @ \cup locks]

Answer(c, b) ==
    /\ answered' = answered \cup {[key |-> call[c].key, fact |-> call[c].fact,
                                   asked |-> call[c].batch, batch |-> b]}
    /\ End(c)
    /\ UNCHANGED <<events, refused>>

Refuse(c) ==
    /\ refused' = refused \cup {r \in {Request(c)} : r.fact # "BATCH_CREATED"}
    /\ End(c)
    /\ UNCHANGED <<events, answered>>

\* assertCreateReplay and assertAppendReplay: the stored event is the one asked
\* for, or the key belongs to another request.
Replay(c, e) ==
    IF e.batch = call[c].batch /\ e.fact = call[c].fact THEN Answer(c, e.batch) ELSE Refuse(c)

-----------------------------------------------------------------------------
(* One action per statement of the two transactions *)

CreateBatch(c) ==
    /\ \E b \in Batches, key \in Keys : Trace(c, "locking-key", b, "BATCH_CREATED", key)
    /\ UNCHANGED traceRows

\* pg_advisory_xact_lock on the key.
LockKey(c) ==
    /\ At(c, "locking-key")
    /\ Free(<<"key", call[c].key>>)
    /\ Step(c, "looking-up", {<<"key", call[c].key>>})
    /\ UNCHANGED traceRows

AppendEvent(c) ==
    /\ \E b \in Batches, fact \in Facts, key \in Keys : Trace(c, "locking-batch", b, fact, key)
    /\ UNCHANGED traceRows

\* Mutant of BatchIsFree: the row is read without a lock.
BatchIsFreeAlways(c) == TRUE

BatchIsFree(c) == Free(<<"batch", call[c].batch>>)

\* SELECT ... FOR UPDATE of the batch; a missing one is an error.
LockBatch(c) ==
    /\ At(c, "locking-batch")
    /\ \/ /\ EventsOf(call[c].batch) # {} /\ BatchIsFree(c)
          /\ Step(c, "looking-up", {<<"batch", call[c].batch>>})
          /\ UNCHANGED traceRows
       \/ EventsOf(call[c].batch) = {} /\ End(c) /\ UNCHANGED traceRows

\* Mutant of NextNumber: the number after the latest event of any batch.
NextNumberOfAll(b) == Max({0} \cup {e.sequence : e \in events}) + 1

\* A new batch starts with 1, an append takes the number after the latest event.
NextNumber(b) == Max({0} \cup {e.sequence : e \in EventsOf(b)}) + 1

\* The event of the operation key, or the place of a new one.
LookUp(c) ==
    LET b == call[c].batch
        number == NextNumber(b) IN
    /\ At(c, "looking-up")
    /\ \/ \E e \in WithKey(call[c].key) : Replay(c, e)
       \/ /\ WithKey(call[c].key) = {}
          /\ IF number > MaxEvents THEN End(c)
             ELSE call' = [call EXCEPT ![c].at = IF call[c].fact = "BATCH_CREATED"
                                                 THEN "inserting-batch" ELSE "inserting-event",
                                       ![c].row = [batch |-> b, fact |-> call[c].fact,
                                                   sequence |-> number, key |-> call[c].key]]
          /\ UNCHANGED traceRows

\* The INSERT of the batch, whose codes are unique: it waits for a transaction
\* that inserts the same, and fails when the batch is there.
InsertBatch(c) ==
    LET code == <<"code", call[c].batch>> IN
    /\ At(c, "inserting-batch")
    /\ Free(code)
    /\ \/ /\ EventsOf(call[c].batch) = {}
          /\ Step(c, "inserting-event", {code})
          /\ UNCHANGED traceRows
       \/ EventsOf(call[c].batch) # {} /\ Refuse(c)

\* The INSERT of the event, whose key and place in the batch are unique.  The
\* violation of the first rolls the transaction back and is resolved; that of
\* the second is an error.
InsertEvent(c) ==
    LET row == call[c].row
        unique == {<<"event", row.key>>, <<"place", row.batch, row.sequence>>} IN
    /\ At(c, "inserting-event")
    /\ \A lock \in unique : Free(lock)
    /\ \/ /\ WithKey(row.key) # {}
          /\ call' = [call EXCEPT ![c].at = "resolving", ![c].locks = {}]
          /\ UNCHANGED traceRows
       \/ /\ WithKey(row.key) = {}
          /\ \E e \in EventsOf(row.batch) : e.sequence = row.sequence
          /\ Refuse(c)
       \/ /\ WithKey(row.key) = {}
          /\ \A e \in EventsOf(row.batch) : e.sequence # row.sequence
          /\ Step(c, "committing", unique)
          /\ UNCHANGED traceRows

Commit(c) ==
    /\ At(c, "committing")
    /\ events' = events \cup {call[c].row}
    /\ call' = [call EXCEPT ![c].at = "projecting", ![c].locks = {}]
    /\ UNCHANGED <<answered, refused>>

\* projectById, outside the transaction.
Project(c) == At(c, "projecting") /\ Answer(c, call[c].row.batch)

\* resolveCreateOperationConflict and resolveAppendOperationConflict.
Resolve(c) == \E e \in WithKey(call[c].key) : Replay(c, e)

ResolveConflict(c) == At(c, "resolving") /\ Resolve(c)

\* The process dies; an open transaction is rolled back.
CrashTrace(c) == "locks" \in DOMAIN call[c] /\ Die(c) /\ UNCHANGED traceRows

TraceStep(c) ==
    \/ CreateBatch(c) \/ LockKey(c) \/ AppendEvent(c) \/ LockBatch(c)
    \/ LookUp(c) \/ InsertBatch(c) \/ InsertEvent(c) \/ Commit(c) \/ Project(c)
    \/ ResolveConflict(c) \/ CrashTrace(c)

-----------------------------------------------------------------------------
(* Properties *)

\* Every variable has its type.
TraceTypeOK == events \subseteq Events

\* The timeline of a batch is its creation followed by its events, numbered
\* without a gap, whatever appends, retries and crashes there were.
TimelineHasNoGap ==
    \A b \in Batches :
        /\ {e.sequence : e \in EventsOf(b)} = 1..Cardinality(EventsOf(b))
        /\ \A e \in EventsOf(b) : (e.sequence = 1) = (e.fact = "BATCH_CREATED")

\* An operation key stands for one event, and who was answered with success
\* under that key had asked for exactly this event.
AnsweredAsStored ==
    \A a \in answered :
        /\ a.batch = a.asked
        /\ \E e \in events : WithKey(a.key) = {e} /\ e.batch = a.batch /\ e.fact = a.fact

\* An append to a batch that is there is refused only because its key belongs
\* to another event: appends side by side do not fail each other.
AppendsAreNotInTheWay ==
    \A r \in refused : \E e \in WithKey(r.key) : e.batch # r.batch \/ e.fact # r.fact
=============================================================================
