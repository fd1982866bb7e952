----------------------------- MODULE OplogServer -----------------------------
(***************************************************************************)
(* The oplog server: OplogListener tails Mongo's oplog of the triads into  *)
(* OplogBuffer, OplogProcessor takes the buffer in batches, keeps the map  *)
(* from triad ids to entity ids in Redis, looks up the entities whose      *)
(* triads changed and publishes them to Kafka.                             *)
(*                                                                         *)
(* Oplog entries are referred to by their place in the log, which is their *)
(* timestamp.  Only an insertion carries its entity id.  Redis requests    *)
(* are asynchronous and unordered; the callback of the MGET carries the    *)
(* batch on and unblocks the processor at its end.                         *)
(***************************************************************************)
EXTENDS Integers, Sequences, FiniteSets, SequencesExt

CONSTANTS Triads, Entities, EntityOf,  \* EntityOf[t] is the entity of triad t
          m_bufferSize,                \* 200
          CheckpointEvery,             \* 2000: insertions between checkpoints
          MaxLog, MaxCrashes           \* bounds of the environment
ASSUME EntityOfTyped == EntityOf \in [Triads -> Entities]
ASSUME SizesPositive == m_bufferSize \in Nat \ {0} /\ CheckpointEvery \in Nat \ {0}

VARIABLES oplog,        \* Mongo's oplog.rs: [op, _id]
          cursor,       \* last entry the listener has read
          inserted,     \* the listener's i, modulo CheckpointEvery
          m_ts,         \* checkpoint in Redis
          tsSets,       \* SETs of the checkpoint in flight
          m_buffer,     \* entries in OplogBuffer
          m_block,      \* a batch is being processed
          m_oplogs,     \* the batch
          m_entityIds,  \* entities of the batch found so far
          phase,        \* what the batch waits for
          triadMap,     \* ids in the Redis map of triads to entities
          msets, dels,  \* requests in flight on that map: sets of triad ids
          published,    \* Kafka: entity -> length of the oplog at its last message
          crashes,
          excused       \* history: entries lost to a miss, a failure or a crash
redis == <<m_ts, triadMap>>
requests == <<tsSets, msets, dels>>
listener == <<cursor, inserted, m_buffer>>
processor == <<m_block, m_oplogs, m_entityIds, phase>>
vars == <<oplog, redis, requests, listener, processor, published, crashes, excused>>

Entries == 1..Len(oplog)
Phases == {"free", "asked", "answered", "sent", "stuck"}

Init == /\ oplog = <<>>
        /\ cursor = 0 /\ inserted = 0
        /\ m_ts = 0 /\ tsSets = {}
        /\ m_buffer = <<>>
        /\ m_block = FALSE /\ m_oplogs = <<>> /\ m_entityIds = {} /\ phase = "free"
        /\ triadMap = {} /\ msets = {} /\ dels = {}
        /\ published = [e \in Entities |-> 0]
        /\ crashes = 0
        /\ excused = {}

-----------------------------------------------------------------------------
(* Mongo: a triad is inserted once, may be updated, and deleted at last.   *)
Ops(t) == {oplog[i].op : i \in {j \in Entries : oplog[j]._id = t}}
Write(t, op) == /\ Len(oplog) < MaxLog
                /\ CASE op = "i" -> Ops(t) = {}
                     [] OTHER    -> "i" \in Ops(t) /\ "d" \notin Ops(t)
                /\ oplog' = Append(oplog, [op |-> op, _id |-> t])
                /\ UNCHANGED <<redis, requests, listener, processor, published, crashes, excused>>

-----------------------------------------------------------------------------
(* OplogListener::run: one entry, read once the buffer has room, and a     *)
(* checkpoint after every CheckpointEvery-th one put into the buffer.      *)
IsFull == Len(m_buffer) >= m_bufferSize

Listen == /\ cursor < Len(oplog)
          /\ ~IsFull
          /\ cursor' = cursor + 1
          /\ m_buffer' = Append(m_buffer, cursor')
          /\ inserted' = (inserted + 1) % CheckpointEvery
          /\ tsSets' = IF inserted' = 0 THEN tsSets \cup {cursor'} ELSE tsSets
          /\ UNCHANGED <<oplog, redis, msets, dels, processor, published, crashes, excused>>

SaveTsNext(ts) == /\ ts \in tsSets  \* mutant: the entry a restart is to begin with
                  /\ tsSets' = tsSets \ {ts}
                  /\ m_ts' \in {ts + 1, m_ts}
                  /\ UNCHANGED <<oplog, triadMap, msets, dels, listener, processor, published,
                                 crashes, excused>>
SaveTs(ts) == /\ ts \in tsSets
              /\ tsSets' = tsSets \ {ts}
              /\ m_ts' \in {ts, m_ts}
              /\ UNCHANGED <<oplog, triadMap, msets, dels, listener, processor, published,
                             crashes, excused>>

-----------------------------------------------------------------------------
(* OplogProcessor::run takes the buffer when it is full or a minute has    *)
(* passed, that is at any time; an empty one changes nothing.              *)
Ids(batch, op) == {oplog[batch[k]]._id : k \in {j \in DOMAIN batch : oplog[batch[j]].op = op}}
UnknownUpdates(batch) ==  \* mutant: deletions are forgotten
  {k \in ToSet(batch) : oplog[k].op = "u"}
Unknown(batch) == {k \in ToSet(batch) : oplog[k].op # "i"}

(* updateTriadIds, then getEntityIds: without unknown ids the callback is  *)
(* called at once.                                                         *)
StartBatch(batch) ==
  /\ m_block' = TRUE
  /\ m_oplogs' = batch
  /\ msets' = IF Ids(batch, "i") = {} THEN msets ELSE msets \cup {Ids(batch, "i")}
  /\ dels' = IF Ids(batch, "d") = {} THEN dels ELSE dels \cup {Ids(batch, "d")}
  /\ m_entityIds' = {EntityOf[t] : t \in Ids(batch, "i")}
  /\ phase' = IF Unknown(batch) = {} THEN "answered" ELSE "asked"
  /\ UNCHANGED <<oplog, redis, tsSets, cursor, inserted, published, crashes, excused>>

TakeBatchTorn == /\ ~m_block  \* mutant: an entry comes between the copy and the clear
                 /\ m_buffer # <<>>
                 /\ StartBatch(Front(m_buffer))
                 /\ m_buffer' = <<>>
TakeBatch == /\ ~m_block
             /\ m_buffer # <<>>
             /\ StartBatch(m_buffer)
             /\ m_buffer' = <<>>

(* MSET and DEL on the map, applied in any order with each other and with  *)
(* the MGET of their own and later batches, or failed.                     *)
MsetSwapped(S) == /\ S \in msets  \* mutant: keys and values change places
                  /\ msets' = msets \ {S}
                  /\ triadMap' = triadMap \cup {EntityOf[t] : t \in S}
                  /\ UNCHANGED <<oplog, m_ts, tsSets, dels, listener, processor, published,
                                 crashes, excused>>
MsetDone(S) == /\ S \in msets
               /\ msets' = msets \ {S}
               /\ triadMap' \in {triadMap, triadMap \cup S}
               /\ UNCHANGED <<oplog, m_ts, tsSets, dels, listener, processor, published,
                              crashes, excused>>
DelDone(S) == /\ S \in dels
              /\ dels' = dels \ {S}
              /\ triadMap' \in {triadMap, triadMap \ S}
              /\ UNCHANGED <<oplog, m_ts, tsSets, msets, listener, processor, published,
                             crashes, excused>>

(* getEntityIdsCallback: an array, with nil for the ids not in the map...  *)
Found == {k \in Unknown(m_oplogs) : oplog[k]._id \in triadMap}
MgetAnswered == /\ phase = "asked"
                /\ m_entityIds' = m_entityIds \cup {EntityOf[oplog[k]._id] : k \in Found}
                /\ excused' = excused \cup (Unknown(m_oplogs) \ Found)
                /\ phase' = "answered"
                /\ UNCHANGED <<oplog, redis, requests, listener, m_block, m_oplogs,
                               published, crashes>>

(* ... an error reply, which is logged and taken for no ids ...            *)
MgetError == /\ phase = "asked"
             /\ excused' = excused \cup Unknown(m_oplogs)
             /\ phase' = "answered"
             /\ UNCHANGED <<oplog, redis, requests, listener, m_block, m_oplogs, m_entityIds,
                            published, crashes>>

(* ... or a task that failed: the callback returns and the batch with it.  *)
MgetFailed == /\ phase = "asked"
              /\ phase' = "stuck"
              /\ UNCHANGED <<oplog, redis, requests, listener, m_block, m_oplogs, m_entityIds,
                             published, crashes, excused>>

(* sendMessage2Kafka: messages may be refused or lost, which is logged.    *)
SendMessages == /\ phase = "answered"
                /\ \E sent \in SUBSET m_entityIds :
                     /\ published' = [e \in Entities |-> IF e \in sent THEN Len(oplog)
                                                                       ELSE published[e]]
                     /\ excused' = excused \cup {k \in ToSet(m_oplogs) :
                                       EntityOf[oplog[k]._id] \in m_entityIds \ sent}
                /\ phase' = "sent"
                /\ UNCHANGED <<oplog, redis, requests, listener, m_block, m_oplogs, m_entityIds, crashes>>

EraseBlocked == /\ phase = "sent"  \* mutant: m_block stays set
                /\ m_oplogs' = <<>> /\ m_entityIds' = {}
                /\ phase' = "free"
                /\ UNCHANGED <<oplog, redis, requests, listener, m_block, published, crashes, excused>>
EraseStatus == /\ phase = "sent"
               /\ m_oplogs' = <<>>
               /\ m_entityIds' = {}
               /\ m_block' = FALSE
               /\ phase' = "free"
               /\ UNCHANGED <<oplog, redis, requests, listener, published, crashes, excused>>

-----------------------------------------------------------------------------
(* The process dies with its memory and its requests; OplogListener::init  *)
(* of the next one tails the oplog from behind the checkpoint.             *)
InMemory == ToSet(m_buffer) \cup ToSet(m_oplogs)
Crash == /\ crashes < MaxCrashes
         /\ crashes' = crashes + 1
         /\ excused' = excused \cup {k \in InMemory : k <= m_ts}
         /\ cursor' = m_ts
         /\ inserted' = 0
         /\ m_buffer' = <<>> /\ tsSets' = {} /\ msets' = {} /\ dels' = {}
         /\ m_block' = FALSE /\ m_oplogs' = <<>> /\ m_entityIds' = {} /\ phase' = "free"
         /\ UNCHANGED <<oplog, redis, published>>

-----------------------------------------------------------------------------
Process == TakeBatch \/ SendMessages \/ EraseStatus
Answer == MgetAnswered \/ MgetError \/ MgetFailed

Next == \/ \E t \in Triads, op \in {"i", "u", "d"} : Write(t, op)
        \/ Listen
        \/ \E ts \in tsSets : SaveTs(ts)
        \/ \E S \in msets : MsetDone(S)
        \/ \E S \in dels : DelDone(S)
        \/ Process \/ Answer
        \/ Crash

Spec == Init /\ [][Next]_vars

(* Both threads run, and Workflow calls back for every MGET.               *)
Fairness == WF_vars(Listen) /\ WF_vars(Process) /\ WF_vars(Answer)
FairSpec == Spec /\ Fairness

-----------------------------------------------------------------------------
TypeOK == /\ oplog \in Seq([op : {"i", "u", "d"}, _id : Triads])
          /\ cursor \in 0..Len(oplog) /\ m_ts \in Nat /\ tsSets \subseteq Nat
          /\ inserted \in 0..CheckpointEvery - 1
          /\ m_buffer \in Seq(Entries) /\ m_oplogs \in Seq(Entries)
          /\ m_block \in BOOLEAN /\ phase \in Phases
          /\ m_entityIds \subseteq Entities
          /\ triadMap \subseteq Triads
          /\ msets \subseteq SUBSET Triads /\ dels \subseteq SUBSET Triads
          /\ published \in [Entities -> Nat]
          /\ excused \subseteq Entries

(* Between them, m_block and the phase hand a batch over without overlap   *)
(* or gap: the batch and behind it the buffer are the last entries the     *)
(* listener has read, each of them once, up to the cursor.                 *)
EachEntryOnce == LET held == m_oplogs \o m_buffer IN
  \A i \in DOMAIN held : held[i] = cursor - Len(held) + i

(* Every change of a triad that the server has dealt with was followed by  *)
(* a message about its entity, unless the look-up of the triad's id missed *)
(* or failed, Kafka refused the message, or a crash caught the entry in    *)
(* memory although the checkpoint had passed it.                           *)
Published(k) == published[EntityOf[oplog[k]._id]] >= k
ChangesPublished == \A k \in 1..cursor : k \in InMemory \cup excused \/ Published(k)

(* The server implements a reader that resumes: the listener reads entry   *)
(* after entry, and whatever checkpoints are lost or overtaken, the one    *)
(* that a restart finds is not ahead of what the listener has read.        *)
Reader == INSTANCE LogReader WITH length <- Len(oplog), position <- cursor, saved <- m_ts
ReaderImplemented == Reader!ReaderSpec

(* When the oplog is left alone the server works it off, unless an MGET    *)
(* failed: then the processor never takes another batch.                   *)
WorkedOff == cursor = Len(oplog) /\ InMemory = {}
DrainsOrSticks == <>[](WorkedOff \/ phase = "stuck")
=============================================================================
