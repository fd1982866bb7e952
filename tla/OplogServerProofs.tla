-------------------------- MODULE OplogServerProofs --------------------------
(***************************************************************************)
(* Proofs about OplogServer for any triads and entities, sizes of buffer   *)
(* and checkpoint, lengths of the oplog and numbers of crashes: what was   *)
(* read is held once and without gaps, and every change is published or    *)
(* its loss is known.                                                      *)
(***************************************************************************)
EXTENDS OplogServer, SequenceTheorems, TLAPS

(* The entity whose triad entry k is about.                                *)
EntityOfEntry(k) == EntityOf[oplog[k]._id]

(* The entries in memory are the last ones before the cursor, those of the *)
(* batch before those of the buffer.                                       *)
Behind == cursor - Len(m_buffer)
HeldInOrder == /\ Len(m_oplogs) + Len(m_buffer) <= cursor
               /\ \A i \in 1..Len(m_oplogs) : m_oplogs[i] \in 1..cursor
               /\ \A i \in 1..Len(m_buffer) : m_buffer[i] \in 1..cursor
               /\ \A i \in 1..Len(m_oplogs) : m_oplogs[i] = Behind - Len(m_oplogs) + i
               /\ \A i \in 1..Len(m_buffer) : m_buffer[i] = Behind + i

(* No checkpoint, saved or on its way, is ahead of the cursor.             *)
CheckpointBehind == m_ts <= cursor /\ \A ts \in tsSets : ts <= cursor

(* What each phase of the batch has achieved.                              *)
InBatch == {m_oplogs[i] : i \in 1..Len(m_oplogs)}
BatchProgress ==
  /\ ~m_block => m_oplogs = <<>>
  /\ phase = "asked" => \A k \in InBatch : oplog[k].op = "i" => EntityOfEntry(k) \in m_entityIds
  /\ phase = "answered" => \A k \in InBatch : EntityOfEntry(k) \in m_entityIds \/ k \in excused
  /\ phase = "sent" => \A k \in InBatch : k \in excused \/ Published(k)

(* Together they are inductive.  ChangesPublished alone is not: a crash    *)
(* needs CheckpointBehind, and dropping the batch needs BatchProgress.     *)
ServerInv == TypeOK /\ HeldInOrder /\ CheckpointBehind /\ BatchProgress /\ ChangesPublished

(* ToSet, for a sequence of entries' places in the log.                    *)
LEMMA ToSetIs == ASSUME NEW s \in Seq(Nat) PROVE ToSet(s) = {s[i] : i \in 1..Len(s)}
BY DEF ToSet

(* What ServerInv says of the entries in memory.                           *)
LEMMA MemoryIs ==
  ASSUME TypeOK
  PROVE  InMemory = InBatch \cup {m_buffer[i] : i \in 1..Len(m_buffer)}
<1>1. m_oplogs \in Seq(Nat) /\ m_buffer \in Seq(Nat)
  BY DEF TypeOK, Entries
<1> QED BY <1>1, ToSetIs DEF InMemory, InBatch

(* An entry of the log names a triad, and so an entity.                    *)
LEMMA EntryTyped ==
  ASSUME TypeOK, NEW k \in Entries
  PROVE  oplog[k]._id \in Triads /\ EntityOfEntry(k) \in Entities
<1>1. oplog[k] \in [op : {"i", "u", "d"}, _id : Triads]
  BY ElementOfSeq DEF TypeOK, Entries
<1> QED BY <1>1, EntityOfTyped DEF EntityOfEntry

(* Nothing is held and nothing read when the server starts.                *)
LEMMA InitServer == Init => ServerInv
<1> SUFFICES ASSUME Init PROVE ServerInv
  OBVIOUS
<1>1. TypeOK
  <2>1. inserted \in 0..CheckpointEvery - 1
    BY SizesPositive DEF Init
  <2>2. published \in [Entities -> Nat]
    BY DEF Init
  <2>3. /\ oplog \in Seq([op : {"i", "u", "d"}, _id : Triads])
        /\ m_buffer \in Seq(Entries) /\ m_oplogs \in Seq(Entries)
    BY DEF Init
  <2>4. cursor \in 0..Len(oplog)
    BY DEF Init
  <2> QED BY <2>1, <2>2, <2>3, <2>4 DEF Init, TypeOK, Phases
<1>2. HeldInOrder /\ CheckpointBehind /\ BatchProgress
  BY DEF Init, HeldInOrder, Behind, CheckpointBehind, BatchProgress, InBatch
<1>3. ChangesPublished
  BY DEF Init, ChangesPublished
<1> QED BY <1>1, <1>2, <1>3 DEF ServerInv

(* An entry of the log stays what it is.                                   *)
LEMMA LogGrows ==
  ASSUME ServerInv, NEW t \in Triads, NEW op \in {"i", "u", "d"}, Write(t, op)
  PROVE  /\ oplog' \in Seq([op : {"i", "u", "d"}, _id : Triads])
         /\ Len(oplog') = Len(oplog) + 1
         /\ \A k \in 1..Len(oplog) : oplog'[k] = oplog[k]
BY DEF ServerInv, TypeOK, Write

(* A write to Mongo changes nothing the server has read.                   *)
LEMMA WriteKeeps ==
  ASSUME ServerInv, NEW t \in Triads, NEW op \in {"i", "u", "d"}, Write(t, op)
  PROVE  ServerInv'
<1> USE DEF ServerInv
<1>1. TypeOK'
  BY LogGrows DEF TypeOK, Write, redis, requests, listener, processor, Entries
<1>2. HeldInOrder' /\ CheckpointBehind'
  BY DEF HeldInOrder, Behind, CheckpointBehind, Write, redis, requests, listener, processor
<1>3. cursor \in 0..Len(oplog)
  BY DEF TypeOK
<1>4. \A k \in 1..cursor : oplog'[k] = oplog[k] /\ (Published(k))' = Published(k)
  BY <1>3, LogGrows DEF Published, Write
<1>5. InBatch' = InBatch /\ InBatch \subseteq 1..cursor
  BY DEF InBatch, HeldInOrder, Write, processor
<1>6. BatchProgress'
  BY <1>4, <1>5 DEF BatchProgress, EntityOfEntry, Write, processor
<1>7. InMemory' = InMemory
  BY DEF InMemory, Write, processor, listener
<1>8. ChangesPublished'
  BY <1>4, <1>7 DEF ChangesPublished, Write, listener
<1> QED BY <1>1, <1>2, <1>6, <1>8

(* The listener reads behind everything in memory.                         *)
LEMMA ListenKeeps == ASSUME ServerInv, Listen PROVE ServerInv'
<1> USE DEF ServerInv
<1>1. /\ cursor \in Nat /\ cursor' = cursor + 1 /\ cursor' \in Entries
      /\ m_buffer \in Seq(Entries) /\ Entries' = Entries
  BY DEF Listen, TypeOK, Entries
<1>2. /\ m_buffer' \in Seq(Entries)
      /\ Len(m_buffer') = Len(m_buffer) + 1
      /\ \A i \in 1..Len(m_buffer) : m_buffer'[i] = m_buffer[i]
      /\ m_buffer'[Len(m_buffer')] = cursor + 1
  BY <1>1 DEF Listen
<1>3. inserted' \in 0..CheckpointEvery - 1
  BY SizesPositive DEF Listen, TypeOK
<1>4. tsSets' \subseteq Nat /\ \A ts \in tsSets' : ts \in tsSets \/ ts = cursor + 1
  BY <1>1 DEF Listen, TypeOK
<1>5. TypeOK'
  BY <1>1, <1>2, <1>3, <1>4 DEF TypeOK, Listen, redis, processor, Entries
<1>6. HeldInOrder'
  <2>1. m_oplogs' = m_oplogs
    BY DEF Listen, processor
  <2>2. \A i \in 1..Len(m_buffer') : i \in 1..Len(m_buffer) \/ i = Len(m_buffer')
    BY <1>1, <1>2
  <2>3. \A i \in 1..Len(m_buffer') :
          m_buffer'[i] = IF i \in 1..Len(m_buffer) THEN m_buffer[i] ELSE cursor + 1
    BY <1>1, <1>2, <2>2
  <2>4. Len(m_oplogs) \in Nat /\ Len(m_buffer) \in Nat /\ Behind' = Behind
    BY <1>1, <1>2 DEF Behind, TypeOK
  <2>5. \A i \in 1..Len(m_buffer) : m_buffer[i] \in 1..cursor
    BY DEF HeldInOrder
  <2>6. \A i \in 1..Len(m_buffer') : m_buffer'[i] \in 1..cursor'
    BY <1>1, <2>3, <2>5
  <2>7. \A i \in 1..Len(m_buffer') : m_buffer'[i] = Behind' + i
    BY <1>1, <1>2, <2>2, <2>3, <2>4 DEF HeldInOrder, Behind
  <2>8. /\ Len(m_oplogs') + Len(m_buffer') <= cursor'
        /\ \A i \in 1..Len(m_oplogs') : m_oplogs'[i] \in 1..cursor'
        /\ \A i \in 1..Len(m_oplogs') : m_oplogs'[i] = Behind' - Len(m_oplogs') + i
    BY <1>1, <1>2, <2>1, <2>4 DEF HeldInOrder
  <2> QED BY <2>6, <2>7, <2>8 DEF HeldInOrder, Behind
<1>7. CheckpointBehind'
  BY <1>1, <1>4 DEF CheckpointBehind, Listen, redis, TypeOK
<1>8. BatchProgress'
  BY DEF BatchProgress, Listen, processor, InBatch, EntityOfEntry, Published
<1>9. cursor' \in InMemory' /\ InMemory \subseteq InMemory'
  <2>1. InMemory' = InBatch' \cup {m_buffer'[i] : i \in 1..Len(m_buffer')}
    <3>1. m_oplogs' \in Seq(Nat) /\ m_buffer' \in Seq(Nat)
      BY <1>5 DEF TypeOK, Entries
    <3> QED BY <3>1, ToSetIs DEF InMemory, InBatch
  <2> QED BY <2>1, <1>1, <1>2, MemoryIs DEF InBatch, Listen, processor
<1>10. ChangesPublished'
  BY <1>1, <1>9 DEF ChangesPublished, Published, Listen
<1> QED BY <1>5, <1>6, <1>7, <1>8, <1>10

(* Steps that touch neither log, cursor, memory, progress nor messages.    *)
LEMMA RestKeeps ==
  ASSUME ServerInv,
         UNCHANGED <<oplog, cursor, m_buffer, processor, published, excused>>
  PROVE  HeldInOrder' /\ BatchProgress' /\ ChangesPublished'
<1> USE DEF ServerInv, processor
<1>1. HeldInOrder'
  BY DEF HeldInOrder, Behind
<1>2. BatchProgress'
  BY DEF BatchProgress, InBatch, EntityOfEntry, Published
<1>3. ChangesPublished'
  BY DEF ChangesPublished, InMemory, Published
<1> QED BY <1>1, <1>2, <1>3

(* Checkpoints and updates of the map land, or fail, at any time.          *)
LEMMA RedisKeeps ==
  ASSUME ServerInv,
         \/ \E ts \in tsSets : SaveTs(ts)
         \/ \E S \in msets : MsetDone(S)
         \/ \E S \in dels : DelDone(S)
  PROVE  ServerInv'
<1> USE DEF ServerInv
<1>1. CASE \E ts \in tsSets : SaveTs(ts)
  <2> PICK ts \in tsSets : SaveTs(ts)
    BY <1>1
  <2>1. UNCHANGED <<oplog, cursor, m_buffer, processor, published, excused>>
    BY DEF SaveTs, listener
  <2>2. TypeOK'
    BY <2>1 DEF SaveTs, TypeOK, listener, processor, Entries
  <2>3. CheckpointBehind'
    BY <2>1 DEF SaveTs, CheckpointBehind, TypeOK
  <2> QED BY <2>1, <2>2, <2>3, RestKeeps
<1>2. CASE \E S \in msets : MsetDone(S)
  <2> PICK S \in msets : MsetDone(S)
    BY <1>2
  <2>1. UNCHANGED <<oplog, cursor, m_buffer, processor, published, excused>>
    BY DEF MsetDone, listener
  <2>2. TypeOK'
    BY <2>1 DEF MsetDone, TypeOK, listener, processor, Entries
  <2>3. CheckpointBehind'
    BY <2>1 DEF MsetDone, CheckpointBehind
  <2> QED BY <2>1, <2>2, <2>3, RestKeeps
<1>3. CASE \E S \in dels : DelDone(S)
  <2> PICK S \in dels : DelDone(S)
    BY <1>3
  <2>1. UNCHANGED <<oplog, cursor, m_buffer, processor, published, excused>>
    BY DEF DelDone, listener
  <2>2. TypeOK'
    BY <2>1 DEF DelDone, TypeOK, listener, processor, Entries
  <2>3. CheckpointBehind'
    BY <2>1 DEF DelDone, CheckpointBehind
  <2> QED BY <2>1, <2>2, <2>3, RestKeeps
<1> QED BY <1>1, <1>2, <1>3

(* The batch begins: the buffer is now the batch, and the inserted entries *)
(* are the ones whose entities are known.                                  *)
LEMMA TakeKeeps == ASSUME ServerInv, TakeBatch PROVE ServerInv'
<1> USE DEF ServerInv
<1>1. /\ m_oplogs = <<>> /\ m_oplogs' = m_buffer /\ m_buffer' = <<>>
      /\ m_block' = TRUE
      /\ UNCHANGED <<oplog, redis, tsSets, cursor, inserted, published, crashes, excused>>
  BY DEF TakeBatch, StartBatch, BatchProgress
<1>2. ASSUME NEW op PROVE Ids(m_buffer, op) \subseteq Triads
  <2>1. \A k \in DOMAIN m_buffer : m_buffer[k] \in Entries
    BY DEF TypeOK
  <2> QED BY <2>1, EntryTyped DEF Ids
<1>3. msets' \subseteq SUBSET Triads /\ dels' \subseteq SUBSET Triads
  BY <1>2 DEF TakeBatch, StartBatch, TypeOK
<1>4. m_entityIds' = {EntityOf[t] : t \in Ids(m_buffer, "i")} /\ m_entityIds' \subseteq Entities
  BY <1>2, EntityOfTyped DEF TakeBatch, StartBatch
<1>5. phase' = IF Unknown(m_buffer) = {} THEN "answered" ELSE "asked"
  BY DEF TakeBatch, StartBatch
<1>6. TypeOK'
  <2>1. m_buffer' \in Seq(Entries) /\ m_oplogs' \in Seq(Entries)
    BY <1>1 DEF TypeOK
  <2>2. Entries' = Entries
    BY <1>1 DEF Entries
  <2> QED BY <1>1, <1>3, <1>4, <1>5, <2>1, <2>2 DEF TypeOK, redis, Phases
<1>7. HeldInOrder' /\ CheckpointBehind'
  <2>1. Len(m_buffer) \in Nat /\ cursor \in Nat /\ Len(<<>>) = 0
    BY DEF TypeOK
  <2>2. HeldInOrder'
    BY <1>1, <2>1 DEF HeldInOrder, Behind
  <2> QED BY <1>1, <2>2 DEF CheckpointBehind, redis
<1>8. BatchProgress'
  <2>1. InBatch' = {m_buffer[i] : i \in 1..Len(m_buffer)}
    BY <1>1 DEF InBatch
  <2>2. ASSUME NEW k \in InBatch', oplog[k].op = "i"
        PROVE  (EntityOfEntry(k))' \in m_entityIds'
    <3>1. PICK i \in DOMAIN m_buffer : m_buffer[i] = k
      BY <2>1 DEF TypeOK
    <3>2. oplog[k]._id \in Ids(m_buffer, "i")
      BY <2>2, <3>1 DEF Ids
    <3> QED BY <3>2, <1>1, <1>4 DEF EntityOfEntry
  <2>3. ASSUME Unknown(m_buffer) = {}, NEW k \in InBatch' PROVE oplog[k].op = "i"
    <3>1. m_buffer \in Seq(Nat)
      BY DEF TypeOK, Entries
    <3> QED BY <2>1, <2>3, <3>1, ToSetIs DEF Unknown
  <2> QED BY <1>1, <1>5, <2>2, <2>3 DEF BatchProgress
<1>9. InMemory' = InMemory
  <2>1. ToSet(<<>>) = {}
    BY DEF ToSet
  <2> QED BY <1>1, <2>1 DEF InMemory
<1>10. ChangesPublished'
  BY <1>1, <1>9 DEF ChangesPublished, Published
<1> QED BY <1>6, <1>7, <1>8, <1>10

(* What every step of the batch after its beginning leaves alone.          *)
LEMMA BatchStepKeeps ==
  ASSUME ServerInv,
         UNCHANGED <<oplog, redis, requests, listener, m_block, m_oplogs>>
  PROVE  /\ HeldInOrder' /\ CheckpointBehind' /\ InMemory' = InMemory
         /\ InBatch' = InBatch
         /\ \A k : (EntityOfEntry(k))' = EntityOfEntry(k)
         /\ Entries' = Entries
BY DEF ServerInv, HeldInOrder, Behind, CheckpointBehind, redis, requests, listener, InMemory,
       InBatch, EntityOfEntry, Entries

(* The batch as a set of entries.                                         *)
LEMMA InBatchTyped == ASSUME ServerInv PROVE InBatch = ToSet(m_oplogs) /\ InBatch \subseteq Entries
<1>1. m_oplogs \in Seq(Nat)
  BY DEF ServerInv, TypeOK, Entries
<1> QED BY <1>1, ToSetIs DEF ServerInv, TypeOK, InBatch

(* Of the entries looked up, an entity was found or the miss is recorded.  *)
LEMMA AnswerKeeps == ASSUME ServerInv, Answer PROVE ServerInv'
<1> USE DEF ServerInv
<1>1. /\ phase = "asked"
      /\ UNCHANGED <<oplog, redis, requests, listener, m_block, m_oplogs, published>>
  BY DEF Answer, MgetAnswered, MgetError, MgetFailed
<1>2. Unknown(m_oplogs) \subseteq Entries
  BY InBatchTyped DEF Unknown
<1>3. \A k \in InBatch : k \in Unknown(m_oplogs) \/ EntityOfEntry(k) \in m_entityIds
  BY <1>1, InBatchTyped DEF BatchProgress, Unknown
<1>4. /\ m_entityIds \subseteq m_entityIds' /\ m_entityIds' \subseteq Entities
      /\ excused \subseteq excused' /\ excused' \subseteq Entries
      /\ phase' \in {"answered", "stuck"}
      /\ phase' = "answered" =>
           \A k \in Unknown(m_oplogs) : EntityOfEntry(k) \in m_entityIds' \/ k \in excused'
  <2>1. CASE MgetAnswered
    <3>1. \A k \in Found : EntityOfEntry(k) \in m_entityIds' /\ EntityOfEntry(k) \in Entities
      BY <2>1, <1>2, EntityOfTyped DEF MgetAnswered, Found, EntityOfEntry, TypeOK, Entries
    <3>2. m_entityIds' \subseteq Entities
      BY <2>1, <3>1 DEF MgetAnswered, TypeOK, EntityOfEntry
    <3> QED BY <2>1, <3>1, <3>2, <1>2 DEF MgetAnswered, TypeOK
  <2>2. CASE MgetError
    BY <2>2, <1>2 DEF MgetError, TypeOK
  <2>3. CASE MgetFailed
    BY <2>3 DEF MgetFailed, TypeOK
  <2> QED BY <2>1, <2>2, <2>3 DEF Answer
<1>5. /\ HeldInOrder' /\ CheckpointBehind' /\ InMemory' = InMemory /\ InBatch' = InBatch
      /\ \A k : (EntityOfEntry(k))' = EntityOfEntry(k)
      /\ Entries' = Entries
  BY <1>1, BatchStepKeeps
<1>6. TypeOK'
  BY <1>1, <1>4, <1>5 DEF TypeOK, redis, requests, listener, Phases
<1>7. BatchProgress'
  BY <1>1, <1>3, <1>4, <1>5 DEF BatchProgress
<1>8. ChangesPublished'
  BY <1>1, <1>4, <1>5 DEF ChangesPublished, Published, listener
<1> QED BY <1>5, <1>6, <1>7, <1>8

(* Every entity of the batch gets its message or is known to have lost it. *)
LEMMA SendKeeps == ASSUME ServerInv, SendMessages PROVE ServerInv'
<1> USE DEF ServerInv
<1>1. /\ phase = "answered" /\ phase' = "sent"
      /\ UNCHANGED <<oplog, redis, requests, listener, m_block, m_oplogs, m_entityIds>>
  BY DEF SendMessages
<1>2. PICK sent \in SUBSET m_entityIds :
        /\ published' = [e \in Entities |-> IF e \in sent THEN Len(oplog) ELSE published[e]]
        /\ excused' = excused \cup {k \in ToSet(m_oplogs) :
                                    EntityOf[oplog[k]._id] \in m_entityIds \ sent}
  BY DEF SendMessages
<1>3. /\ HeldInOrder' /\ CheckpointBehind' /\ InMemory' = InMemory /\ InBatch' = InBatch
      /\ \A k : (EntityOfEntry(k))' = EntityOfEntry(k)
      /\ Entries' = Entries
  BY <1>1, BatchStepKeeps
<1>4. published' \in [Entities -> Nat] /\ excused' \subseteq Entries /\ excused \subseteq excused'
  BY <1>2, InBatchTyped DEF TypeOK
<1>5. \A k \in Entries : EntityOfEntry(k) \in Entities
  BY EntryTyped
<1>6. ASSUME NEW k \in Entries, Published(k) PROVE (Published(k))'
  BY <1>1, <1>2, <1>5, <1>6 DEF Published, EntityOfEntry, Entries, TypeOK
<1>7. ASSUME NEW k \in InBatch PROVE k \in excused' \/ (Published(k))'
  <2>1. k \in Entries /\ k \in ToSet(m_oplogs)
    BY InBatchTyped
  <2>2. CASE k \in excused
    BY <2>2, <1>4
  <2>3. CASE EntityOfEntry(k) \in m_entityIds
    BY <1>1, <1>2, <1>5, <2>1, <2>3 DEF Published, EntityOfEntry, Entries, TypeOK
  <2> QED BY <1>1, <2>2, <2>3 DEF BatchProgress
<1>8. TypeOK'
  BY <1>1, <1>3, <1>4 DEF TypeOK, redis, requests, listener, Phases
<1>9. BatchProgress'
  BY <1>1, <1>3, <1>7 DEF BatchProgress
<1>10. ChangesPublished'
  <2>1. 1..cursor \subseteq Entries
    BY DEF TypeOK, Entries
  <2> QED BY <1>1, <1>3, <1>4, <1>6, <2>1 DEF ChangesPublished, listener
<1> QED BY <1>3, <1>8, <1>9, <1>10

(* The batch is dropped once each of its entries is accounted for.         *)
LEMMA EraseKeeps == ASSUME ServerInv, EraseStatus PROVE ServerInv'
<1> USE DEF ServerInv
<1>1. /\ phase = "sent" /\ phase' = "free" /\ m_oplogs' = <<>> /\ m_entityIds' = {}
      /\ m_block' = FALSE
      /\ UNCHANGED <<oplog, redis, requests, listener, published, crashes, excused>>
  BY DEF EraseStatus
<1>2. TypeOK'
  <2>1. m_oplogs' \in Seq(Entries') /\ Entries' = Entries
    BY <1>1 DEF Entries
  <2> QED BY <1>1, <2>1 DEF TypeOK, redis, requests, listener, Phases
<1>3. HeldInOrder' /\ CheckpointBehind' /\ BatchProgress'
  <2>1. Len(m_oplogs) \in Nat /\ Len(m_buffer) \in Nat /\ cursor \in Nat /\ Len(<<>>) = 0
    BY DEF TypeOK
  <2>2. HeldInOrder'
    BY <1>1, <2>1 DEF HeldInOrder, Behind, listener
  <2> QED BY <1>1, <2>2 DEF CheckpointBehind, BatchProgress, redis, requests, listener
<1>4. InMemory \subseteq InMemory' \cup InBatch
  BY <1>1, InBatchTyped DEF InMemory, listener
<1>5. ChangesPublished'
  BY <1>1, <1>4 DEF ChangesPublished, BatchProgress, Published, listener
<1> QED BY <1>2, <1>3, <1>5

(* A crash loses memory; what the checkpoint has not passed is read again. *)
LEMMA CrashKeeps == ASSUME ServerInv, Crash PROVE ServerInv'
<1> USE DEF ServerInv
<1>1. /\ cursor' = m_ts /\ inserted' = 0 /\ m_buffer' = <<>> /\ tsSets' = {}
      /\ msets' = {} /\ dels' = {}
      /\ m_block' = FALSE /\ m_oplogs' = <<>> /\ m_entityIds' = {} /\ phase' = "free"
      /\ excused' = excused \cup {k \in InMemory : k <= m_ts}
      /\ UNCHANGED <<oplog, redis, published>>
  BY DEF Crash
<1>2. m_ts \in 0..cursor /\ cursor \in 0..Len(oplog)
  BY DEF CheckpointBehind, TypeOK
<1>3. InMemory \subseteq Entries
  <2>1. {m_buffer[i] : i \in 1..Len(m_buffer)} \subseteq Entries
    BY DEF TypeOK
  <2> QED BY <2>1, MemoryIs, InBatchTyped
<1>4. inserted' \in 0..CheckpointEvery - 1
  BY <1>1, SizesPositive
<1>5. TypeOK'
  <2>1. m_oplogs' \in Seq(Entries') /\ m_buffer' \in Seq(Entries') /\ Entries' = Entries
    BY <1>1 DEF Entries
  <2>2. excused' \subseteq Entries
    BY <1>1, <1>3 DEF TypeOK
  <2>3. cursor' \in 0..Len(oplog') /\ m_ts' \in Nat
    BY <1>1, <1>2 DEF redis
  <2>4. triadMap' \subseteq Triads /\ published' \in [Entities -> Nat]
    BY <1>1 DEF TypeOK, redis
  <2>5. oplog' \in Seq([op : {"i", "u", "d"}, _id : Triads])
    BY <1>1 DEF TypeOK
  <2> QED BY <1>1, <1>4, <2>1, <2>2, <2>3, <2>4, <2>5 DEF TypeOK, Phases
<1>6. HeldInOrder' /\ CheckpointBehind' /\ BatchProgress'
  BY <1>1, <1>2 DEF HeldInOrder, Behind, CheckpointBehind, BatchProgress, redis
<1>7. ChangesPublished'
  <2> SUFFICES ASSUME NEW k \in 1..m_ts PROVE k \in excused' \/ (Published(k))'
    BY <1>1 DEF ChangesPublished
  <2>1. k \in 1..cursor /\ k <= m_ts
    BY <1>2
  <2> QED BY <1>1, <2>1 DEF ChangesPublished, Published
<1> QED BY <1>5, <1>6, <1>7

-----------------------------------------------------------------------------
(* Every step keeps the invariant.                                         *)
LEMMA NextKeeps == ServerInv /\ [Next]_vars => ServerInv'
<1> SUFFICES ASSUME ServerInv, [Next]_vars PROVE ServerInv'
  OBVIOUS
<1>1. CASE \E t \in Triads, op \in {"i", "u", "d"} : Write(t, op)
  BY <1>1, WriteKeeps
<1>2. CASE Listen
  BY <1>2, ListenKeeps
<1>3. CASE \/ \E ts \in tsSets : SaveTs(ts)
           \/ \E S \in msets : MsetDone(S)
           \/ \E S \in dels : DelDone(S)
  BY <1>3, RedisKeeps
<1>4. CASE Process
  BY <1>4, TakeKeeps, SendKeeps, EraseKeeps DEF Process
<1>5. CASE Answer
  BY <1>5, AnswerKeeps
<1>6. CASE Crash
  BY <1>6, CrashKeeps
<1>7. CASE UNCHANGED vars
  <2>1. UNCHANGED <<oplog, cursor, m_buffer, processor, published, excused>>
    BY <1>7 DEF vars, listener
  <2>2. TypeOK'
    BY <1>7 DEF ServerInv, TypeOK, vars, redis, requests, listener, processor, Entries
  <2>3. CheckpointBehind'
    BY <1>7 DEF ServerInv, CheckpointBehind, vars, redis, requests, listener
  <2> QED BY <2>1, <2>2, <2>3, RestKeeps DEF ServerInv
<1> QED BY <1>1, <1>2, <1>3, <1>4, <1>5, <1>6, <1>7 DEF Next

(* The inductive invariant holds of every behaviour, of FairSpec's too.    *)
THEOREM ServerInvariant == Spec => []ServerInv
BY InitServer, NextKeeps, PTL DEF Spec

(* The listener, the buffer and the batch keep their types.                *)
THEOREM ServerTyped == Spec => []TypeOK
<1>1. ServerInv => TypeOK
  BY DEF ServerInv
<1> QED BY <1>1, ServerInvariant, PTL

(* m_block and the phases of a batch hand entries over without overlap or  *)
(* gap: what the listener has read last is in the batch or the buffer.     *)
LEMMA HeldOnce == ServerInv => EachEntryOnce
<1> SUFFICES ASSUME ServerInv PROVE EachEntryOnce
  OBVIOUS
<1> DEFINE held == m_oplogs \o m_buffer
<1>1. m_oplogs \in Seq(Nat) /\ m_buffer \in Seq(Nat) /\ cursor \in Nat
  BY DEF ServerInv, TypeOK, Entries
<1>2. /\ Len(held) = Len(m_oplogs) + Len(m_buffer) /\ DOMAIN held = 1..Len(held)
      /\ \A i \in 1..Len(held) : held[i] = IF i <= Len(m_oplogs) THEN m_oplogs[i]
                                            ELSE m_buffer[i - Len(m_oplogs)]
  BY <1>1
<1>3. ASSUME NEW i \in 1..Len(held) PROVE held[i] = cursor - Len(held) + i
  <2>1. Len(m_oplogs) \in Nat /\ Len(m_buffer) \in Nat
    BY <1>1
  <2>2. CASE i <= Len(m_oplogs)
    <3>1. i \in 1..Len(m_oplogs)
      BY <1>2, <2>1, <2>2
    <3> QED BY <1>1, <1>2, <2>1, <2>2, <3>1 DEF ServerInv, HeldInOrder, Behind
  <2>3. CASE ~(i <= Len(m_oplogs))
    <3>1. i - Len(m_oplogs) \in 1..Len(m_buffer)
      BY <1>2, <2>1, <2>3
    <3>2. m_buffer[i - Len(m_oplogs)] = Behind + (i - Len(m_oplogs))
      BY <3>1 DEF ServerInv, HeldInOrder
    <3> QED BY <1>1, <1>2, <2>1, <2>3, <3>1, <3>2 DEF Behind
  <2> QED BY <2>2, <2>3
<1> QED BY <1>2, <1>3 DEF EachEntryOnce

(* Each entry read and not dealt with is held once, in any behaviour.      *)
THEOREM ServerHoldsOnce == Spec => []EachEntryOnce
BY ServerInvariant, HeldOnce, PTL

(* Every change the server has dealt with was followed by a message about  *)
(* its entity, but for misses, refusals and what a crash caught behind the *)
(* checkpoint.                                                             *)
THEOREM ServerPublishes == Spec => []ChangesPublished
<1>1. ServerInv => ChangesPublished
  BY DEF ServerInv
<1> QED BY <1>1, ServerInvariant, PTL
(* The listener is the reader of LogReader: no checkpoint, lost, delayed   *)
(* or overtaken, is ahead of what was read, and a restart repeats entries. *)
THEOREM ServerRefines == Spec => ReaderImplemented
<1>1. Init => Reader!ReaderInit
  BY DEF Init, Reader!ReaderInit
<1>2. ServerInv /\ [Next]_vars => [Reader!ReaderNext]_(Reader!readerVars)
  <2> SUFFICES ASSUME ServerInv, [Next]_vars
               PROVE  [Reader!ReaderNext]_(Reader!readerVars)
    OBVIOUS
  <2>1. /\ oplog \in Seq([op : {"i", "u", "d"}, _id : Triads])
        /\ cursor \in Nat /\ m_ts \in Nat /\ m_ts <= cursor
        /\ \A ts \in tsSets : ts \in Nat /\ ts <= cursor
    BY DEF ServerInv, TypeOK, CheckpointBehind
  <2> USE DEF Reader!ReaderNext, redis, listener
  <2>2. ASSUME NEW t \in Triads, NEW op \in {"i", "u", "d"}, Write(t, op) PROVE Reader!Grow
    BY <2>1, <2>2 DEF Write, Reader!Grow
  <2>3. ASSUME Listen PROVE Reader!Read
    BY <2>3 DEF Listen, Reader!Read
  <2>4. ASSUME NEW ts \in tsSets, SaveTs(ts) PROVE Reader!Save
    BY <2>1, <2>4 DEF SaveTs, Reader!Save
  <2>5. ASSUME Crash PROVE Reader!Resume
    BY <2>5 DEF Crash, Reader!Resume
  <2>6. ASSUME UNCHANGED <<oplog, cursor, m_ts>> PROVE UNCHANGED Reader!readerVars
    BY <2>6 DEF Reader!readerVars
  <2>7. CASE \/ \E S \in msets : MsetDone(S)
             \/ \E S \in dels : DelDone(S)
    BY <2>6, <2>7 DEF MsetDone, DelDone
  <2>8. CASE Process
    BY <2>6, <2>8 DEF Process, TakeBatch, StartBatch, SendMessages, EraseStatus
  <2>9. CASE Answer
    BY <2>6, <2>9 DEF Answer, MgetAnswered, MgetError, MgetFailed
  <2>10. CASE UNCHANGED vars
    BY <2>6, <2>10 DEF vars
  <2> QED BY <2>2, <2>3, <2>4, <2>5, <2>7, <2>8, <2>9, <2>10 DEF Next
<1> QED BY <1>1, <1>2, ServerInvariant, PTL DEF Spec, ReaderImplemented, Reader!ReaderSpec
=============================================================================
