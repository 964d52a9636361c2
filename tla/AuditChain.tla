------------------------------ MODULE AuditChain ------------------------------
(***************************************************************************)
(* packages/audit-engine/src: AuditWriter, which numbers audit events,     *)
(* links them by hashes and stores them batch by batch, and the check of   *)
(* the chain that AuditHasher makes.                                       *)
(*                                                                         *)
(* Storage is an AuditStorageAdapter, which may fail, and is all that a    *)
(* restart finds.  A hash is modelled by what is hashed, so that different *)
(* contents have different hashes.  The flush timer and stop are left out: *)
(* they call flush, which finds nothing to do, because append flushes at   *)
(* once and every flush is followed by the next as long as events wait.    *)
(* So are merkle roots and block hashes, which nothing compares.           *)
(***************************************************************************)
EXTENDS Naturals, Sequences

CONSTANTS
    Event,
    BatchSize,
    MaxQueueSize,
    MaxStorageFaults   \* bound: failures of storage and restarts, in all

ASSUME AuditAssumption ==
    /\ BatchSize \in Nat \ {0} /\ MaxQueueSize \in Nat \ {0}
    /\ MaxStorageFaults \in Nat

VARIABLES
    waiting,           \* queue
    batch,             \* the records of the flush under way; none if not isFlushing
    storing,           \* what storage has been asked for: records or block
    currentSequence,
    lastHash,
    currentBlockNumber,
    records, blocks,   \* in storage
    boot,              \* how far initialize is
    answer,            \* what became of the promise of each event's append
    numbered,          \* history: all pairs of a number and its event
    early,             \* history: a flush came before initialize was over
    mishaps            \* failures of storage and restarts so far

counters == <<currentSequence, lastHash, currentBlockNumber>>
auditVars == <<waiting, batch, storing, counters, records, blocks, boot, answer, numbered,
               early, mishaps>>

GenesisHash == <<>>
ChainHash(prev, n, e) == Append(prev, <<n, e>>)
HashOf(r) == ChainHash(r.prevHash, r.sequence, r.event)

isFlushing == batch # <<>>
Events(rs) == {rs[i].event : i \in DOMAIN rs}

-----------------------------------------------------------------------------
AuditInit ==
    /\ waiting = <<>>
    /\ batch = <<>>
    /\ storing = "nothing"
    /\ currentSequence = 0 /\ lastHash = GenesisHash /\ currentBlockNumber = 0
    /\ records = <<>> /\ blocks = <<>>
    /\ boot = "cold"
    /\ answer = [e \in Event |-> "unasked"]
    /\ numbered = {}
    /\ early = FALSE
    /\ mishaps = 0

Smaller(a, b) == IF a < b THEN a ELSE b

\* The records of the events es, numbered and linked after the last hash: each
\* hash is what was hashed before with one number and event more.
Chained(es) ==
    LET Hash(i) == lastHash \o [j \in 1..i |-> <<currentSequence + j, es[j]>>]
    IN  [i \in 1..Len(es) |-> [sequence |-> currentSequence + i,
                               prevHash |-> Hash(i - 1),
                               event |-> es[i]]]

\* flush of the queue q while no other is under way: one batch is numbered, the
\* counters go on, and storage is asked for its records.
Flush(q) ==
    LET n == Smaller(BatchSize, Len(q))
        rs == Chained(SubSeq(q, 1, n))
    IN  IF q = <<>>
        THEN /\ waiting' = q /\ batch' = <<>> /\ storing' = "nothing"
             /\ UNCHANGED <<counters, numbered, early>>
        ELSE /\ waiting' = SubSeq(q, n + 1, Len(q))
             /\ batch' = rs
             /\ storing' = "records"
             /\ currentSequence' = currentSequence + n
             /\ lastHash' = HashOf(rs[n])
             /\ currentBlockNumber' = currentBlockNumber + 1
             /\ numbered' = numbered \cup {<<rs[i].sequence, rs[i].event>> : i \in 1..n}
             /\ early' = (early \/ boot # "ready")

\* append: it throws when the queue is full.
AppendEvent(e) ==
    /\ answer[e] = "unasked" /\ e = CHOOSE x \in Event : answer[x] = "unasked"
    /\ IF Len(waiting) >= MaxQueueSize
       THEN /\ answer' = [answer EXCEPT ![e] = "refused"]
            /\ UNCHANGED <<waiting, batch, storing, counters, numbered, early>>
       ELSE /\ answer' = [answer EXCEPT ![e] = "pending"]
            /\ IF isFlushing
               THEN /\ waiting' = Append(waiting, e)
                    /\ UNCHANGED <<batch, storing, counters, numbered, early>>
               ELSE Flush(Append(waiting, e))
    /\ UNCHANGED <<records, blocks, boot, mishaps>>

-----------------------------------------------------------------------------
RecordsStored ==
    /\ storing = "records"
    /\ records' = records \o batch
    /\ storing' = "block"
    /\ UNCHANGED <<waiting, batch, counters, blocks, boot, answer, numbered, early,
                   mishaps>>

\* The last lines of flush: its events are answered, and the next flush begins.
FlushEnds(how) ==
    /\ answer' = [e \in Event |-> IF e \in Events(batch) THEN how ELSE answer[e]]
    /\ Flush(waiting)

Block == [number |-> currentBlockNumber,
          first |-> batch[1].sequence, last |-> batch[Len(batch)].sequence]

BlockStored ==
    /\ storing = "block"
    /\ blocks' = Append(blocks, Block)
    /\ FlushEnds("resolved")
    /\ UNCHANGED <<records, boot, mishaps>>

Mishap == mishaps < MaxStorageFaults /\ mishaps' = mishaps + 1

\* Storage may have kept a part of what it was asked for, or all, although its
\* answer is an error or never comes.
Kept ==
    \/ /\ storing = "records"
       /\ \E n \in 0..Len(batch) : records' = records \o SubSeq(batch, 1, n)
       /\ UNCHANGED blocks
    \/ /\ storing = "block"
       /\ blocks' \in {blocks, Append(blocks, Block)}
       /\ UNCHANGED records
    \/ storing = "nothing" /\ UNCHANGED <<records, blocks>>

\* Faulty variant of StorageFails: isFlushing is reset only when all went well.
StorageFailsFlushing ==
    /\ isFlushing
    /\ Mishap
    /\ Kept
    /\ answer' = [e \in Event |-> IF e \in Events(batch) THEN "rejected" ELSE answer[e]]
    /\ storing' = "nothing"
    /\ UNCHANGED <<waiting, batch, counters, numbered, early, boot>>

\* The error rejects the whole batch.  The counters stay where they are.
StorageFails ==
    /\ isFlushing
    /\ Mishap
    /\ Kept
    /\ FlushEnds("rejected")
    /\ UNCHANGED boot

\* The process ends and starts again, with a new AuditWriter.
RestartAudit ==
    /\ Mishap
    /\ Kept
    /\ waiting' = <<>> /\ batch' = <<>> /\ storing' = "nothing"
    /\ currentSequence' = 0 /\ lastHash' = GenesisHash /\ currentBlockNumber' = 0
    /\ boot' = "cold"
    /\ answer' = [e \in Event |-> IF answer[e] = "pending" THEN "lost" ELSE answer[e]]
    /\ UNCHANGED <<numbered, early>>

-----------------------------------------------------------------------------
\* Faulty variant of InitializeRecord: records are counted.
InitializeCount ==
    /\ boot = "cold"
    /\ boot' = "record"
    /\ currentSequence' = Len(records)
    /\ lastHash' = IF records # <<>> THEN HashOf(records[Len(records)]) ELSE lastHash
    /\ UNCHANGED <<waiting, batch, storing, currentBlockNumber, records, blocks, answer,
                   numbered, early, mishaps>>

\* initialize, until its second await and to its end.
InitializeRecord ==
    /\ boot = "cold"
    /\ boot' = "record"
    /\ IF records # <<>>
       THEN /\ currentSequence' = records[Len(records)].sequence
            /\ lastHash' = HashOf(records[Len(records)])
       ELSE UNCHANGED <<currentSequence, lastHash>>
    /\ UNCHANGED <<waiting, batch, storing, currentBlockNumber, records, blocks, answer,
                   numbered, early, mishaps>>

InitializeBlock ==
    /\ boot = "record"
    /\ boot' = "ready"
    /\ currentBlockNumber' = IF blocks # <<>> THEN blocks[Len(blocks)].number
                                              ELSE currentBlockNumber
    /\ UNCHANGED <<waiting, batch, storing, currentSequence, lastHash, records, blocks,
                   answer, numbered, early, mishaps>>

AuditStep ==
    \/ RecordsStored \/ BlockStored \/ StorageFails
    \/ InitializeRecord \/ InitializeBlock

AuditNext ==
    \/ \E e \in Event : AppendEvent(e)
    \/ AuditStep
    \/ RestartAudit

\* Storage answers, in the end.
AuditSpec == AuditInit /\ [][AuditNext]_auditVars /\ WF_auditVars(AuditStep)

-----------------------------------------------------------------------------
Answers == {"unasked", "pending", "resolved", "rejected", "refused", "lost"}
Record == [sequence : Nat \ {0}, prevHash : Seq(Nat \X Event), event : Event]

\* Type correctness of the writer and of storage.
AuditTypeOK ==
    /\ waiting \in Seq(Event)
    /\ batch \in Seq(Record)
    /\ storing \in {"nothing", "records", "block"}
    /\ currentSequence \in Nat /\ currentBlockNumber \in Nat
    /\ lastHash \in Seq(Nat \X Event)
    /\ records \in Seq(Record)
    /\ blocks \in Seq([number : Nat, first : Nat, last : Nat])
    /\ boot \in {"cold", "record", "ready"}
    /\ answer \in [Event -> Answers]
    /\ numbered \in SUBSET (Nat \X Event)
    /\ early \in BOOLEAN
    /\ mishaps \in 0..MaxStorageFaults

\* Where verifyChainIntegrity finds the stored chain broken.
Broken ==
    {i \in 2..Len(records) : \/ records[i].sequence # records[i - 1].sequence + 1
                             \/ records[i].prevHash # HashOf(records[i - 1])}

\* If nothing is flushed before initialize is over, failures and restarts break
\* the stored chain only behind a number that was given to an append that was
\* rejected; no number is stored twice; and an append that was resolved is in
\* storage and in a block there.
ChainExplained ==
    ~early =>
        /\ \A i \in Broken : \E e \in Event :
              <<records[i].sequence - 1, e>> \in numbered /\ answer[e] = "rejected"
        /\ \A i \in 2..Len(records) : records[i - 1].sequence < records[i].sequence
        /\ \A e \in Event : answer[e] = "resolved" =>
              \E i \in DOMAIN records, k \in DOMAIN blocks :
                  /\ records[i].event = e
                  /\ records[i].sequence \in blocks[k].first..blocks[k].last

\* Every append is answered, unless the process ends: no failure of storage
\* leaves the events that wait behind it.
EveryAppendAnswered == \A e \in Event : answer[e] = "pending" ~> answer[e] # "pending"
=============================================================================
