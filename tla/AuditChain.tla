----------------------------- MODULE AuditChain -----------------------------
(***************************************************************************)
(* The hash-chained audit trail of fraud-service                           *)
(* (app/services/blockchain_audit.py): request threads append blocks to a  *)
(* chain in memory under a lock, a daemon thread takes them from a queue   *)
(* and appends one line per block to a JSONL file, and a new process       *)
(* rebuilds the chain from that file, refusing to start when it does not   *)
(* verify.                                                                 *)
(*                                                                         *)
(* A SHA-256 digest is a number never used before (a block's timestamp has *)
(* microseconds and its digest covers prev_hash, so no two blocks share    *)
(* one); "intact" says that the block's stored digests equal the           *)
(* recomputed ones.  The file is what a loader can see of it: the blocks   *)
(* on its parsable lines, in order, how it ends, and whether it also holds *)
(* complete lines that do not parse.                                       *)
(*                                                                         *)
(* Definitions named Mut_... are slips a programmer could make in the      *)
(* definition that follows; no specification uses them.  Model checking    *)
(* with one in that definition's place must violate a property.            *)
(***************************************************************************)
EXTENDS Naturals, Sequences

CONSTANTS MaxBlocks,     \* bound: digests handed out in a behaviour
          LegacyLength,  \* blocks in a legacy .json file; 0: there is never one
          Async,         \* async_persist: queue and writer thread, or direct writes
          Faults         \* the faults of the environment that may happen

ASSUME ChainConstants ==
    /\ MaxBlocks \in Nat /\ LegacyLength \in Nat
    /\ Async \in BOOLEAN
    /\ Faults \subseteq {"write", "power", "migrate", "damage"}

VARIABLES
    phase,    \* of the process: "down", "up", or "refused": its last start raised
    chain,    \* _chain
    queue,    \* _write_queue up to the shutdown sentinel
    stop,     \* the sentinel: "no", "queued" behind queue, or "taken" by the writer
    stray,    \* blocks put into _write_queue behind the sentinel
    holding,  \* the block the writer has taken and not yet written: <<>> or <<blk>>
    file,     \* the JSONL file
    legacy,   \* whether there is a legacy .json file
    minted,   \* digests handed out so far
    hist,     \* history: every block ever created
    lossy     \* history: some write, start or line was spoiled by the environment

memory == <<chain, queue, stop, stray, holding>>
auditVars == <<phase, memory, file, minted, hist, legacy, lossy>>

Block == [index : Nat, hash : Nat, prev : Nat, intact : BOOLEAN]
File  == {f \in [blocks : Seq(Block), end : {"newline", "fragment", "line"},
                 junk : BOOLEAN] : f.end = "line" => f.blocks # <<>>}

Last(s)  == s[Len(s)]
Front(s) == SubSeq(s, 1, Len(s) - 1)
Extends(t, s) == Len(s) <= Len(t) /\ SubSeq(t, 1, Len(s)) = s

\* compute_hash covers index and prev_hash, and the digest is new.
NewBlock(index, prev, digest) ==
    [index |-> index, hash |-> digest, prev |-> prev, intact |-> TRUE]

\* _GENESIS_PREV is no block's digest; the genesis block is always the same.
Genesis == NewBlock(0, 0, 1)
Legacy  == [i \in 1..LegacyLength |-> NewBlock(i - 1, i - 1, i)]

EmptyFile == [blocks |-> <<>>, end |-> "newline", junk |-> FALSE]

Mut_VerifiesDigestsOnly(c) == c # <<>> /\ \A i \in 1..Len(c) : c[i].intact

\* _verify_unlocked: digests, links, and a chain that is not empty.
Verifies(c) ==
    /\ c # <<>>
    /\ \A i \in 1..Len(c) : c[i].intact
    /\ \A i \in 2..Len(c) : c[i].prev = c[i - 1].hash
-----------------------------------------------------------------------------
(***************************************************************************)
(* One append of a line.  Text that follows an unterminated tail joins it  *)
(* on one line, which then does not parse.                                 *)
(***************************************************************************)
Mut_NoLineFeed(f, blk) ==
    IF f.end = "newline" THEN [f EXCEPT !.blocks = Append(@, blk), !.end = "line"]
    ELSE [blocks |-> IF f.end = "line" THEN Front(f.blocks) ELSE f.blocks,
          end |-> "newline", junk |-> TRUE]
Written(f, blk) ==
    IF f.end = "newline" THEN [f EXCEPT !.blocks = Append(@, blk)]
    ELSE [blocks |-> IF f.end = "line" THEN Front(f.blocks) ELSE f.blocks,
          end |-> "newline", junk |-> TRUE]

\* A write that raised (a full disk): nothing, part of the line, or all of it
\* but the line feed reached the file.
Torn(f, blk) ==
    {f} \cup
    IF f.end = "newline" THEN {[f EXCEPT !.end = "fragment"],
                               [f EXCEPT !.blocks = Append(@, blk), !.end = "line"]}
    ELSE IF f.end = "line" THEN {[f EXCEPT !.blocks = Front(@), !.end = "fragment"]}
    ELSE {}

\* A leading part of the file's bytes.
CutShort(f) ==
    {[blocks |-> SubSeq(f.blocks, 1, n), end |-> e, junk |-> j] :
        n \in 0..Len(f.blocks), e \in {"newline", "fragment", "line"},
        j \in {FALSE, f.junk}} \cap File

\* st_size > 0 is the negation.
FileEmpty == file = EmptyFile
-----------------------------------------------------------------------------
AuditInit ==
    /\ phase = "down"
    /\ chain = <<>> /\ queue = <<>> /\ stop = "no" /\ stray = <<>> /\ holding = <<>>
    /\ file = EmptyFile
    /\ legacy \in {there \in BOOLEAN : there => LegacyLength > 0}
    /\ minted = IF legacy THEN LegacyLength ELSE 1
    /\ hist = {Genesis} \cup IF legacy THEN {Legacy[i] : i \in 1..LegacyLength} ELSE {}
    /\ lossy = FALSE

\* __init__ with an empty queue and a new writer thread.
Serve(blocks) ==
    /\ phase' = "up"
    /\ chain' = blocks
    /\ UNCHANGED <<queue, stop, stray, holding, minted, hist, legacy, lossy>>

\* The constructor raises, at the import of the module: there is no service.
Refuse ==
    /\ phase' = "refused"
    /\ UNCHANGED <<memory, minted, hist, legacy>>

StartLoad ==
    /\ phase # "up" /\ ~FileEmpty
    /\ Verifies(file.blocks)
    /\ Serve(file.blocks)
    /\ UNCHANGED file

StartRefuse ==
    /\ phase # "up" /\ ~FileEmpty
    /\ ~Verifies(file.blocks)
    /\ Refuse
    /\ UNCHANGED <<file, lossy>>

StartFresh ==
    /\ phase # "up" /\ FileEmpty /\ ~legacy
    /\ file' = Written(file, Genesis)
    /\ Serve(<<Genesis>>)

StartFreshFail ==
    /\ "write" \in Faults
    /\ phase # "up" /\ FileEmpty /\ ~legacy
    /\ file' \in Torn(file, Genesis)
    /\ lossy' = TRUE
    /\ Refuse

\* _migrate_json_to_jsonl copies the legacy file and does not verify it.
StartMigrate ==
    /\ phase # "up" /\ FileEmpty /\ legacy
    /\ file' = [EmptyFile EXCEPT !.blocks = Legacy]
    /\ Serve(Legacy)

\* Its exception leaves behind what had been written.
StartMigrateFail ==
    /\ "migrate" \in Faults
    /\ phase # "up" /\ FileEmpty /\ legacy
    /\ file' \in CutShort([EmptyFile EXCEPT !.blocks = Legacy])
    /\ lossy' = TRUE
    /\ Refuse
-----------------------------------------------------------------------------
\* append, all of it under _lock, and _enqueue_persist at its end.
Enqueue(blk) ==
    /\ \/ stop = "no" /\ queue' = Append(queue, blk) /\ UNCHANGED stray
       \/ stop # "no" /\ stray' = Append(stray, blk) /\ UNCHANGED queue
    /\ UNCHANGED <<file, lossy>>

WriteThrough(blk) ==
    /\ \/ file' = Written(file, blk) /\ UNCHANGED lossy
       \/ /\ "write" \in Faults
          /\ file' \in Torn(file, blk) /\ lossy' = TRUE
    /\ UNCHANGED <<queue, stray>>

AppendBlock ==
    /\ phase = "up" /\ minted < MaxBlocks
    /\ LET blk == NewBlock(Last(chain).index + 1, Last(chain).hash, minted + 1)
       IN  /\ chain' = Append(chain, blk)
           /\ hist' = hist \cup {blk}
           /\ \/ Async /\ Enqueue(blk)
              \/ ~Async /\ WriteThrough(blk)
    /\ minted' = minted + 1
    /\ UNCHANGED <<phase, stop, holding, legacy>>

\* shutdown puts the sentinel, then waits for the writer for at most 5 seconds.
Shutdown ==
    /\ phase = "up" /\ Async /\ stop = "no"
    /\ stop' = "queued"
    /\ UNCHANGED <<phase, chain, queue, stray, holding, file, minted, hist, legacy, lossy>>
-----------------------------------------------------------------------------
\* The steps of _writer_loop.
Mut_NewestFirst ==
    /\ phase = "up" /\ Async /\ stop # "taken" /\ holding = <<>> /\ queue # <<>>
    /\ holding' = <<Last(queue)>>
    /\ queue' = Front(queue)
    /\ UNCHANGED <<phase, chain, stop, stray, file, minted, hist, legacy, lossy>>

WriterTake ==
    /\ phase = "up" /\ Async /\ stop # "taken" /\ holding = <<>> /\ queue # <<>>
    /\ holding' = <<Head(queue)>>
    /\ queue' = Tail(queue)
    /\ UNCHANGED <<phase, chain, stop, stray, file, minted, hist, legacy, lossy>>

Mut_Dropped ==
    /\ phase = "up" /\ holding # <<>>
    /\ holding' = <<>>
    /\ UNCHANGED <<phase, chain, queue, stop, stray, file, minted, hist, legacy, lossy>>
Mut_NotReleased ==
    /\ phase = "up" /\ holding # <<>>
    /\ file' = Written(file, holding[1])
    /\ UNCHANGED <<phase, chain, queue, stop, stray, holding, minted, hist, legacy, lossy>>

WriterAppend ==
    /\ phase = "up" /\ holding # <<>>
    /\ file' = Written(file, holding[1])
    /\ holding' = <<>>
    /\ UNCHANGED <<phase, chain, queue, stop, stray, minted, hist, legacy, lossy>>

\* The exception is logged and the block is forgotten.
WriterAppendFail ==
    /\ "write" \in Faults
    /\ phase = "up" /\ holding # <<>>
    /\ file' \in Torn(file, holding[1])
    /\ holding' = <<>>
    /\ lossy' = TRUE
    /\ UNCHANGED <<phase, chain, queue, stop, stray, minted, hist, legacy>>

WriterExit ==
    /\ phase = "up" /\ holding = <<>> /\ queue = <<>> /\ stop = "queued"
    /\ stop' = "taken"
    /\ UNCHANGED <<phase, chain, queue, stray, holding, file, minted, hist, legacy, lossy>>

Writer == WriterTake \/ WriterAppend \/ WriterAppendFail \/ WriterExit
-----------------------------------------------------------------------------
\* The process ends, killed or not: the daemon writer is not waited for.
Forget == /\ phase' = "down"
          /\ chain' = <<>> /\ queue' = <<>> /\ stop' = "no"
          /\ stray' = <<>> /\ holding' = <<>>
          /\ UNCHANGED <<minted, hist, legacy>>

Exit ==
    /\ phase = "up"
    /\ Forget
    /\ UNCHANGED <<file, lossy>>

\* The machine stops: the file was never synced, so any end of it may go.
PowerLoss ==
    /\ "power" \in Faults
    /\ phase = "up"
    /\ Forget
    /\ file' \in CutShort(file)
    /\ lossy' = TRUE

\* Line i of the stopped service's file is spoiled, so that it does not parse,
Damage(i) ==
    /\ "damage" \in Faults
    /\ phase # "up" /\ i \in 1..Len(file.blocks)
    /\ file' = [blocks |-> SubSeq(file.blocks, 1, i - 1)
                           \o SubSeq(file.blocks, i + 1, Len(file.blocks)),
                end |-> IF file.end = "line" /\ i = Len(file.blocks)
                        THEN "fragment" ELSE file.end,
                junk |-> TRUE]
    /\ lossy' = TRUE
    /\ UNCHANGED <<phase, memory, minted, hist, legacy>>

\* or edited, so that it parses and a field no longer matches its digest.
Tamper(i) ==
    /\ "damage" \in Faults
    /\ phase # "up" /\ i \in 1..Len(file.blocks)
    /\ file' = [file EXCEPT !.blocks[i].intact = FALSE]
    /\ lossy' = TRUE
    /\ UNCHANGED <<phase, memory, minted, hist, legacy>>
-----------------------------------------------------------------------------
Start == StartLoad \/ StartRefuse \/ StartFresh \/ StartFreshFail
         \/ StartMigrate \/ StartMigrateFail

AuditNext ==
    \/ Start
    \/ AppendBlock \/ Shutdown
    \/ Writer
    \/ Exit \/ PowerLoss
    \/ \E i \in 1..Len(file.blocks) : Damage(i) \/ Tamper(i)

\* The writer thread runs whenever it can; nothing else is owed.
AuditSpec == AuditInit /\ [][AuditNext]_auditVars /\ WF_auditVars(Writer)
-----------------------------------------------------------------------------
AuditTypeOK ==
    /\ phase \in {"down", "up", "refused"}
    /\ chain \in Seq(Block)
    /\ queue \in Seq(Block) /\ stray \in Seq(Block)
    /\ holding \in Seq(Block) /\ Len(holding) <= 1
    /\ stop \in {"no", "queued", "taken"}
    /\ file \in File
    /\ legacy \in BOOLEAN /\ (legacy => LegacyLength > 0)
    /\ minted \in Nat
    /\ hist \subseteq Block
    /\ lossy \in BOOLEAN

(***************************************************************************)
(* Whatever the disk did to the file, a service that runs serves an        *)
(* unbroken run of blocks that append really created: each one's prev_hash *)
(* is its predecessor's digest, and the indices are consecutive, which     *)
(* _verify_unlocked never checks.                                          *)
(***************************************************************************)
ServesGenuineRun ==
    phase = "up" =>
        /\ chain # <<>>
        /\ \A i \in 1..Len(chain) : chain[i] \in hist
        /\ \A i \in 2..Len(chain) : /\ chain[i].prev = chain[i - 1].hash
                                    /\ chain[i].index = chain[i - 1].index + 1

(***************************************************************************)
(* As long as the environment spoiled nothing, the file followed by what   *)
(* the writer still has to do is exactly the chain: no thread order        *)
(* reorders, repeats or skips a line.                                      *)
(***************************************************************************)
DiskMirrorsChain ==
    phase = "up" /\ ~lossy => chain = file.blocks \o holding \o queue \o stray

(***************************************************************************)
(* get_block, verify_offchain_integrity and verify_range address a block   *)
(* by its place in the list; the caller means its index.  They are the     *)
(* same as long as nothing was spoiled, over every stop and restart.       *)
(***************************************************************************)
PlaceIsIndex ==
    phase = "up" /\ ~lossy => \A i \in 1..Len(chain) : chain[i].index = i - 1

(***************************************************************************)
(* Stopping the process at any moment never makes a later start refuse: it *)
(* takes a write that failed, a power loss or a damaged line.              *)
(***************************************************************************)
RefusesOnlyAfterLoss == phase = "refused" => lossy

(***************************************************************************)
(* A block that append returned, and that was queued ahead of a shutdown,  *)
(* is written unless the process ends first or a write fails.              *)
(***************************************************************************)
Unwritten == {queue[i].hash : i \in 1..Len(queue)}
             \cup {holding[i].hash : i \in 1..Len(holding)}
OnDisk == {file.blocks[i].hash : i \in 1..Len(file.blocks)}
QueuedIsWritten ==
    \A h \in 1..MaxBlocks : h \in Unwritten ~> (h \in OnDisk \/ phase # "up" \/ lossy)

(***************************************************************************)
(* shutdown's promise (its docstring: flush all pending writes and stop):  *)
(* once the writer has taken the sentinel, every block appended before it  *)
(* is in the file, and the writer of a shut down chain does take it.       *)
(***************************************************************************)
ShutdownFlushes ==
    (stop = "queued") ~> (phase # "up" \/ (stop = "taken" /\ Unwritten = {}))

(***************************************************************************)
(* What append has returned is written in the end.                         *)
(***************************************************************************)
WrittenInTheEnd == QueuedIsWritten /\ ShutdownFlushes
-----------------------------------------------------------------------------
(***************************************************************************)
(* Without faults the chain implements AuditLog: the log is the chain, or  *)
(* the file when no process runs, and what is durable is what is written.  *)
(***************************************************************************)
Abstract == INSTANCE AuditLog WITH
                Entries <- Block,
                log     <- IF phase = "up" THEN chain ELSE file.blocks,
                durable <- Len(file.blocks)

(***************************************************************************)
(* As long as the environment spoils nothing, threads, stops and restarts  *)
(* are invisible: the audit trail is a log that grows and forgets only     *)
(* what was not durable when the process ended.                            *)
(***************************************************************************)
RefinesAuditLog ==
    Abstract!LogInit /\ [][~lossy' => Abstract!LogNext]_(Abstract!logVars)
-----------------------------------------------------------------------------
(***************************************************************************)
(* blockchain_audit.py:185 says that persisting is appending, one new line *)
(* for each new block: a write that raises nothing adds its block's line.  *)
(***************************************************************************)
OneLinePerBlock ==
    [][WriterAppend => file'.blocks = file.blocks \o holding]_auditVars
=============================================================================
