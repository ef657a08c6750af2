------------------------------ MODULE DiskCache ------------------------------
(***************************************************************************)
(* The cache files of the backend (disk-cache.ts): the mempool, cut into   *)
(* chunks, with the recent blocks in the first, and the RBF cache.  A save *)
(* is started by a block (blocks.ts) or by new pool definitions at a start *)
(* (pools-parser.ts) and goes on in the background, pausing while the main *)
(* loop (index.ts) is in $updateBlocks(); a signal saves at once and ends  *)
(* the process; a start loads what it finds.                               *)
(***************************************************************************)
EXTENDS Integers, FiniteSets, Sequences

CONSTANTS
  Tx,          \* the transactions
  Call,        \* the calls of $saveCacheToDisk() that can be in flight
  Chunks,      \* CHUNK_FILES
  MaxHeight,   \* bound: blocks a process handles
  MaxFaults    \* bound: crashes, failed file operations, files of another network

ASSUME BoundsAssumption ==
  /\ IsFiniteSet(Tx) /\ Call # {} /\ Chunks \in Nat \ {0} /\ MaxHeight \in Nat /\ MaxFaults \in Nat

VARIABLES
  proc,     \* how far the process is: "down", then "pools", "load" and "set", then "up"
  ignore,   \* ignoreBlocksCache: the process has a database
  pool,     \* memPool.getMempool()
  height,   \* height of the last of blocks.getBlocks(), 0 if there is none
  rbf,      \* the RBF cache knows replacements
  files,    \* chunk -> what cache.json (chunk 0) or cache<n>.json holds
  tmp,      \* chunk -> what its temporary file holds, while a save is to rename it
  rbfFile,  \* what rbfcache.json holds: FALSE if it is empty or not there
  calls,    \* call of $saveCacheToDisk() -> where it is
  writing,  \* isWritingCache
  locks,    \* semaphore.locks
  resume,   \* semaphore.resume
  round,    \* where runMainUpdateLoop() is
  loaded,   \* height of the blocks that $loadMempoolCache() read
  exit,     \* history: what the last process held and could save when a signal ended it
  torn,     \* history: renaming was cut short and has not been done since
  faults    \* faults so far

memory == <<pool, height, rbf>>
disk == <<files, tmp, rbfFile, torn>>
saving == <<calls, writing, locks, resume>>
boot == <<proc, ignore, loaded, exit>>
vars == <<boot, memory, disk, saving, round, faults>>

Chunk == 0 .. Chunks - 1
NoFiles == [i \in {} |-> {}]

\* The files, and file i with new contents.
With(fs, i, new) == [j \in DOMAIN fs \cup {i} |-> IF j = i THEN new ELSE fs[j]]

\* txs: the transactions of the chunk; from: the mempool it was cut from;
\* height: the blocks next to it, in chunk 0 only.
File == [txs : SUBSET Tx, from : SUBSET Tx, height : 0..MaxHeight, whole : BOOLEAN]

\* i: the chunk it is at; from: what it copied of the mempool; left: what of that no
\* chunk has yet; dump: what it took of the RBF cache.
NoCall == [at |-> "none", i |-> 0, from |-> {}, left |-> {}, dump |-> FALSE]

NoExit == [saved |-> FALSE, rbfSaved |-> FALSE, pool |-> {}, height |-> 0, rbf |-> FALSE]

TypeOK ==
  /\ proc \in {"down", "pools", "load", "set", "up"} /\ ignore \in BOOLEAN
  /\ pool \subseteq Tx /\ height \in 0..MaxHeight /\ rbf \in BOOLEAN
  /\ DOMAIN files \subseteq Chunk /\ \A i \in DOMAIN files : files[i] \in File
  /\ DOMAIN tmp \subseteq Chunk /\ \A i \in DOMAIN tmp : tmp[i] \in File
  /\ rbfFile \in BOOLEAN /\ torn \in BOOLEAN
  /\ \A c \in Call : /\ calls[c].at \in {"none", "wait", "write", "writing", "rename", "rbf"}
                     /\ calls[c].i \in Chunk /\ calls[c].left \subseteq calls[c].from
  /\ writing <=> \E c \in Call : calls[c].at # "none"
  /\ locks \in 0..1 /\ resume \in Seq(Call)
  /\ \A c \in Call : calls[c].at = "wait" <=> \E n \in DOMAIN resume : resume[n] = c
  /\ round \in {"idle", "blocks", "mempool", "ends"}
  /\ loaded \in 0..MaxHeight /\ faults \in 0..MaxFaults

Init ==
  /\ proc = "down" /\ ignore = FALSE /\ loaded = 0 /\ exit = NoExit
  /\ pool = {} /\ height = 0 /\ rbf = FALSE
  /\ files = NoFiles /\ tmp = NoFiles /\ rbfFile = FALSE /\ torn = FALSE
  /\ calls = [c \in Call |-> NoCall] /\ writing = FALSE /\ locks = 0 /\ resume = <<>>
  /\ round = "idle" /\ faults = 0

Fault == faults < MaxFaults /\ faults' = faults + 1

-----------------------------------------------------------------------------
(* $saveCacheToDisk() in the background                                    *)

\* $yield(): wait for the semaphore, or go on.
Yield(c, call) ==
  /\ calls' = [calls EXCEPT ![c] = [call EXCEPT !.at = IF locks > 0 THEN "wait" ELSE "write"]]
  /\ resume' = IF locks > 0 THEN Append(resume, c) ELSE resume

\* Seeded: no call is refused.
FaultyRefused == FALSE

\* Is the call refused, as another one is writing?
Refused == writing

\* The call copies the mempool and yields.
Save(txs) ==
  LET c == CHOOSE d \in Call : calls[d].at = "none"
  IN IF Refused THEN UNCHANGED saving
     ELSE /\ writing' = TRUE
          /\ Yield(c, [NoCall EXCEPT !.from = txs, !.left = txs])
          /\ UNCHANGED locks

\* chunkSize; the remainder of the division gets into no chunk.
ChunkSize(txs) == Cardinality(txs) \div Chunks

\* The next chunk is put together, the first with the blocks as they are now, and its
\* temporary file is opened.
BeginWrite(c) ==
  LET call == calls[c] IN
  /\ call.at = "write"
  /\ \E txs \in SUBSET call.left :
       /\ Cardinality(txs) = ChunkSize(call.from)
       /\ tmp' = With(tmp, call.i, [txs |-> txs, from |-> call.from, whole |-> FALSE,
                                    height |-> IF call.i = 0 THEN height ELSE 0])
       /\ calls' = [calls EXCEPT ![c].at = "writing", ![c].left = @ \ txs]
  /\ UNCHANGED <<boot, memory, files, rbfFile, torn, writing, locks, resume, round, faults>>

EndWrite(c) ==
  LET call == calls[c] IN
  /\ call.at = "writing"
  /\ tmp' = [tmp EXCEPT ![call.i].whole = TRUE]
  /\ IF call.i < Chunks - 1
     THEN Yield(c, [call EXCEPT !.i = @ + 1])
     ELSE /\ calls' = [calls EXCEPT ![c].at = "rename", ![c].i = 0]
          /\ UNCHANGED resume
  /\ UNCHANGED <<boot, memory, files, rbfFile, torn, writing, locks, round, faults>>

\* Done with the mempool, one way or the other: the RBF cache is next.
TurnToRbf(c) == calls' = [calls EXCEPT ![c] = [NoCall EXCEPT !.at = "rbf", !.dump = rbf]]

Rename(c) ==
  LET call == calls[c] IN
  /\ call.at = "rename" /\ call.i \in DOMAIN tmp
  /\ files' = With(files, call.i, tmp[call.i])
  /\ tmp' = [i \in DOMAIN tmp \ {call.i} |-> tmp[i]]
  /\ IF call.i < Chunks - 1
     THEN calls' = [calls EXCEPT ![c].i = @ + 1] /\ UNCHANGED torn
     ELSE TurnToRbf(c) /\ torn' = FALSE
  /\ UNCHANGED <<boot, memory, rbfFile, writing, locks, resume, round, faults>>

Renaming == \E c \in Call : calls[c].at = "rename" /\ calls[c].i > 0

\* Seeded: what could be written is renamed.
FaultySaveFails(c) ==
  /\ calls[c].at \in {"writing", "rename"} /\ Fault
  /\ calls' = [calls EXCEPT ![c].at = "rename", ![c].i = 0]
  /\ UNCHANGED <<boot, memory, disk, writing, locks, resume, round>>

\* A file cannot be written or renamed.
SaveFails(c) ==
  /\ calls[c].at \in {"writing", "rename"} /\ Fault
  /\ torn' = (torn \/ Renaming)
  /\ tmp' = NoFiles
  /\ TurnToRbf(c)
  /\ UNCHANGED <<boot, memory, files, rbfFile, writing, locks, resume, round>>

EndSave(c) == calls' = [calls EXCEPT ![c] = NoCall] /\ writing' = FALSE

SaveRbf(c) ==
  /\ calls[c].at = "rbf"
  /\ rbfFile' = calls[c].dump
  /\ EndSave(c)
  /\ UNCHANGED <<boot, memory, files, tmp, torn, locks, resume, round, faults>>

SaveRbfFails(c) ==
  /\ calls[c].at = "rbf" /\ Fault
  /\ EndSave(c)
  /\ UNCHANGED <<boot, memory, disk, locks, resume, round>>

\* unlock(): the first that waits goes on.
Unlock ==
  /\ locks' = IF locks > 0 THEN locks - 1 ELSE 0
  /\ IF locks' = 0 /\ resume # <<>>
     THEN resume' = Tail(resume) /\ calls' = [calls EXCEPT ![Head(resume)].at = "write"]
     ELSE UNCHANGED <<resume, calls>>
  /\ UNCHANGED writing

-----------------------------------------------------------------------------
(* $saveCacheToDisk(true): all at once                                     *)

\* The mempool cut into chunks, in any order.
Cut(txs) ==
  {f \in [Chunk -> SUBSET txs] :
     /\ \A i \in Chunk : Cardinality(f[i]) = ChunkSize(txs)
     /\ \A i, j \in Chunk : i # j => f[i] \cap f[j] = {}}

\* The first `done` chunks are renamed, and the RBF cache is written if `rbfDone`.  Less
\* than all is a fault: a file cannot be written or renamed, which is only logged.
SaveAtOnce(done, rbfDone) ==
  IF Refused THEN UNCHANGED <<files, rbfFile, torn, faults>>
  ELSE /\ \E f \in Cut(pool) :
            files' = [i \in DOMAIN files \cup 0 .. done - 1 |->
                        IF i < done
                        THEN [txs |-> f[i], from |-> pool, whole |-> TRUE,
                              height |-> IF i = 0 THEN height ELSE 0]
                        ELSE files[i]]
       /\ torn' = (done < Chunks /\ (torn \/ done > 0))
       /\ rbfFile' = IF rbfDone THEN rbf ELSE rbfFile
       /\ IF done = Chunks /\ rbfDone THEN UNCHANGED faults ELSE Fault

-----------------------------------------------------------------------------
(* Start and end of the process                                            *)

Start ==
  /\ proc = "down"
  /\ proc' = "pools"
  /\ ignore' \in BOOLEAN
  /\ UNCHANGED <<loaded, exit, memory, disk, saving, round, faults>>

\* loadBundledPools(): with a database, definitions that changed start a save; nothing
\* has been loaded yet.
LoadPools(changed) ==
  /\ proc = "pools"
  /\ proc' = "load"
  /\ changed => ignore
  /\ IF changed THEN Save(pool) ELSE UNCHANGED saving
  /\ UNCHANGED <<ignore, loaded, exit, memory, disk, round, faults>>

\* $loadMempoolCache(): without cache.json nothing is loaded, the RBF cache neither.
LoadNothing ==
  /\ proc = "load" /\ 0 \notin DOMAIN files
  /\ proc' = "up" /\ exit' = NoExit
  /\ UNCHANGED <<ignore, loaded, memory, disk, saving, round, faults>>

\* The files are of another network or schema: wipeCache(), and nothing is loaded.
LoadForeign ==
  /\ proc = "load" /\ 0 \in DOMAIN files /\ Fault
  /\ files' = NoFiles
  /\ torn' = FALSE
  /\ proc' = "up" /\ exit' = NoExit
  /\ UNCHANGED <<ignore, loaded, memory, tmp, rbfFile, saving, round>>

\* Seeded: the first chunk only.
FaultyLoadMempool ==
  /\ proc = "load" /\ 0 \in DOMAIN files
  /\ pool' = files[0].txs
  /\ loaded' = files[0].height
  /\ proc' = "set"
  /\ UNCHANGED <<ignore, exit, height, rbf, disk, saving, round, faults>>

\* All chunks are read; then $setMempool() takes its time.
LoadMempool ==
  /\ proc = "load" /\ 0 \in DOMAIN files
  /\ pool' = UNION {files[i].txs : i \in DOMAIN files}
  /\ loaded' = files[0].height
  /\ proc' = "set"
  /\ UNCHANGED <<ignore, exit, height, rbf, disk, saving, round, faults>>

\* With a database the blocks are left out, and everything is saved again without them,
\* the RBF cache included, which is read only then.
LoadRest(done, rbfDone) ==
  /\ proc = "set"
  /\ IF ignore THEN SaveAtOnce(done, rbfDone) /\ UNCHANGED <<tmp, height>>
     ELSE height' = loaded /\ UNCHANGED <<disk, faults>>
  /\ rbf' = rbfFile'
  /\ loaded' = 0
  /\ proc' = "up" /\ exit' = NoExit
  /\ UNCHANGED <<ignore, pool, saving, round>>

Die ==
  /\ proc' = "down" /\ ignore' = FALSE /\ loaded' = 0
  /\ tmp' = NoFiles
  /\ pool' = {} /\ height' = 0 /\ rbf' = FALSE
  /\ calls' = [c \in Call |-> NoCall] /\ writing' = FALSE /\ locks' = 0 /\ resume' = <<>>
  /\ round' = "idle"

\* SIGINT: save at once, unless a save is in flight, which ends where it is; the process
\* ends whether or not anything could be saved.
SigInt(done, rbfDone) ==
  /\ proc # "down"
  /\ IF Refused
     THEN torn' = (torn \/ Renaming) /\ UNCHANGED <<files, rbfFile, faults>>
     ELSE SaveAtOnce(done, rbfDone)
  /\ exit' = IF Refused THEN NoExit
             ELSE [saved |-> done = Chunks, rbfSaved |-> rbfDone,
                   pool |-> pool, height |-> height, rbf |-> rbf]
  /\ Die

Crash ==
  /\ proc # "down" /\ Fault
  /\ torn' = (torn \/ Renaming)
  /\ exit' = NoExit
  /\ Die
  /\ UNCHANGED <<files, rbfFile>>

-----------------------------------------------------------------------------
(* The main loop                                                           *)

BeginBlocks ==
  /\ proc = "up" /\ round = "idle"
  /\ round' = "blocks"
  /\ locks' = locks + 1
  /\ UNCHANGED <<boot, memory, disk, calls, writing, resume, faults>>

\* A block; every DISK_CACHE_BLOCK_INTERVAL blocks a save is started.
NewBlock(confirmed, due) ==
  /\ round = "blocks" /\ height < MaxHeight
  /\ confirmed \subseteq pool
  /\ pool' = pool \ confirmed
  /\ height' = height + 1
  /\ IF due THEN Save(pool') ELSE UNCHANGED saving
  /\ UNCHANGED <<boot, rbf, disk, round, faults>>

EndBlocks ==
  /\ round = "blocks"
  /\ round' = "mempool"
  /\ Unlock
  /\ UNCHANGED <<boot, memory, disk, faults>>

UpdateMempool(t) ==
  /\ round = "mempool"
  /\ pool' \in {pool, pool \cup {t}, pool \ {t}}
  /\ rbf' \in {rbf, TRUE}
  /\ round' = "ends"
  /\ UNCHANGED <<boot, height, disk, saving, faults>>

\* An exception, at any await.
Throw ==
  /\ round \in {"blocks", "mempool"}
  /\ round' = "ends"
  /\ UNCHANGED <<boot, memory, disk, saving, faults>>

\* Seeded: the locks are reset, and nobody goes on.
FaultyEndRound ==
  /\ round = "ends"
  /\ round' = "idle"
  /\ locks' = 0
  /\ UNCHANGED <<boot, memory, disk, calls, writing, resume, faults>>

\* The finally clause unlocks whether or not $updateBlocks() has.
EndRound ==
  /\ round = "ends"
  /\ round' = "idle"
  /\ Unlock
  /\ UNCHANGED <<boot, memory, disk, faults>>

-----------------------------------------------------------------------------
Saving == \E c \in Call : BeginWrite(c) \/ EndWrite(c) \/ Rename(c) \/ SaveRbf(c)

Loading ==
  \/ \E changed \in BOOLEAN : LoadPools(changed)
  \/ LoadNothing \/ LoadMempool
  \/ \E done \in 0..Chunks, rbfDone \in BOOLEAN : LoadRest(done, rbfDone)

MainLoop ==
  \/ BeginBlocks \/ EndBlocks \/ EndRound
  \/ \E t \in Tx : UpdateMempool(t)

Next ==
  \/ Saving \/ Loading \/ MainLoop
  \/ \E confirmed \in SUBSET Tx, due \in BOOLEAN : NewBlock(confirmed, due)
  \/ Throw
  \/ \E c \in Call : SaveFails(c) \/ SaveRbfFails(c)
  \/ Start \/ LoadForeign \/ Crash
  \/ \E done \in 0..Chunks, rbfDone \in BOOLEAN : SigInt(done, rbfDone)

Spec == Init /\ [][Next]_vars

\* A file operation and an await come to an end; a round of the loop does, too.
FairSpec == Spec /\ WF_vars(Saving) /\ WF_vars(Loading) /\ WF_vars(MainLoop)

-----------------------------------------------------------------------------
(* Properties                                                              *)

\* No file that a start would read is half written, wherever a save was interrupted.
FilesWhole == \A i \in DOMAIN files : files[i].whole

\* Unless renaming was cut short, the files are the chunks of one mempool: nothing else
\* is in them, and only the remainder of the division is missing, although calls of
\* $saveCacheToDisk() from blocks, pool definitions and loading meet.
OneSnapshot ==
  ~torn /\ ~Renaming =>
    \A i \in DOMAIN files :
      LET from == files[i].from
          saved == UNION {files[j].txs : j \in DOMAIN files}
      IN /\ saved \subseteq from
         /\ Cardinality(from \ saved) = Cardinality(from) % Chunks

\* What a process held when a signal stopped it is there again after the next start, but
\* for the remainder of the division, if it could be written, and the process has no
\* database and its files are its own.  What could not be written is lost, mempool and
\* RBF cache each for itself.
StopKeeps ==
  [][proc = "set" /\ proc' = "up" /\ ~ignore =>
       /\ exit.saved =>
            /\ pool' \subseteq exit.pool
            /\ Cardinality(exit.pool \ pool') = Cardinality(exit.pool) % Chunks
            /\ height' = exit.height
       /\ exit.rbfSaved => rbf' = exit.rbf]_vars

\* A save that waits for the main loop goes on: every way out of $updateBlocks() unlocks.
SaveFinishes == writing ~> ~writing
=============================================================================
