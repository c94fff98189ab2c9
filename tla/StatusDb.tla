------------------------------ MODULE StatusDb ------------------------------
(***************************************************************************)
(* statusdb of one store node: get_statusdb opens the world state (leveldb)*)
(* and recover_status reads every block file and hands each to             *)
(* handle_block, which compares what the block's transactions read with    *)
(* the state, entry by entry, and writes all or nothing.                   *)
(*                                                                         *)
(* A file reaches handle_blockfile cut at its first zero byte, which is in *)
(* the length prefix of its first block: one turn of the loop is made, with*)
(* bytes from behind the string, and handle_block gets the start of the    *)
(* file.  What the parser makes of it is any of Block, or the process dies *)
(* because the length it decoded is no size for a stack.                   *)
(***************************************************************************)
EXTENDS Blocks, Encode, FiniteSets

CONSTANTS
  Files,      \* what block files there may be: for each the length of its first block
  PoolSize,   \* blockfile_size of config.ini, the bytes of the memory pool
  MaxStart    \* bound: how often the process is started

ASSUME FileAssumption ==
  /\ Files \subseteq Seq(1..MaxLength)
  /\ PoolSize \in Nat /\ MaxStart \in Nat

VARIABLES
  hasDir,     \* is there the directory of the block files?
  files,      \* the block files, which nothing in the code writes
  db,         \* the world state in leveldb
  disk,       \* what of it would outlive a loss of power: writes are not synced
  log, diskLog,   \* the blocks applied to make db and disk (history)
  pc,         \* "down", or the point of recover_status
  file,       \* file_number: files read so far
  size,       \* last_file_content.size()
  block,      \* the block in handle_block
  tx, rd,     \* the transaction and the read that handle_block is at
  used,       \* _used_size of the memory pool
  blockNumber, fileNumber,   \* global_block_number, global_blockfile_number
  starts      \* processes started (bound)

state  == <<hasDir, files, db, disk, log, diskLog>>
place  == <<file, size, block, tx, rd>>
global == <<used, blockNumber, fileNumber>>
vars   == <<state, pc, place, global, starts>>

NoBlock == [number |-> 0, txs |-> <<>>]
Nowhere == file = 0 /\ size = 0 /\ block = NoBlock /\ tx = 1 /\ rd = 1

Init ==
  /\ hasDir \in BOOLEAN /\ files \in Files
  /\ db = [k \in Key |-> Absent] /\ disk = db
  /\ log = <<>> /\ diskLog = <<>>
  /\ pc = "down" /\ Nowhere
  /\ used = 0 /\ blockNumber = 0 /\ fileNumber = 0
  /\ starts = 0

-----------------------------------------------------------------------------
\* A process opens the state as it is and starts to recover; its globals are zero.  If the
\* directory is not there mk_multi_dir never ends, as it finds the first '/' for ever.
Start ==
  /\ pc = "down" /\ starts < MaxStart
  /\ pc' = (IF hasDir THEN "files" ELSE "mkdir") /\ starts' = starts + 1
  /\ UNCHANGED <<state, place, global>>

\* mutant: a file of which nothing is left is not counted.
ReadSameFile ==
  /\ pc = "files" /\ file < Len(files)
  /\ size' = Readable(files[file + 1])
  /\ file' = IF size' = 0 THEN file ELSE file + 1
  /\ pc' = IF size' = 0 THEN "files" ELSE "parse"
  /\ UNCHANGED <<state, block, tx, rd, global, starts>>

\* The next file, with the loop of handle_blockfile over its blocks.  The string ends inside
\* the first prefix, so size is at most 3; a turn adds 4+length to idx, which is no less than
\* size again.  It would be only if 4+length wrapped, and such a length is no size for an
\* array (StackOverflow).  So the loop makes one turn, and none for an empty string.
ReadFile ==
  /\ pc = "files" /\ file < Len(files)
  /\ file' = file + 1
  /\ size' = Readable(files[file + 1])
  /\ pc' = IF size' = 0 THEN "files" ELSE "parse"
  /\ UNCHANGED <<state, block, tx, rd, global, starts>>

\* handle_block begins: its number is noted before anything is validated.
ParseBlock ==
  /\ pc = "parse"
  /\ \E b \in Block : block' = b /\ blockNumber' = b.number
  /\ tx' = 1 /\ rd' = 1 /\ pc' = "read"
  /\ UNCHANGED <<state, file, size, used, fileNumber, starts>>

InTx == tx <= Len(block.txs)
InReads == InTx /\ rd <= Len(block.txs[tx].rd)

\* mutant: only the values are compared.
MatchesValue == db[block.txs[tx].rd[rd].key].value = block.txs[tx].rd[rd].entry.value

Matches == db[block.txs[tx].rd[rd].key] = block.txs[tx].rd[rd].entry

\* One turn of the inner loop whose read is as the state has it,
ReadMatches ==
  /\ pc = "read" /\ InReads /\ Matches
  /\ rd' = rd + 1
  /\ UNCHANGED <<state, pc, file, size, block, tx, global, starts>>

\* mutant: the break leaves the inner loop only.
RejectTx ==
  /\ pc = "read" /\ InReads /\ ~Matches
  /\ tx' = tx + 1 /\ rd' = 1
  /\ UNCHANGED <<state, pc, file, size, block, global, starts>>

\* whose read is not: both loops are left and the block is dropped,
Reject ==
  /\ pc = "read" /\ InReads /\ ~Matches
  /\ pc' = "files"
  /\ UNCHANGED <<state, place, global, starts>>

\* and one turn of the outer loop.
NextTx ==
  /\ pc = "read" /\ InTx /\ ~InReads
  /\ tx' = tx + 1 /\ rd' = 1
  /\ UNCHANGED <<state, pc, file, size, block, global, starts>>

\* Every read was current: the writes of all transactions go into one batch.
Apply ==
  /\ pc = "read" /\ ~InTx
  /\ db' = Written(block, db)
  /\ log' = IF WritesNothing(block) THEN log ELSE Append(log, block)
  /\ pc' = "files"
  /\ UNCHANGED <<hasDir, files, disk, diskLog, place, global, starts>>

\* mutant: the bytes asked for are not counted.
FullBefore == used > PoolSize

Full == used + size > PoolSize

\* No file is left, and the last one is copied into the pool.  The files are counted with
\* the one that was missing.
Finish ==
  /\ pc = "files" /\ file = Len(files) /\ ~Full
  /\ used' = used + size
  /\ fileNumber' = file + 1
  /\ pc' = "ready"
  /\ UNCHANGED <<state, place, blockNumber, starts>>

-----------------------------------------------------------------------------
\* The process is gone, with its memory.
Gone ==
  /\ pc' = "down"
  /\ file' = 0 /\ size' = 0 /\ block' = NoBlock /\ tx' = 1 /\ rd' = 1
  /\ used' = 0 /\ blockNumber' = 0 /\ fileNumber' = 0
  /\ UNCHANGED starts

\* allocate() answers nullptr, and the content is copied there all the same.
PoolFull ==
  /\ pc = "files" /\ file = Len(files) /\ Full
  /\ Gone /\ UNCHANGED state

\* The length decoded from behind the string is more than the stack holds.
StackOverflow == pc = "parse" /\ Gone /\ UNCHANGED state

\* The process dies; leveldb has its batches.
Crash == pc # "down" /\ Gone /\ UNCHANGED state

\* The machine dies with what was not on disk yet.
PowerLoss ==
  /\ pc # "down" /\ Gone
  /\ db' = disk /\ log' = diskLog
  /\ UNCHANGED <<hasDir, files, disk, diskLog>>

\* The operating system writes leveldb's log out.
Flush ==
  /\ disk # db
  /\ disk' = db /\ diskLog' = log
  /\ UNCHANGED <<hasDir, files, db, log, pc, place, global, starts>>

Recover == ReadFile \/ ParseBlock \/ ReadMatches \/ Reject \/ NextTx \/ Apply
             \/ Finish \/ PoolFull \/ StackOverflow
Fault == Crash \/ PowerLoss
Next == Start \/ Recover \/ Fault \/ Flush

Spec == Init /\ [][Next]_vars /\ WF_vars(Recover)
=============================================================================
