# TLA+ models and proofs of gyy_blockchain

A small permissioned blockchain in C++: *consensus nodes* elect a leader and cut blocks
from the transactions they are sent, *store nodes* keep the blocks and the world state,
a *CA* certifies the nodes' keys. The processes talk over brpc. This directory models the
code as it is at this commit, including what it gets wrong; where a comment says
otherwise, PROJECT.json has a finding with the run that shows it.

## 1. The system

| Component | State | Operations | Talks to |
|---|---|---|---|
| `raft` (consen_node/raft) | role, session, voted, tickets, timer, peers and their channels; hash and height of the chain head | `loop_process` (once a second), `reselection_leader`, `send_heartbeat`, `vote`, `get_tx_from_all_follower`, `send_block_to_follower` | the other nodes' `raft_service` |
| `raft_service` | none | `SendMsg`, `SendTxToConsenNode`, `GetTxFromFollower`, `SendBlockToOtherNode`, each on a brpc worker | `raft`, `consen_node_cache`, store nodes |
| `consen_node_cache` | doubly linked list of transactions, its size, the store nodes that sent any | `insert_tx`, `get_all_tx`, `clear_cache`, `generate_block`, `distribute_block` | `raft`, `node_identity` |
| `node_identity` (both kinds of node) | key pair, certificate; three files | its constructor | CA |
| `ca` | its key pair | `ApplyPubKeyCert`, `GetCAPubKey` | - |
| `statusdb` (store_node) | leveldb, block files | `recover_status`, `handle_block`, `batch_process` | Grena, leveldb |
| `gossip` (store_node) | neighbours, expected height and hash | `unreceived_before`, `ReceivedBlockBefore`; `SendBlockToStoreNode` is empty | other store nodes |
| `Grena` | the bytes used of its pool | `allocate`, `swap` (no caller) | - |
| utils | none | ini parsing, length prefixes, md5, rsa and signatures | - |

What is hard. Three kinds of thread meet in a consensus node: the ticker, the thread that
distributes blocks, the brpc workers. The only lock is `_tx_mutex`, taken by `insert_tx`
alone. Rounds of calls block their thread in `brpc::Join`; a call has 100 ms and three
retries, so a request may be handled after its caller gave up, or twice. A failed call
erases the peer for the life of the process. Nothing of a consensus node but its identity
survives a restart. A store node is the other way round: one thread recovers the state
before anything serves, but process and machine may die anywhere, leveldb is written
without sync, and every start replays the same files over what is there. Neither `main` starts the ticker, the distributor or the services, so
the models take the comments of the headers ("每秒执行一次的循环执行函数", raft.h:46) for the
schedule: one ticker thread, one distributor, any number of workers.

What makes each component correct:

- *raft*: a leader has the majority it claims; no two leaders of one round; elections end;
  somebody leads; a leader reaches its followers.
- *cache*: transactions leave in timestamp order, once, and reach a block; no null or freed
  cell is followed; loops end.
- *identity*: a key pair is a pair, and the same one for the node's life; a stored
  certificate is used.
- *block distribution*: a head is one block's hash and height, no process goes back, every
  node the leader still lists has its chain head, every store node listed was reached.
- *statusdb*: the state changes by whole blocks whose reads it held, wherever something
  dies; what recovery replays is refused if it was applied; recovery ends.
- *gossip*: whoever is not told of a block answered that it was received or failed a call;
  a round ends.
- *utils*: what is padded, encoded, encrypted or parsed is read back.

The hazards, each at its line, are in PROJECT.json.

## 2. Modules

| Module | What it is |
|---|---|
| `LeaderRole` | abstract: the role a node reports. LEADER is for life and comes after CANDIDATE. |
| `Raft` | the raft class with `SendMsg`, the timer, timeouts, late requests, restarts |
| `MCRaft` | node sets, symmetry and the constraint of Raft's runs |
| `RaftProofs` | theorems about Raft |
| `SortedCache` | abstract: the cache as a sequence sorted by timestamp, taken at once |
| `TxCache` | the cache's linked list, access by access, with its three kinds of user |
| `MCTxCache` | symmetry of TxCache's runs |
| `CacheProofs` | theorems about TxCache that hold of every interleaving |
| `CacheOrderProofs` | theorems about TxCache where inserts and readers keep apart |
| `BlockFlow` | chain heads, the making of blocks and their way to peers and store nodes |
| `MCBlockFlow` | symmetry and the constraint of BlockFlow's run |
| `BlockChain` | abstract: one chain of blocks, each on the last one, along which the heads of the nodes move forward |
| `BlockProofs` | theorems about BlockFlow: its types, the store nodes that are listed, the chain of a single maker, its refinement of BlockChain, the chains of leaders of nobody |
| `Blocks` | data of the world state: blocks, their reads and their writes |
| `VersionedStore` | abstract: a state that changes by whole blocks and loses whole ones |
| `Encode` | length prefixes, and what reading one as a C string leaves of it |
| `StatusDb` | one store node's world state and its recovery, with crashes |
| `Gossip` | the store nodes' question who lacks a block |
| `StoreNode` | StatusDb and Gossip together: recovery first, then service |
| `MCStoreNode` | blocks, files and nodes of StoreNode's run |
| `StoreProofs` | theorems about StoreNode |
| `Md5`, `Gini`, `Rsa` | pure code: hashing up to the hash of a block, the configuration reader, keys and signatures |
| `MCUtils` | their reference definitions, over every text of a length |
| `UtilProofs` | theorems about MCUtils: its references hold of texts of any length |
| `Identity` | the constructor of `node_identity` over its files |
| `IdentityProofs` | theorems about Identity |
| `Numbers` | what the proofs need of the naturals: least and greatest members, induction, recursive functions; remainders, primes, powers, Fermat's theorem and exponents that are inverse to each other |

Definitions marked `mutant:` in a comment stand in no behaviour of the model. Each is a
plausible mistake in the definition it precedes, and breaks the property it is listed with
in PROJECT.json.

### Raft

State: `role`, `session`, `voted`, `ticket`, `elapsed`, `trigger`, `peers` are the fields of
the class (`_other_nodes` and `_rpc_channels` always have the same keys). `pc` says which
round the ticker is blocked in, `call[n][m]` how far n's call to m has come, `late` holds
requests whose caller gave up. `backers`, `lost`, `clean`, `life` are history.

Actions: `TickLeader`, `TickFollower`, `StartElection` and `TickCandidate` are the branches
of `loop_process`; `Join` is one turn of the loop after a round, in the unspecified order of
the hash map; `WinElection`, `LoseElection`, `EndHeartbeat` end a round. `VoteRefused`,
`VoteChecked`, `VoteGranted` are `vote()` in a worker: the test and the assignment are two
steps, since nothing is locked. `Heartbeat` may lose its reset to the ticker's unlocked
`+= 1`. `Timeout`, `Return` and the `Late...` actions are brpc. `LeaderCallFailed` is what
the other two rounds of a leader do to the peer list. `Restart` builds a new process.

Abstractions: `elapsed` stops at `trigger` (only the comparison is used). Messages carry
their type only; the vote request has no session in the code, so it reads as 0
(`ReqSession`). A node does not list itself among its hosts. The ticker and the distributor
erase from one `unordered_map`: the model interleaves the erasures and does not say what
a broken map does. Failures before a call is out are part of `Timeout`.

Flags: `RequiredChecked` - protobuf refuses a reply without its required fields. `SendMsg`
never sets `type`, so with a proto2 runtime that checks, every answered call fails; builds
that do not check are covered by FALSE. `Lossy` - calls may fail. `Overlap` - the timer
fires while the last tick is still in `Join`; the code does not say who calls
`loop_process`, and its CANDIDATE branch can only run this way. The model has such ticks
where they make no calls. That one starts a second round - an election of a node that the
tick before has made FOLLOWER again, heartbeats of one it has made LEADER - beside the
round in `Join` is not modelled: calls end within their 100 ms and ticks are a second
apart, so it takes a round that brpc holds up across two ticks.

### TxCache

State: `head`, `tail`, `next`, `prev`, `heap`, `size` are the list; a cell is named by its
transaction. `ins` is the insert that holds `_tx_mutex`. Two readers work without it:
`distributor` (`generate_block`) and `collector` (`GetTxFromFollower`), with the local
variables `cur`, `first`, `rest`, `last`, `body`. `blocks` are the bodies of the blocks made.
History, which no action reads: `visited` and `rounds` are the cells that generate_block
passed over, in its present round and for each block; `dropped` the cells deleted for
another LEADER's request; `late` the transactions whose insert ran beside a reader.

Actions: an insert is `InsertSearch` and one `Link...`; a reader takes one access at a time:
`Copy`, `Walk`, `ClearDelete`, `ClearAdvance`, `ClearReset`. Following a null or freed
pointer is undefined behaviour and ends the run (`up = FALSE`). Readers are taken access by
access; the linking of an insert is one step, which is finer than most builds reorder it
and hides torn pairs of `_next`/`_prev` (a reader follows `_next` alone). `Serial` keeps
inserts and readers apart: it separates what the list algorithm gets wrong by itself from
what the missing lock does.

No follower ever answers `GetTxFromFollower` with a transaction (`Walk` never gets to the
end; a leader frees its cells and returns none), so the merge in `get_all_tx` has nothing to
merge and `Gather` is one step. generate_block sets the pointer that add_txs() returned to
the cell's transaction, and not the message it points to (consen_node_cache.cpp:86-87): the
messages of a block are empty, and `Copy` appends Null to `body`. So no transaction ever
gets into a block, in any behaviour (`NoTxLost`, run `cache_lost`). `LossExplained` and
`PassedOnce` therefore speak of the cells that were passed over, which is what the list
and its readers decide.

### BlockFlow

State: `hight` and `preHash` are the chain head of a node, `stores` its `_store_nodes`,
`peers` its list; `cached` is the length of TxCache's list and `seen` is `_tx_size > 0`,
which never becomes false again. `pc` and `loc` are the distributor's place and local
variables, `call` the calls of its present round. `req` holds each request from its sending
to the end of its handler: `at` is `"sent"` on the way, then the worker's place in
`SendBlockToOtherNode`. `made`, `makers`, `retries`, `missed` are history.

Actions: `StartDistribute`, `AskForTxs`, `CutBlock`, `SendBlock`, `SendToStores`,
`JoinStore`, `EndDistribute` are `distribute_block`, cut where another thread can see or
change what it uses: between the reads of hash and height, before and after each round,
between the two writes. `SetPreHash`, `SetHight`, `Forward`, `Forwarded`, `AnswerBlock` are
the worker. `GetTxFromFollower` kills a node that is not LEADER or has nothing to clear, as
TxCache shows, so the nodes that live to be sent a block are LEADERs that had transactions,
and processes started anew between the two rounds. `Timeout` gives a call up while its
request lives on, `Retry` sends it twice, `Restart` starts a process again with nothing but
its old requests still about. `BecomeLeader` and `DropPeer` are what Raft does to the role
and the peer list, at any time.

Abstractions: a block is its parent, its number and how many (empty) transactions it has,
which is what its md5 is taken of, so it stands for its hash. The list is read and cleared
in one step. A failed call covers a lost request, a lost reply, and a reply refused for its
missing field. The store nodes' handler is empty; what counts is whether a call to it
failed. The peers of a round are erased together when its last call has ended. Inserting
into `_store_nodes` while the distributor iterates over it is undefined and not modelled.

### Identity

State: `onDisk` and `text` are the files, `mem` the members, `pc` and `target` the point of
the constructor; `crashes` and `fails` count against their bounds. A file operation is two
steps, truncate and write; the process may die between any two steps. `FileFails` is a
failure that `write_file_once` reports and the constructor ignores. A read returns what the
file holds or that with bytes behind it (`tail`), since `read_file_once` does not terminate
its buffer (global.cpp:14-17); so an empty file may look full, its key is not made again, and
the process is ready with no pair. Keys are named by the second they were made in, which is what `generate_key` seeds from. `AskCA` is
the whole of `get_cert_from_ca`: a controller that is not reset fails again, so the seven
tries are an answer or an empty string. Only one thread builds the object. The store node's
class is the same text.

### StatusDb, Gossip, StoreNode

State: `db` is leveldb, `disk` what of it a power loss would leave; `hasDir` and `files`
are the block directory, of which only the length of each file's first block matters.
`file`, `size`, `block`, `tx`, `rd` are the local variables of `recover_status`,
`handle_blockfile` and `handle_block`; `used` is the pool, `blockNumber` and `fileNumber`
the globals. `log` and `diskLog` are history: the blocks applied to make `db` and `disk`.
`neighbours`, `asked`, `call`, `unreceived` are `gossip` and a running
`unreceived_before`; `failed` is history.

Actions: `Start` is get_statusdb; `ReadFile` the loop over the files, `ParseBlock` the call
of handle_block, `ReadMatches`, `Reject`, `NextTx` the turns of its two loops, `Apply` its
batch, `Finish` and `PoolFull` the copy of the last file into the pool. `Serve`, `Ask`,
`ReceivedBlockBefore`, `CallFails`, `EndRound` are gossip. `Crash` and `PowerLoss` may come
anywhere; `Flush` is the system writing leveldb's log out. `StoreNode` joins them in the
order of main (the state at main.cpp:109-110; the server, in the lines commented out, after
the state at 42-52): the node answers nobody before its state is
recovered, and a neighbour that asks meanwhile erases it.

What the code does there:

- `read_file_once` makes its string of a char pointer, and each file begins with a length
  of four bytes below 2^24, so a string ends inside the first prefix. `handle_blockfile`
  takes one turn for it, since 4 and any length that an array can have are more than the
  three bytes there are; it never gets to a second block. It decodes a length from behind the string, and hands handle_block
  the start of the file, not of the block (statusdb.cpp:64). The parse may answer anything,
  so `ParseBlock` takes any block of `Block`, and `StackOverflow` is a length that is no
  size for an array. A first block whose length is a multiple of 256 leaves an empty
  string, and its file is passed over.
- Without the directory mk_multi_dir finds the first `/` for ever (`pc = "mkdir"`).
- `_expected_number` and `_expected_hash` are never set, so the answer of a node depends on
  the question alone: has_received says nothing of whether it has the block, and neither
  does `NobodySkipped`.

External or assumed: no code of the repository writes block files, sends to
`SendBlockToStoreNode` anything it keeps, or calls `unreceived_before`. The two handlers of
gossip_service.cpp are defined without their class's name; the model takes them as the
class's. `Put`, `Delete` and the deletions of `batch_process` have no caller. A state that
DB::Open refuses kills the process at its first read, which `Crash` covers.

### Md5, Gini, Rsa, Encode

Operators, one per function, over sequences of bytes or characters. `MCUtils` writes texts
item by item and compares, in each state, what the code makes of the text with a
definition of what it should be. Where the code does not do what its name says, the
property says what it does: strtoui32 shifts in signed chars, so a byte of 0x80 or more
wipes the bytes before it in its word (`BytesKept`; the text's last one to three bytes, cut
by the 0x80 of the padding, are never hashed); a message with a leading zero byte, or above
n, is not read back (`SignatureReadsBack`); a line whose key and value are both in quotes
is misread (`PairReadsBack`). back() of a blank line is undefined; `Gini` takes what
libstdc++ does. md5() counts bits in an int, so `Dif` is its padding for texts of less than
2^28 bytes. What unit_hash makes of its words, and gmp, are left out: `Rsa` is given the primes that
were drawn.

## 3. Runs

| Run | Instance | Shows |
|---|---|---|
| `raft_two` | 2 nodes, 2 workers each, 1 late request, 1 restart each, failures; 225k states | types; leaders backed by a majority of the peers they have left; refinement of LeaderRole |
| `raft_three` | 3 nodes of which 2 stand, failures, 1 late request, up to the first heartbeat; 1.4M states | a voter votes once; two first elections are never both won with all peers listed; leaders backed by a majority |
| `raft_built` | 2 nodes, replies as the handler leaves them; 853 states | every node makes itself leader, with no peer left |
| `raft_live` | 2 nodes, 1 late request, failures, ticks that overlap an election; 35k states | every election ends; one of two nodes leads |
| `cache_serial` | 4 transactions, 3 timestamps; 19k states | sorted, taken whole; bad pointers only in three places; refinement of SortedCache |
| `cache_race` | 3 transactions, 2 timestamps, all interleavings; 514k states | no cell passed over twice; what leaves the list unseen was deleted for another LEADER or inserted beside a reader; the distributor's loops end |
| `cache_lost` | violation | the transactions that a block is made of are not in it: its messages are empty (consen_node_cache.cpp:41, 87) |
| `flow` | 2 nodes, 1 store node, 2 blocks, 1 retry, 1 restart; 800k states | while one process makes the blocks: heads are whole, never go back, and are the leader's on every node it lists, and refinement of BlockChain; listed store nodes were reached |
| `identity_crash` | 4 crashes, 3 seconds, 1 failed file operation, reads that end with the file or not; 31k states | the files hold one pair for the node's life, whoever died where, and each process begins with it; the constructor ends |
| `identity_cert` | violation | a stored certificate is not read and can be lost (consen_node_identity.cpp:78, 80) |
| `store` | 2 starts, 5 blocks, 2 keys, 2 nodes; 140k states | refinement of VersionedStore under crashes and power losses; no block applied twice unexplained; recovery and rounds end; nobody skipped |
| `utils` | every text up to a length; 5k states | md5's padding and words, signatures, prefixes and configuration lines against their references |

Comments in two headers say that a leader collects the followers' transactions. `raft_built`
and theorem `LeadersAlone` show that, with the replies as they are, a leader has no peer
left to ask; `CrashExplained` has the follower that would be asked and never answers.

Bounds. Two nodes are enough for everything that is between a candidate and one voter:
late and repeated votes, restarts, the free ticket. A third is needed for a contest, and
in `raft_three` A and B contest the vote of C, who does not stand: a third candidate
votes for nobody once it stands, so it only takes votes away (`TwoStand`; the theorem
has no such bound). The triggers are 1 and 2 seconds, which is who is first. The run
stops where heartbeats begin; `raft_two` has them. Four transactions and three timestamps give every place of an insert (empty,
back, front, between, equal to the head, equal to the tail) with a neighbour on both
sides; three transactions give the races one on each side of the reader. In BlockFlow,
the second block is the one that can overtake a request of the first, and one waiting
transaction is all that separates a node that survives from one that does not;
`OneMaker` ends the run where `Undisturbed` does, since the four properties say nothing
afterwards, or where the maker is gone, since nothing is sent then. In Identity, four
crashes are two for each of the two keys that could be left half written, and three
seconds make three different pairs. In `store`, two starts are a recovery and its replay;
the blocks are the empty one, a block that creates a key, two that depend on it inside and
across transactions, and a blind write; the files have a first block that is skipped (256),
one that leaves one byte (5) and one that leaves two (300), as the last file or not, and a
pool of one byte (config.ini's blockfile_size is 1) is too small for the last. The other
node is modelled by its service alone, which is all gossip sees. In `utils`, texts of 130 bytes are padded across two
block ends; the other alphabets hold each byte or character that the code treats
differently, at every place.

Fairness. Raft: the ticker is a timer that goes on, and a call ends by its timeout, so
`Ticker(n)` and `Timeout(n, m)` are weakly fair; nothing makes a request arrive, so the
handlers have none. TxCache: a thread inside an operation keeps running; nothing makes a
client send or a distributor start. Identity: the constructor runs; crashes are bounded.

StoreNode: the recovery runs, and each node's round goes on, as its calls time out and the
thread joins them; nothing makes a node start, ask or answer.

The cache runs, `flow`, the identity runs and `store` do not check for deadlock: a process
that followed a bad pointer, a constructor that has finished, and a node that may not be
started again really stop. `utils` stops at its longest texts.

## 4. Proofs

TLAPS proves the following for every number of nodes, workers, retries, late requests,
restarts, crashes and failures. Assumptions: Node is finite with at least two members, the
bounds are naturals, the flags Boolean (`NodeAssumption`, `BoundAssumption`,
`FlagAssumption`, `IdentityAssumption`); BlockFlow's nodes and store nodes are finite sets
(`FlowAssumption`). Transactions are a finite set of cells, none of them Null or one of
the names that say where to link, with timestamps up to a natural number (`TxAssumption`, `StampAssumption`). The
bytes of hashed texts and of lengths are bytes (`ByteAssumption`); characters, lines and
the longest text are anything; the primes of keys are primes, and 65537 has an inverse
modulo (p - 1)(q - 1) (`PrimeAssumption`). For the store node: blocks are a number and
sequences of reads and writes with natural numbers (`BlockAssumption`), the first block of
a file is shorter than 2^24 bytes (`FileAssumption`), and the node is one of the nodes
(`NodeAssumption`).

RaftProofs:

- `Typed` - the types, with: n is never in `peers[n]`, no calls outside a round.
- `LeadersBacked` - TypeOK does not bound tickets. `TicketInv`: the tickets of a round are
  at most the free one plus the voters whose reply has been joined, who are among the
  `backers`, disjoint from the calls still open; `LeaderInv` carries the comparison from
  the end of the election on, when peers can only get fewer.
- `VotesAreBounded` - in a first life (`VoteInv`): before `_voted` is set, nobody is
  backed and the workers inside `vote()` are at most `VoteThreads`; after it, those still
  inside and those already backed are together at most as many.
- `FirstElections` - if both a and b had won clean, each has a majority of its n - 1 peers
  in votes. `StoodInv`: only nodes that stood are backed; `MutualInv`: two nodes that stood
  and are still in their first round do not back each other, as a candidate refuses.
  Two majorities then meet in a third node, which voted once. `CleanInv` keeps the
  majority after the election.
- `LeadersAlone` - with the reply as it is no call is ever agreed or answered (`AloneInv`),
  so each joined call erases its peer and no vote is a ticket.
- `RolesImplemented` - without overlapping ticks each step of Raft is a step of LeaderRole
  or leaves `role` and `life` alone. (With them, a leader made by the tick can be unmade by
  the election it overtook.)

IdentityProofs, however far reads run; the last two while no file operation fails:

- `Typed` - with `FilesInv`: what each point of the constructor knows of the files.
- `KeyPairsMatch`, `IdentitiesStable` - `PairInv`: a private key on disk is always under its
  own public key, because the public key is written first and an empty file of either, if it
  is read as empty, is taken for the lack of both; while a pair is being made there is no
  private key on disk; the pair of the first ready process that left both files stays there.
  A read past the end only adds to what is read (`ReadBegins`), so it can keep a pair from
  being made but never makes a second one over the first. Neither property is inductive
  without what `pc` says of the memory.

BlockProofs:

- `FlowTyped` - TypeOK says nothing of the distributor's locals or of the life a request
  belongs to. `FlowInv` adds them, that a block that is cut or sent is one of `made`, and
  that calls are open only inside a round; so a late request still carries a block made.
- `ListedStoresFollow` - `StoresInv`: between two rounds no listed store node has missed a
  block, and inside the third round those that have are among the local failed ones, so
  the removal at its end reaches all of them, whatever a worker removes or lists meanwhile.

Then, while at most one process has made a block and brpc has sent nothing twice:
`ChainInv` rests on one fact: a peer that is still listed has answered the last block.

- `MakerInv` - the makers are processes that ran, and who is between the cut of a block and
  the end of its round is one.
- `SentInv` - so at most one block is on its way to any node, none to the maker, and none
  older than the node's head; a worker between its two assignments has made the first.
- `MakersHeadInv` - the maker's head is that of the block it is at and the highest, so the
  height it reads for the next block is its own.
- `FollowersInv` - nothing is on its way to a listed peer outside the round; inside it, a
  call that is not answered may have its block under way, and one that is answered has left
  the maker's head there. A call that fails strikes the peer off, which is what keeps a
  late block from meeting a newer one.

- `TheChainGrows` - as long as that lasts, BlockFlow takes steps of BlockChain only; and
  `OneMakerOneChain`: where it lasts for ever, BlockFlow implements BlockChain. `GrowInv` adds to the invariants
  above that the blocks made are a chain, the maker's last at its end. Each step of BlockFlow
  makes the next block, moves one head forward along the chain, begins a new life of a node,
  or leaves the chain alone; a head stands for the block whose hash the node holds, though
  its height is written in another step.

`HeadsAreWhole` is `HeadsInv`, `PeersFollow` is the last part of `FollowersInv`, and
`HeightsOnlyGrow` follows from `SentInv` step by step. A step that moves neither a block
nor a head (`Calm`) keeps all of it at once.

Without that restriction, but with the election as it is:

- `AloneEachItsOwn` - `LeadersAlone` (RaftProofs) says that, unless two elections of a node
  overlapped, a LEADER has no peer left. `AloneSpec` has the behaviours of BlockFlow in which
  that is so. In them no request is ever sent, a node that is not LEADER has no block, and
  each LEADER, with any number of them at work, makes a whole chain of its own: `IslandInv`
  keeps that what the distributor has read of its head is still its head when it cuts the
  block. `AloneSpec` is not the specification of a run; TLC checked `IslandInv` on it once,
  with two nodes, two blocks and two transactions.

CacheProofs, for every interleaving of one insert, the distributor and a collector:

- `CacheTyped` - TypeOK bounds `_tx_size`, which never goes down. `CacheTypes` adds what it
  counts: the transactions that ever came, once each, without the one that is being linked.
- `NeverPassedTwice` - `PassInv`: the cells form chains along `_next` (`Chained`): there is a
  naming of the chains and a ranking that grows along each. A chain is begun by a first
  insert and only grows. generate_block gets to its end only on the chain of `_tail`, and no
  cell that was passed over is on that chain: once `_tail` has left a chain it never comes
  back, so each is passed over at most once.
- `LossesExplained` - LossExplained speaks of the moments at which nobody reads, so `LossInv`
  has to say what holds in between. What is `Owed` - accepted, and not passed over, dropped
  or late - is in the list when a reader goes in; from then on those cells are fixed, and
  from `_head` a way leads over all of them to `_tail` (`Linkage`), along a ranking that
  inserts refine but do not break. The distributor is on that way until it has passed over
  them; whoever clears the list deletes along it.

CacheOrderProofs, where inserts and readers keep apart (`Serial`):

- `OrderInv` - there is a sequence that is the list (`Waiting`): its cells are the live
  ones, each once, sorted by timestamp and chained in this order, with `_head`, `_tail` and
  the backward links right while nobody clears (`Intact`); what generate_block has passed
  over is a proper part of its front (`Copied`), what is being cleared a part of its end
  (`Cleared`). It ends with the process: a process that died did so in one of CrashExplained's cases.
- `CrashesExplained` follows from it, `CacheImplementsSorted` step by step.
  The refinement mapping reads the list from `head` with a recursive function (`FromHead`);
  `Follow` shows what it reads, by looking at the least step where it would differ.

StoreProofs, for every set of blocks a file may parse as:

- `StoreTyped` - `StoreTypes` adds to TypeOK that what is read is one of `Block`. That the
  state after `Apply` is a state needs a last write of each key that was written
  (`LastWriteExists`, by `Greatest` twice: the last transaction that writes it, and the last
  place there); that a C string of a prefix has at most three bytes is `ReadableShort`.
- `StoreImplemented` - each step of StoreNode is a step of VersionedStore or leaves state
  and disk alone. handle_block reads the state entry by entry and writes at the end;
  `ScanInv` is what it has passed over and is still current, so at `Apply` all reads are,
  which is `Commit`'s guard.
- `ReplaysExplained` - ReplayExplained alone says nothing of the state. `ReplayInv` adds
  that while only forward blocks were written since some place of the log, the number under
  each key that block wrote is at least its own (`Ranked`), so its own reads, which have
  lower numbers, can no longer be current. It holds of `db` with `log` and of `disk` with
  `diskLog`, so a power loss restores it.
- `NobodyIsSkipped`, of the answers and not of the blocks - `RoundInv`: every node is a neighbour or has failed a call; in a
  round, whoever is not called has failed before.

UtilProofs, for texts, files and sets of characters of any size:

- `BlocksAreWhole`, `BytesAreKept` - where each byte of a text goes: through the padding
  (`PaddedIs`), the cut into blocks (`BlocksAre`), the words (`WordsAre`) and strtoui32's
  signed shifts (`StrtouiIs`), each with its own place computed from the one before.
- `LengthsReadBack` - `BytesAre` is the encoding's divisions and remainders, byte by byte.
- `SignaturesReadBack` - `Fermat`, without cardinality of groups: multiplying by a number
  that p does not divide moves 1 .. p - 1 in circles of equal size (`CircleSize`), which are
  taken away one by one (`CirclesCount`), so their size divides p - 1. Two primes that divide
  a difference divide it together (`TwoPrimes`), hence `ExponentsInvert`. `PowmIs` shows that
  mpz_powm's halving computes the power, `KeyIs` that the two exponents of a key are inverse,
  `SerialOfParse` and `ParseOfSerial` what the conversions of bytes keep. The theorem is for
  all primes with such an exponent, not for those of the run.
- `PairsReadBack` - `CutEndsIs`, `TrimIs`, `PairIs` say what trim_space and get_key_value
  cut out of a piece of a line, by the places of its blanks, quotes and first `=`. The three
  kinds of line are then described place by place.
- `TheLastValueStays` - the reader is a recursive function over the lines; `LineRead` shows
  that one more line makes of the values so far what the reference makes of one more line,
  and `FileRead` that the function is the only one that does.

Where a definition is a recursive function, the proofs write down what it should compute,
show that it satisfies the recursion, and look at the least argument at which the two
would differ (`Least` and `Induct` in Numbers; `Recursion` shows that there is such a function at all).

The weaker majority of overlapping ticks is only proved (`LeadersBacked`): with two nodes
half of one peer is none, and three with failures are too many states. So are the votes that
more than one worker gives (`VotesAreBounded`): with fewer than four nodes no bound above
one can be exceeded.

Model-checked only: the liveness properties, as fairness and ENABLED are out of
the prover's reach: `CandidateResolves`, `SomebodyLeads`, `EveryNodeLeads`, `DistributeEnds`,
`ReadyEventually`, `RecoveryEnds`, `RoundEnds`. `KeyPairMatches` and `IdentityStable` say
nothing once a file operation failed, where they are false; the proved properties of a
TxCache that is not serial are its types, `PassedOnce` and `LossExplained`, which leaves the
transactions inserted beside a reader to the race.

What is not claimed. Which block a recovery applies: the code hands the parser bytes that
are not the block, so the state is what the parses were and no more. A block that writes
without reading is applied again at every start. Two blocks whose texts differ in what
md5 drops have one hash. What becomes of a transaction once generate_block has passed
over it, or another LEADER has had it deleted: it is in no block and in no reply. A block is signed with the public key
(consen_node_cache.cpp:98) and nobody verifies it. Nodes expect block 0 for ever.
Once a second process makes blocks, a node that reads its hash
before and its height after a block of the other makes one that extends nothing; a
request that brpc sent twice can leave the hash of one block with the height of another.
With three or more nodes elections can be lost for ever: a process votes once in its
life, so when the votes are spent on candidates that lost, only lost tickets and erased
peers make a leader. After a lost election the free ticket makes two leaders possible.
None of this contradicts a line of the repository that is not among the findings.

## 5. Not modelled

- unit_hash from its words on (its steps, shifts and table) and the arithmetic of gmp; the drawing of
  primes, which Identity has as the second it is seeded with. An e that divides
  (p - 1)(q - 1) gives no private key; the primes of `utils` have none such.
- `Grena::swap`, `statusdb::Put` and `Delete`, gossip's setters and
  `send_block_to_other_store_node`: no caller, or no body.
- ParseIni's conversions of a value to a number: the callers' settings are constants here.
- Smart contracts are stubs; the mains are demonstrations. The order of the store node's,
  state and then services, is StoreNode's.
- `GetCAPubKey` changes nothing.
- The lazily created singletons: the models start with the objects there.
- Undefined behaviour inside a container: iterators of `_other_nodes` and `_store_nodes`
  that another thread invalidates.

## 6. Plan

1. *done* - Raft, LeaderRole, RaftProofs: the election is what everything else rests on.
2. *done* - TxCache, SortedCache: the data of the block.
3. *done* - Identity, IdentityProofs.
4. *done* - BlockFlow.
5. *done* - Blocks, StatusDb, VersionedStore, Encode: recovery and its crashes.
6. *done* - Gossip and StoreNode, their composition, and StoreProofs.
7. *done* - Md5, Gini, Rsa against references.
8. *done* - BlockProofs: every property of BlockFlow's run.
9. *done* - CacheProofs and CacheOrderProofs: every safety property of TxCache's runs and
   its refinement of SortedCache; StoreNode's types; UtilProofs.
10. *done* - BlockChain, which BlockFlow implements while one process makes the blocks;
   Numbers, and with it the last invariant that was only model-checked.
11. *done* - `AloneEachItsOwn`: what Raft's `LeadersAlone` makes of BlockFlow, whose
    `BecomeLeader` and `DropPeer` are otherwise free.
