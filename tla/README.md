# Formal models of c_tools

c_tools is a collection of small C programs, libraries and shell scripts. Most
parts stand alone; the logic lives in a few: a memory pool, the intrusive lists
of list.h, a red-black tree, two Aho-Corasick string matchers, an edge-triggered
echo server with its clients, the scripts that supervise and update a program,
and a handful of small searches, conversions and readers. This directory holds
TLA+ models of these parts, the TLC runs that check them and the proofs that
TLAPS checks.

    tlasany M.tla                           parse
    tlc -workers 2 -config X.cfg M.tla      one run of the table below
    tlapm M.tla                             the proofs of a module

`PROJECT.json` lists components, runs, mutants (for each property a change to
the model, as a bug in the code would be, that makes its run fail), the lines
each definition stands for, findings, hazards and theorems.

## 1. Inventory

| part | state it keeps | operations | what is hard | what makes it correct |
|---|---|---|---|---|
| memory pool, `memory/memory01` | doubly linked list of blocks; per block a count of free units, the first free unit, links inside the free units; the client's pointers | create, malloc (scan, take, grow), free (scan, release to the heap, move to the front), destroy | long call sequences that reorder the list; u16 sizes; links the client may overwrite | counts exact, no dangling pointer, no unit to two clients, list right, calls return |
| kernel lists, `list.h`, `list_test/list.h` | next/prev, or next/pprev, of every entry and head | add, delete, move, splice, emptiness, walks; hlist add/delete | order of assignments when neighbours coincide; stale heads after a splice; pprev into other nodes | the fields form lists; a walk meets what was added and not deleted |
| student list, `list_test` | a list of heap records | insert, find, delete, delete all | cursors across a free; a cursor that advances twice | linked = allocated; first match; what a deletion leaves |
| red-black tree, `rbtree` | root, children, parent, colour | link + insert, erase, replace, first/last/next/prev | the rebalancing loops, in trees earlier calls shaped | a red-black tree that is an ordered set, at each iteration |
| Aho-Corasick 1, `search_str/acsm` | patterns, trie, failure states, transition table, match lists | add, compile, search, free | rows filled in place in breadth-first order | automaton = its definition; reports sound and complete as far as promised |
| Aho-Corasick 2, `search_str/acsm2` | as above, four row formats, a match queue, a state carried between calls | select, add, compile (trie, NFA, DFA, pack), nine searches, free | packed rows at their limits; matches across chunks; queue at its limit; formats that do not fit | as above, in every format |
| epoll echo, `epoll` | server: one buffer and count, a batch of events; kernel: queues, ready list; clients: where they are | epoll_wait, accept loop, read, write; connect, send, recv, being killed | edge trigger; batches; a buffer shared by all connections; blocking sockets; ends and resets | nothing missed, no block, replies to whom they belong |
| watchdog, service, update, `scripts` | processes of the program, watchdogs; lists and counts each script has read; versions unpacked and recorded | start, count, kill, restart; start and stop by hand; install, roll back, record | the watchdog's count against slow starts, deaths, service and the update | the program runs again in the end; a stop holds; the recorded version is the installed one |
| calendar of update, `scripts/update.sh` | the flag of a new day, the date kept for it | read the time, read the date, update | the clock goes on between any two readings, an update may take days | once a day |
| KMP, Sunday, `search_str` | table of borders or shifts, place in the text | search | nested borders; first and last place | result = first occurrence |
| code tables, `encoded` | the window of the search; the place of the sort | binary search, add 0x8080, bubble sort | the ends of the table; codes that are there twice | a search finds what is there |
| conversions, `encoded` | places in input and output, a byte count | GB2312 to UTF-8 and back | a byte count left from an earlier character | each character converted alone; there and back is the same |
| configuration, `read_config.c` | one global value | fgets, trim, parse, set | lines longer than the buffer; a value over a longer one; values longer than `portal_sip` | the setting is the last value |
| md5, `md5.c` | block, sum | read, pad | files that end near a block's end | file + mark + zeros + length, in whole blocks |
| socket pair, `socketpair.c` | two processes, who has which end open | fork, close, write, read | a peer that is killed; ends left open | they take turns; the survivor ends |
| the rest | | `mylog.c`, `iconv.c`, `file_num.c`, `gethostbyname.c`, `hyperscan`, `redteam`, `script_study.sh` | | see "Not modelled" |

Interactions are few. list_test uses list.h by calls. Users of rbtree write the
search core of an insertion themselves. The matchers call back a function of
their user, whose result ends the search. client.c and epoll_eg.c exchange bytes
through sockets. service, update.sh and somebody's hand start and kill
watchdog.sh, which kills and starts the program the update replaces; all of them
see one another only as lines of ps. The conversions call the search of the code
tables, which relies on the order sort.c has put these in.

The hazards (what a test would hardly reach, each at its line) are in
`PROJECT.json`; the properties below are aimed at them.

## 2. Modules

    MemoryPool ──implements──> UnitAllocator      ListOps ── KList ──implements──> SeqLists
        │   └ MCMemoryPool                           │  └─── StuList
        └ MemoryPoolProofs                           │       HList
                                                     └ MCLists (KList, HList, StuList) ── ListProofs
    RBTree ── RBTreeProps ──implements──> OrderedSet
                  ├ MCRBTree
                  └ RBShape ── RBTreeProofs
    AcsmRef ─┬ AcsmRows ── Acsm2 ─┬ MCAcsm ── AcsmProofs ── Acsm2Proofs
             └ Acsm ──────────────┘
    EpollEcho ── EpollEchoProofs
    CodeSearch, TableSort, StringSearch, Encoding, ConfigReader, Md5File,
    SocketPair, Supervision, DailyUpdate ── MCPrograms ── ProgramsProofs

`MCLists` and `MCPrograms` hold modules that share no state: a behaviour picks
one of them in its first state and goes on with it alone, so one run checks them
one after the other and not their product.

### Memory pool

`MemoryPool` keeps the fields of memory.c by their names; a pointer is a pair
of block and unit, `link[b][u]` is what the first two bytes of a unit hold (the
pool's while the unit is free, the client's while it is held). The scans of
mem_malloc and mem_free and the loop of destroy are one step per iteration; the
rest of each function, which one thread runs without a wait, is one step.
Undefined behaviour (a NULL pPrev followed, a unit number out of range, a
pointer that is not the heap's freed) sets `fault` and ends the behaviour.
nSize is a u16 and wraps, as it does in the code. The client may write into what
it holds.

`UnitAllocator` is what it promises: an answer for each request, with a unit
nobody holds. Pools of at most two units a block implement it; with three the
links of a fresh block, where each unit names itself, hand a unit out twice
(finding `pool_links`).

### Lists

`ListOps` holds the pointer assignments of list.h as functions on the next and
prev fields, one per C function, applied in the code's order: a later
assignment reads what an earlier one wrote. `KList` lets a user make every legal
call in every order; `SeqLists` is the abstract specification, sequences.
`IsSeqLists` asks more than that every step is some step of SeqLists: each call
is the one its name says (`CallsAsNamed`), so that a list_add that appended, or
a list_splice that left its head ready, would not do.
`HList` has the hash lists: pprev, the address of a next field, is the object
that holds the field. `StuList` is list_test/stuinfo.c on ListOps, loop by loop,
with calls in any order where main.c has one order.

### Red-black tree

`RBTree` has the descent to the place of a key (external: rbtree.h tells its
users to write it), linking, and one action per iteration of rb_insert_color and
__rb_erase_color, the two mirrored halves written once for a side. `RBTreeProps`
states the tree's rules with the exception each loop is allowed where it stands:
an insertion's red node, an erasure's missing black. `OrderedSet` is the
abstract specification; the rebalancing steps map to stutters.

### Aho-Corasick machines

`AcsmRef` defines the automaton from the patterns alone: states are the prefixes
of the patterns, failure is the longest proper suffix that is one, a state's
matches are the patterns its word ends in. `Acsm` (acsmx.c) and `Acsm2`
(acsmx2.c) build theirs like the code, one pattern at a time for the trie and
one state of the queue per step for the breadth-first passes, and carry a history
`str` of the word each state was made for, by which they are compared with
`AcsmRef`. `AcsmRows` has the four row formats as sequences of words, the words
of full rows by the size that acsmCompressStates leads to, and the two lookups
that read them. Searches take one character per step from any text; what
Match answers is a free choice. In `Acsm2` a stream is searched in chunks with
the state of one call handed to the next.

### Epoll echo

`EpollEcho` has the server's loop, one event after the other; recv and the
branches after `sleep(2)` are two steps, since the world moves in between. The
clients follow client.c, and may be killed anywhere. Kernel definitions are
external: per connection a queue each way, the peer's end (end of stream if it
left nothing unread, else a reset), and epoll's ready list, first come first
served, onto which an edge or an EPOLL_CTL_MOD that finds its condition true
puts a descriptor and from which epoll_wait takes those whose condition still
holds. A message stands for the bytes of one send. errno after a reset may be
another error: a dead peer gives others, and printf runs before it is read.

### Scripts

`Supervision` has one table of processes, as ps shows it: for each process of
the program the children it has still to fork and the version it runs, and the
watchdogs with where they are and what they hold. What a script has read (a list
of processes, a count) is a variable of its own, acted on in later steps: each
ps, each kill of a list and each start is a step, except watchdog.sh's killall.
The program starts as one process and forks process_num children within
StartTicks. Time is a tick of two seconds; a tick comes only when every watchdog
sleeps, so what a watchdog does between two sleeps takes no time, though other
scripts, forks and deaths come in between. service and update.sh may stop
anywhere. A history, `race`, notes when one of them sees no watchdog whether the
other has seen none too and not yet started one. The paths of the scripts are examples; the model has them name one
program and one watchdog. What update.sh gets wrong by name is in it: TEST_AUDIT
is set nowhere, so the update does not stop the running program (`UpdList`),
and the package is unpacked only if it is found under the word `TEST_PATH`
(`UpdInstall`, `Unpacked`).

`DailyUpdate` is the script's outer loop, in which all of the above is the one
pair of steps Update and Updated. Time and date are read in two steps; the clock
moves between any of them, but leaves the loop at least Turns turns in each half
of a date, unless an update is under way or the script has just started.

### Small programs

`CodeSearch` is the search of encoded.c, on tables that are any functions from
indices to keys and values; `TableSort` the programs that made them.
`StringSearch` has getNext, kmp and sunday by turns of their loops, on C strings
indexed from 0 with a terminator. `Encoding` converts one character per step on
bytes, with byteCount kept between characters as in the code. `ConfigReader`
takes one line of fgets per step; the sizes of line, key, value and portal_sip
are constants, and where the code would write over a buffer, or leave a string
without an end, the model stops in "overrun": a key or a value that fills its
buffer, and a value of portal_sip's size or more. `Md5File` numbers the bytes of a file, so that
a byte lost, doubled or left over shows in the blocks given to md5(). In
`SocketPair` each end of the pair has a queue and the processes that hold it;
either process may be killed between any two calls, and a write to an end nobody
holds kills the writer.

## 3. Runs

| run | module, cfg | shows | bounds |
|---|---|---|---|
| `pool` | MCMemoryPool | NoDangling: a block is freed only when nothing in it is held; Accounts: free + held = size; ListKept: a pPrev not NULL is the block before, the list is what the heap gave, and with one unit a block there is no fault and a fully linked list; FindsBlock: mem_free finds its block; Allocates: steps of UnitAllocator; CallsReturn | four shapes of pool: 1 unit × 3 blocks, 2 × 2, 3 × 2, and 2 × 2 with 40000-byte units (nSize wraps); 3 pointers |
| `pool_prev` | MemoryPool | violation: after a move to the front the old head's pPrev stays NULL | 2 blocks of 2 |
| `pool_links` | MemoryPool | violation: the links of a fresh block do not chain its units | 1 block of 3 |
| `lists` | MCLists | Links, WalkMeetsAll, IsSeqLists (each call is its sequence operation) for list_head; HashLists, OrderKept for hlist; LinkedIsLive, DeletesAsTold, CallsReturn for the student list | 4 entries, 2 heads, 2 names |
| `rbtree` | MCRBTree | PointersAgree, RedBlack, WalksInOrder; IsOrderedSet; CallsReturn | 8 nodes, two of one key |
| `acsm` | MCAcsm | QueueKept; Automaton, Rows: tables = automaton; Sound, Complete: reports; Carried: the state between chunks; CallsReturn | 4 inputs, up to 2 of 4 patterns, streams of 3 characters in up to 2 chunks, 12 modes, queue of 2 |
| `acsm_all` | MCAcsm, AcsmAll | violation: the first machine does not report all occurrences | as above |
| `acsm2_modes` | MCAcsm, Acsm2Modes | violation: NFA with banded rows | as above, one mode |
| `epoll` | EpollEcho, MCEpollEcho | NeverBlocks: recv only when there is something; Served: no edge is lost; RepliesWereSent: what the shared buffer still guarantees | 2 clients, 3 requests each, batches of 2 |
| `epoll_answer` | EpollEcho, EpollAnswer | violation: a request may stay without an answer | 2 clients, 2 requests each |
| `encoding_greek` | MCPrograms, EncodingGreek | violation: a text of two-byte characters is not converted | as `programs` |
| `programs` | MCPrograms | Answers, Sorted: code tables; SearchesFindFirst: KMP and Sunday; Converts: each character alone, there and back; FilesRead: configuration and md5; TakeTurns: socket pair; StopHolds, RecordedInstalled, Settles: scripts; OnceADay: the calendar; Returns: calls end, and so does what is left of a pair | below |

The type invariants of MemoryPool, KList, HList, StuList, RBTree and Supervision
are parts of Accounts, LinkedIsLive, HashLists, PointersAgree and StopHolds.

Why the bounds are enough for what the runs ask:

- pool: mem_free treats a block as head, middle or last, and its predecessor as
  head or not; three blocks give every case, and every re-ordering between them.
  Two units a block are the least that make a move to the front possible, three
  the least that show the chain.
- lists: four entries on two lists give an entry neighbours that are two heads,
  a head and an entry, two entries, or itself, for every operation, and splices
  of and into lists of zero to four.
- rbtree: trees of eight nodes have black height up to three, so that recolouring
  climbs and a missing black moves up more than one level, with red siblings on
  the way; the invariants are checked at each iteration.
- acsm: patterns inside one another, overlapping, and differing by case make
  failure states of depth two, merged match lists and a queue that overflows in
  the middle of one; rows with no, one, adjacent and distant transitions meet
  the limits of the packed formats, which are set to 0, 1 and 10 (zeros in a band)
  and 1 and 256 (pairs in a row). With UINT8 = 4 and UINT16 = 6 for 0xff and
  0xffff, machines of two to six states get words of each of the three sizes.
- epoll: two connections and the listening socket are three descriptors for
  batches of two, so batches split; three requests let each connection meet the
  other's read, end and reset between its own read and write, more than once.
  Three clients with one request each (237,000 states) pass as well.
- programs, code tables: every sorted table of five entries with four keys and
  every key in, below and above them puts a hit and a miss at either end and in
  the middle, with runs of equal keys; every order of four entries with three
  keys is sorted.
- programs, strings: all texts of two letters up to five and patterns up to
  four: borders that nest (abab, aaaa), fallbacks of several levels, a first and
  a last alignment, an empty pattern, a pattern longer than the text.
- programs, conversions: texts of up to three characters of each length from one
  to five bytes, stray bytes among them; the entries are a character, a letter
  below 2048, and U+2225, which is in the table twice.
- programs, files: up to three lines of every kind the parser tells apart, with
  a line buffer of 12, 7 for keys and values and 4 for portal_sip, which keeps the
  code's order (512, 64, 32): values that fit, that leave no end and that go past
  it, keys of the buffer's size and longer; files that end on each side of each boundary of one and two
  blocks of md5.
- programs, scripts: places for eight processes of a program of two, and three
  watchdogs, one more than `OneDog` allows; a start takes up to 4 ticks of the 5
  (`Sleep10`) it has. The scenes are two deaths, a death and a call of service, two calls, a call and an
  update, a death and an update with the new package found or both. More than
  two events take the run past its time; the watchdog itself keeps nothing but
  a count from one sleep to the next.
- programs, calendar: four dates and two turns of the loop in half a date, the
  fewest with which a day flag is seen at all; an update may span dates.
  (`UpdatesOnceADay` is proved for any number of dates and turns.)

Deadlock is not checked where the system may really stop: a behaviour that ran
into a fault (`pool*`), the freed machine and the stream at its bound
(`acsm*`), clients that have all gone (`epoll*`), and programs that have ended
(`programs`).

### Findings

- memory.c:167: a block moved to the head leaves the pPrev of the old head
  NULL; memory.h:15 calls pPrev the block before. A later mem_free that
  unlinks the old head dereferences NULL.
- memory.c:47: each unit of a fresh block records its own number; README.md:86
  of memory/ says it records the next one's. From three units a block on, a held
  unit is handed out again.
- acsmx.c:479: acsmSearch returns at its first match, and states do not take
  over the matches of their failure states; acsmx.c:36 promises all occurrences
  of all patterns.
- acsmx2.c:2198: the NFA lookup reads a banded row without skipping its header;
  acsmx2.c:89-91 says any machine goes with any of the four storage modes.
- epoll_eg.c:168: n belongs to the last recv of any connection; one that
  returned 0 or -1 for another connection makes the write send nothing, and the
  client, which waits at client.c:72, never hears.
- encoded.c:113: characters that UTF-8 writes with two bytes, as Greek and
  Cyrillic letters, are copied; only those of three are looked up. encoded.c:89
  says the text is converted to GB2312, and encoded/README.txt:16 that this is
  done by table; the table has U+03B1 as A6C1. `Converts` says what is left: every
  character is read and written by itself, ASCII and characters of three bytes
  with a code come out right whatever is beside them, and texts of them are the
  same there and back.

What else the models show: acsmx2.c:3055 computes the index in the NFA search
before T advances, one too small, though acsmx2.c:112 reports an off-by-one of
this kind as fixed (`Index` has it, and `SoundReports` states by how much);
del_all_stu advances its
cursor twice an iteration, so it deletes all records only if their number is one
less than a power of two (`DelAllLeaves` says exactly what stays; list_test/main.c
has three); the banded and the NFA search hand the state back only when Match
stops them (`Carried`); echoes may carry another client's request
(`RepliesWereSent` says what is left: some request somebody sent, no more
replies than requests, in order when alone).

The same for the scripts and the small programs; each is in the module as the
code has it, and the properties say what is left:

- update.sh:127 notes down the version of the running program, as its comment
  says, but the loop before it (78) kills what `$TEST_AUDIT` names, which is set
  nowhere, and the paths at 87, 98, 101, 115 and 132-137 begin with `TEST_PATH`
  without a `$`. So the old program goes on, the count at 108 takes it for the
  new one, there is no rollback, and the new version is recorded whether it was
  unpacked or not. `RecordedInstalled` holds only for packages that are found.
- watchdog.sh:70: the longer pause for programs of five processes or more asks
  for the count, which is 0 at that place; the comment at 65 wants 20 seconds.
  A program that takes between 10 and 20 seconds to start is killed and started
  for ever, which is why `Settles` assumes StartTicks < Sleep10.
- service and update.sh may each start a watchdog after both have seen none:
  there are then two, never more, and never two otherwise (`OneDog`, with the
  history `race`). Two watchdogs that count in step may undo each other for
  ever, so `Settles` is about one.
- update.sh:7 wants one update a day. If midnight comes within the first turns
  after the start or after an update, perDate is a date behind, and the next
  date may have two (`cut` in `OnceADay`).
- kmp.c:21 returns 0 both for a match at the start and for none; sunday.c:18
  ends one place early and misses a match at the very end of the text.
- encoded.c:152: a text that begins with a stray byte is never done (`Stuck`):
  i stays where it is, while the message is printed and j runs on.
- read_config.c:55 copies a value without an end of its own, so the tail of a
  longer one stays; and it copies up to 63 characters into the 32 of portal_sip
  (24). `Overlaid` says when the call may overrun a buffer, and what the setting
  is when it does not.

### Fairness

All programs modelled here run their loops in one thread that waits for nothing
within a call. So weak fairness is assumed of a call in progress and of nothing
else: the steps of the pool's, the student list's and the tree's loops, of a
compilation and of a chunk's end, and the server's steps. Users never have to
call, and epoll's clients never have to send, receive or leave: `Served` holds
though they may stop anywhere. epoll_wait is part of the server's fairness as it
returns when the ready list holds something; recv is enabled only if there is
something to read, so a server that blocked in it would stop for good, and
`NeverBlocks` is what excludes it.

In `programs`, weak fairness is assumed of `Progress` alone: a call that has been
made goes on; of the socket pair, a process that is left alone goes on; and of
the scripts' world time passes, the program forks its children and the watchdogs take their
steps. Nobody has to call service, begin an update or go on with either, and no
calendar has to advance. `Settles` and `Returns` hold though service and
update.sh may hang between any two lines.

## 4. Proofs

`MemoryPoolProofs` proves, for all constants that meet
`SizeAssumption` and `NullAssumption`:

- `TypeCorrect`: Spec => []TypeOK.
- `PoolSafe`: if nSize does not wrap and the client has finitely many pointers
  (`NoWrap`), NoDangling, Accounting, PrevIsNullOrPredecessor and
  FreeFindsBlock always hold, for any number of blocks, pointers and units.
- `PoolAllocates`: if besides a block has at most two units, Spec => IsAllocator:
  every step of the pool is a step of UnitAllocator or none.
- `SingleUnitsLinked`: if a block has one unit, [](PrevIsPredecessor /\ fault =
  "none"): pPrev is what memory.h:15 says, and no call dereferences NULL.
  `pool_links` and `pool_prev` refute both for larger blocks.
- `ListAlwaysLive`: with finitely many blocks, the list holds exactly the blocks
  that are allocated, at every step of every call.

The properties are not inductive: that free finds its block needs the list to
hold every live block, and the walk not to have passed it. Reachability along
pNext is recursive, so `IInv` says it without recursion: there is a rank f of
the live blocks that pNext increases to the next rank in use (`OrderOf`), the
head has the least (`HeadFirst`), and a walk for a pointer stands at a rank not
above its block's (`Walk`). Four lemmas say how a rank survives an unlinking, a
push and a drop of the first; the counting rests on two lemmas about the
cardinality of what is held in a block (`HeldGain`, `HeldLoss`). One lemma per
group of actions then shows that IInv is kept. The refinement adds two parts to
IInv: that two pointers never hold one unit (`OneHolder`), and that a block has at
most one free unit, the one nFirst names, which nobody holds (`SpareUnit`). This
is where two units a block matter: the link in a free unit, which the client may
have written to, is then never followed. With one unit a block the walk that frees
finds a block it empties, so FreeMoveToHead, which leaves a pPrev behind, is never
taken, and `LInv` can ask of pPrev and pNext that they are inverse (`Doubly`).
ListAlwaysLive is the only one about the recursive walk: a live block it never
reached would have ever more blocks before it in the ranking.

`ListProofs` proves, for any number of heads and entries, all that `MCLists`
checks of list.h's lists and of the student list but that calls return. Its
theorems are of `MCSpec`, in which one kind of list runs.

- `LinksConsistent`: [](next and prev are inverse and stay on their list).
  `Rings` states it for a set of objects and a map to their lists; one lemma each
  says what the four primitive operations (init, insert between, unlink, splice)
  do to any set of rings, and the steps of KList are instances of them.
- `WalksMeetAll` and the refinement `ListsAreSequences`: MCSpec => IsSeqLists,
  call by call.
  Rings alone do not say that a list is one ring: two rings of one home satisfy
  them too, and then a walk would miss entries. `LInv` adds that there are
  sequences c with which the pointers agree place by place (`Threaded`); every
  operation does to these what SeqLists asks (`SeqStep`), and the contents that
  SeqLists reads off by a recursive walk are those sequences (`ContentsOf`
  unfolded at each number of steps).
- `StudentsLive`: [](what is linked is allocated, and so is the cursor's record).
  `SInv`: one sequence threads the head and exactly the records of the heap.
- `HashListsHold`: [](pprev names the field that points to its node; walks end
  and meet what is on the list). `HInv`: each chain follows a sequence
  (`Chained`). What `__hlist_del` writes to through pprev is the field that names
  the node, and no other field of any list does.

- `OrderAlwaysKept`: MCSpec => OrderKept. Each step makes of the sequences of HInv
  ones with a node more, a node less or none changed (`OneNode`), which keeps what
  comes before what (`OneNodeOrder`).
- `DeletesAlwaysAsTold`: MCSpec => DeletesAsTold. `DInv` adds to SInv what a running
  function has passed: a search, records of other names; del_all_stu, whole
  rounds (`Round`). A round begins with L records that were every d-th of the n at
  the call, (L + 1) * d = n + 1, and deletes every other one; if L is odd it goes past the
  head into a round of L \div 2 (`RoundGoes`), if L is even it ends there
  (`RoundEnds`). That Stride computes what remains is shown by constructing the
  function it defines (`StridesExist`, `OneStride`, `StrideIs`).

They need finitely many entries (`KListAssumption`): list_for_each over a ring
that has no end would not return.

`RBShape` and `RBTreeProofs` prove, for every finite set of nodes
with any keys (`FiniteNodes`), at every iteration of every loop of rbtree.c:
`PointersAlwaysAgree`, `AlwaysRedBlack`, `WalksAlwaysInOrder`, and the
refinement `TreeIsOrderedSet`: Spec => IsOrderedSet. Their invariant
`IInv` says of the tree at rest that there is for each node a set B[n], the nodes
of its subtree, made of the node and the sets of its children, in the order of
the keys (`Shape`), that no red node is under a red one (`RedOK`), and that there
is for each node a number of blacks that all paths down from it share
(`Heights`). While rb_insert_color runs, one red node may be too red; while
__rb_erase_color runs, one black is owed to one side of one node. The sets B
replace recursion: a step that turns, cuts or links says which two or three of
them change. `RBShape` has the assignments of each function and what they do to B,
what a descent finds in it, and what each case of the two loops does to colours
and heights; `RBTreeProofs` one lemma per action, and the
properties, which are read off by recursive functions, from B by induction on
sets that get smaller (`LeastSet`).
For the refinement each of these lemmas also says which nodes the tree has after
the step. The in-order listing, read off recursively, lists exactly the nodes
of B[root] by their keys (`InOrderLists`), and a set of nodes has only one such
list (`OneOrder`: of two, the misplaced node with the least key has no place). So
the list after an insertion, erasure or replacement is the one OrderedSet makes
with InsertAt, RemoveAt and an exchange (`ListedBetween`, `ListedWithout`,
`ListedExchange`), and an iteration of a loop, which keeps the nodes, keeps the
list (`LoopStutters`).

`ProgramsProofs` proves of the small programs, all of MCSpec, each for every
value of its constants:

- `SearchAnswers`: the binary search, in every sorted table of any size, with
  codes there several times, answers with the value of an entry with the key, or
  0 if there is none, and reads no index outside the table; `SearchShrinks`: each
  iteration leaves a smaller window. The invariant is that every place of the key
  is inside the window; sortedness moves it past the middle.
- `AlwaysSorted`: the sort. Its invariant carries a permutation from which entry
  each has come, keeps entries of one key in their order, and says that the
  largest so far stands at the place of the inner loop.
- `FirstAlwaysFound`: KMP and Sunday, for every alphabet and any length. Borders
  are stated without recursion (`b` is the longest border of the first m
  characters); that falling back to it passes over no match is one lemma that
  getNext's loop and kmp's loop share. For Sunday: a shift passes over no place
  where the pattern occurs.
- `FilesAlwaysRead`: md5's padding, and the settings. The blocks md5 has given so far
  are the first bytes of the file with its padding (`Padding`, `Given`), whichever of
  the two cases of the last block is met. After n lines of a configuration the setting
  is what the values of those lines leave when each is laid over the one before
  (`Laid`); a line that names another key, or none, changes nothing. The call goes on
  only as long as the values so far fit portal_sip (`Roomy`), and stops in "overrun"
  only at a line with a value that does not, or longer than the buffers of keys and
  values (`Crowded`).
- `TurnsAlwaysTaken`: the socket pair, for any bound on the numbers. The invariant
  says who holds which end, and that while both processes run one of four
  situations holds (the parent's turn, a number on its way, the child's turn, an
  answer on its way); a death leaves what it says about the ends.
- `StopAlwaysHolds`, `AlwaysRecordedInstalled`: the scripts, for any places for
  processes and any scene of deaths, calls and updates. The invariant says for
  each line of service and update.sh what the lists and counts read above it still
  say of the process table: who can have come or gone since. Of the watchdogs it
  says that without a race whoever has looked is alone and there is none (`Lone`),
  and that in a race there is at most one for each of the two that has started it
  (`Pair`).
- `UpdatesOnceADay`: the calendar, for any number of dates and any Turns from two
  on (with one turn it does not hold). The invariant has a part for each value of
  the flag: while an update is due, perDate is today and past startTime it is at
  most one turn away; when it is done, either today had it, or the change of date
  is seen within a turn or two, before noon or at once.

`EpollEchoProofs` proves `TypeCorrect`, `RecvNeverBlocks` and `OnlyWhatWasSent`
for any number of clients and requests and any size of events[]. What a batch
reports was true at epoll_wait and is used much later, after
clients have sent and died and other connections have been read and closed. The
invariant (`Batch`) is that the events of a batch are of different descriptors,
so that what the server does for one takes nothing from another, that none is of a
closed connection, and that what is reported stays readable until the server has
read it. It rests on the ready list holding a descriptor at most once, for which
lemmas say that appending what is new, taking the first and removing keep a
sequence free of repetitions.

`OnlyWhatWasSent` is []RepliesWereSent. All connections share buf and n, so a
reply may carry another client's request, and n may be another's: `RInv` says what
is left. A client has one request under way at most, and it is at one place: its
queue, the buffer, or owed by an armed EPOLLOUT (`Turn`); the replies it has are
requests somebody sent, its own in order, and its last is not among them as long
as one is owed (`Fine`); a client that has always been alone gets exactly its own
(`Own`).

`AcsmProofs` proves of the first machine, for any patterns, any alphabet and any
folding of the case, what `MCAcsm` checks of it, each as MCSpec => [](version = 1
=> ...): `FirstAutomaton`, `FirstRows`, `FirstSound`, `FirstComplete` and
`FirstCarried`. The argument follows the code:

- Words. `Longest(u, w, W)` says that u is the longest word of W that w ends in,
  `LongestProper` the longest but w itself; `LongestIs` and `LongestProperIs` tie
  both to the CHOOSE of AcsmRef. Two lemmas carry everything: `LongestNext` (the
  longest word of w and one character more is the one that the longest of w leads
  to) and `ProperNext` (the failure state of a child is where the failure state of
  its parent leads).
- The trie (`TrieOf`): after each pattern the states are the beginnings of the
  patterns so far, each once, the rows lead from a word to the word with one
  character more, and the match lists hold the patterns that are their states'
  words. A text is added by a fold over its bytes (`AddBytes`), followed place by
  place by `Added`.
- The pass (`Pass`): there is a set P of states that are done. Their rows are whole;
  their children have the right failure states and are done or wait; who waits
  is in order of the length of the words, over at most two lengths. `Frontier`, that
  a state which is not done has one waiting that is no longer, gives what Build_DFA
  relies on: the failure state of the head of the queue is done, so its row is
  whole when it is read (`NextFound`).
- The search (`Searched`): after each character the state is that of the longest
  word that the text ends in. If that word has a list, what is reported ended there;
  if no pattern lies inside another, a pattern that ends there is that word itself
  (`PatternReached`), so none is passed over.

It assumes that texts are sequences of inputs and the folding maps inputs to inputs
(`MCAcsmAssumption`), and of FirstComplete that no text is empty: an empty pattern
ends at place 0 already, before the first character is looked at.

`Acsm2Proofs` proves the same of the second machine, and with it each of the run's
invariants for both: MCSpec => []... for `Automaton` (`AutomatonAlways`), `Rows`,
`Carried`, `QueueKept`, `Sound` and `Complete`. It goes on from AcsmProofs:

- The trie is the first machine's with FAIL for -1. Build_NFA and
  Convert_NFA_To_DFA are two passes, each of which has half of what Build_DFA has:
  both are proved as passes over a table that is not in the code, which holds the
  rows the states that are done would have. Build_NFA walks down the chain of failure states;
  `The failure chain` says that the walk ends where the row of a
  done state would have led. The lists of the states not yet done are the trie's,
  those of the others are merged (`SecondInv`).
- The rows are read as what they were made from, for any alphabet and any
  transitions: `FullRowReadsBack`, `BandedRowReadsBack` (whose case without a
  transition stores the first index -1 in an unsigned word), `SparseRowReadsBack`
  and `SparseBandsRowReadsBack` by both lookups, for any limit of pairs or of
  zeros; the last by an induction over the number of bands that are laid. By
  `NarrowRowReadsBack` the words chosen for a number of states hold all of them. The
  flag, the second word of a row, changes none of it. So each format gives what the
  automaton says (`RowsAlways`), the NFA search by its failure loop.
- The state of a stream stands for the longest word it ends in, the stream without the
  current chunk if the search is one that writes the state only when it is stopped
  (`Streamed`, `CarriedAlways`).
- What a search has told (`FoundInv`): up to the last place it looked at, every
  report and every entry of the queue is of a pattern that ends at such a place
  (`Truthful`), and unless Match has stopped it, for every such place with patterns one
  of them, or all of them in the searches for all, was reported or is queued
  (`Thorough`). Queue and reports are followed entry by entry of a match list, through a
  queue that fills and is emptied in the middle of it: an entry is in the queue once,
  and the queue is below its limit between two characters (`Queueing`).

The hypotheses are named, and each is one the code needs:

- `Room`: the numbers of states stay below FAIL, the largest word;
- `QueueRoom`: AC_MAX_INQ, a constant of the code, is not 0;
- `ModesUsable`: a DFA in any format, an NFA in sparse rows or in bands, or a trie,
  which is not searched, with compressed states in full rows only. An NFA in banded rows does
  not work (the finding of `acsm2_modes`), one in full rows has lost its failure states when
  it searches;
- no text is empty, where `<<>> \notin Texts` stands: the pattern that is empty is in the
  root's list, which acsmx2.c merges into no other.

Only model-checked:

- Liveness under fairness, which the provers cannot do: CallsReturn, Served,
  Settles, Returns.
- Accounts, ListKept, FindsBlock, Allocates of the run `pool`. They join instances of
  the pool of several shapes; PoolSafe, SingleUnitsLinked, ListAlwaysLive and
  PoolAllocates are their parts for any shape but the one that wraps nSize, which is
  outside `NoWrap`.
- Converts: whole texts against a reference that is computed recursively.

## 5. Not modelled

- memory/main_test.c, acsm*/test.c, list_test/main.c: one sequence of calls each
  among those the models allow.
- acsmx2.c: acsmAddKey2, which no header declares; compressed states in the
  packed formats, which fill and flag rows of words byte by byte; alphabets under
  256; rule trees; statistics, printing.
- epoll_eg.c: set-up, its exits on errors, failing accepts, requests of more than
  one read (client.c sends 11 bytes), writes that fill a socket's buffer.
- scripts: `service status`, which prints; how versions are compared and
  packages downloaded; the parsing of watchdog.sh's configuration.
- encoded.c: the files its two programs write. encoded/*table.h: data. These
  four headers are 29,985 of the 37,605 lines of the repository, and the model
  of the tables is the order `CodeSearch` asks for and `TableSort` makes.
- read_config.c: what happens after a buffer is overrun, which is undefined.
  md5.c: the 64 rounds on a block, a fixed function of it.
- Hazards at lines outside the models: a unit size above 65532, which becomes 0
  (memory.c:16); texts longer than acsmx.c's static 64 KB buffer (442); buf[n]
  with n = BUF_SIZE (epoll_eg.c:155).
- mylog.c, file_num.c: input and output. iconv.c, gethostbyname.c, hyperscan/:
  calls of external libraries. redteam/: inline assembly over another system's
  structures. script_study.sh: syntax examples.

## 6. Plan

All components with a logic of their own are modelled, and all invariants but those
under "Only model-checked" are proved. What is left: in Acsm2, packed rows with
compressed states, alphabets under 256, and acsmAddKey2 if it gets a declaration.
