# A TLA+ development of sgl

sgl is a small SQL engine in C that reads SQLite database files and executes
`SELECT` statements over them. This directory holds TLA+ modules that model its
core, the TLC configurations that model-check them, and proofs checked by TLAPS.
Paths below are relative to the repository's `src/` directory.

## 1. The system

| component | source | state it keeps | operations |
|---|---|---|---|
| page cache | `src/pager.c` | slots (page number, buffer, valid, last use, pin count), clock | `pager_open`, `get_page`, `pager_release_page` |
| payload reading | `src/data_parsing/record_parsing.c`, `cell_parsing.c` | the cell, the buffer, position in the overflow chain | `read_cell`, `read_cell_and_record` |
| page parsing | `src/data_parsing/page_parsing.c`, `byte_reader.c` | none | `read_page_header`, `read_cell_pointer_array`, `read_varint` |
| rows and values | `src/data_parsing/row_parsing.c` | none | `read_cell_offset_into_row` |
| tree walker | `src/tree_walker.c`, `comparisons.c` | a stack of sub-walkers for each tree, `current_rowid` | `new_tree_walker`, `produce_row` |
| plan and operators | `src/planning/plan.c`, `filter.c`, `aggregate.c`, `projection.c` | `done` of the aggregate, the shared row | `build_plan`, `plan_next`, `plan_execute` |
| index choice | `src/planning/table_scan.c`, `resolver.c` | best index, its predicates, column positions | `make_table_scan`, `get_best_index` |
| schema lookup | `src/sql_utils.c` | none | `get_schema_record_for_table`, `get_all_indexes_for_table` |
| hash map | `src/utilities/hash_map.c` | buckets, size, used buckets | new, set, get, contains, keys, free |
| parser | `src/parser.c`, `ast.c` | current and previous token, ring of look-ahead tokens, error flag | `parse`, `parse_create`, `parse_create_index`, `parse_new` |
| lexer | `src/lexer.c`, `token.c`, `trie.c` | start and current position, trie of reserved words | `scan_token` |
| memory | `src/arena.c`, `memory.h` | buffer, capacity, offset; vectors | `arena_alloc_aligned`, `vector_*_push` |
| commands | `src/main.c`, `commands.c`, `common.c` | none | printing |
| superseded walker | `src/new_tree_walker.c` | none: the file is one comment | none |

**How they interact.** Everything runs in one thread. `command_sql` reads the statement
with `parse`, whose tree is executed, then again with `parse_new`, whose tree is only
printed; both pull tokens from `scan_token` through a ring of look-ahead tokens. `build_plan`
looks the table and its indexes up in the records of page 1 and reads their `CREATE`
statements with `parse_create` and `parse_create_index`. `plan_execute` pulls rows from
the projection, which pulls from the aggregate or filter, which pulls from the
table scan; the scan's `produce_row` steps the sub-walkers; each step reads
cells through `read_cell`, and rows through `read_cell_and_record`; and those take
every byte from the page cache. The cache's slots are shared by all of them: a
pointer into a slot is only as good as the pin on it, and a cache hit does not pin.

**What is hard here.** There is no concurrency and nothing is written to disk, so the
hazards are those of shared buffers and of long sequences of calls:

* a `get_page` by one function while its caller still uses the page it got (the slot
  may be given away: hits do not pin, yet every release unpins);
* pins that would leak, or would be taken from another holder, in nested use;
* positions left behind by one `produce_row` that decide what later ones can
  still reach, in a walk that never goes back;
* searches whose position is off by one at the end of a page;
* the end of a scan inferred from a rowid that is not found;
* a plan whose parts (best index, the predicate given to it, column positions, the rowid's
  place) are computed apart from each other and meet only in one shared row;
* a parser that looks up to several tokens ahead in one function and advances in another;
* a map that moves all its nodes while it keeps three counts of them;
* lengths, remainders and signs at the limits of a record format;
* errors, which all end the process (`exit(1)`) at the place they are met.

`PROJECT.json` lists each at its line.

## 2. Modules

| module | models | kind |
|---|---|---|
| `Pager` | the page cache, with the most general caller | component |
| `PagerProofs` | the invariant of `Pager` and its theorems | proofs |
| `PayloadStore` | "a request is answered with the cell's payload" | abstract |
| `PayloadReader` | `read_cell_and_record` over `Pager`, implementing `PayloadStore` | composition |
| `PayloadReaderProofs` | the reader is a caller `Pager` allows, and its payloads are exact | proofs |
| `NumberLemmas` | least numbers, induction, recursion over decreasing arguments, iteration, ordered lists of numbers | lemmas |
| `RowCursor` | "the rows of an answer, in order, once each, then the end" | abstract |
| `TreeWalker` | full and index scans, implementing `RowCursor` | component |
| `TreeWalkerProofs` | stacks are paths, pages are walked once, rows come in order, a scan returns its answer | proofs |
| `QueryPlan` | what `build_plan` makes of a statement, as operators | algorithms |
| `Query` | the pipeline of operators over `TreeWalker` | composition |
| `QueryAnswers` | SQL's answer, and how far `Query` gives it | properties |
| `QueryProofs` | an execution walks as `TreeWalker` does, invents no row, and gives plain statements SQL's answer | proofs |
| `TokenStream` | the ring of look-ahead tokens | component |
| `Parser` | all parse functions over `TokenStream` | composition |
| `ParserProofs` | the ring holds the next tokens and is large enough, whatever the parsers do; columns are those declared; spans are tokens scanned | proofs |
| `StatementReading` | a reference grammar, and what the parsers promise | properties |
| `Trie` | the trie of reserved words | component |
| `Lexer` | `scan_token` over `Trie` | composition |
| `LexerProofs` | the words found, and how tokens cut the text | proofs |
| `Bytes` | big-endian integers and varints, bytes of any width | algorithms |
| `RecordReader` | from a page's bytes to a row | component |
| `FileFormat` | how SQLite writes those bytes, and what is read back | reference, properties |
| `Dictionary` | "a partial function from keys to values" | abstract |
| `HashMap` | the chained map with growth, implementing `Dictionary` | component |
| `Arena` | the arena of the syntax trees | component |
| `MemoryProofs` | blocks lie apart; the map implements `Dictionary` | proofs |
| `MC...` | small instances for TLC | model checking |

**Pager.** `pages` are the slots, with `data` standing for the number of the page whose
bytes are in the slot's buffer. `GetPage(p)` is `get_page`: `Hit` is its first loop,
`Miss` is `find_suitable_cache_index`, `evict_cache_entry` and `read_new_page`, with both
ways to exit. `Release` is `pager_release_page`. `held` is what the callers hold; the
most general caller is given by `CallerGets`: calls nest, at most two pages are held,
and they are different. `exit` names the error path taken; `asked` is a history of when
each page was last asked for. `pager_open` ends by reading the header of page 1,
which is an ordinary get and release and is left to the callers.

**PayloadReader** is a particular caller, one action per cache call or copy. The
bytes copied are those of the page in the slot *now* (`SeenPage`), not of the page that
was asked for, so that a slot given away would show. The first `memcpy` takes
`payload_size` units although only `local_bytes` belong to the cell, as in the code; where that
reaches beyond the last slot's buffer (`PastCache`) the copy takes whatever is there, for the
overflow to replace, or ends the process (`CrashInCopy`). The
property `UsesPagerAsAssumed` says that every behaviour of the reader is one of `Pager`,
which justifies the caller assumed there. The file is a constant: `Cells`, the `Link` at the
start of each page and the `Chain` of pages each payload continues on; `CellsAssumption`
says that they fit together, as in any file SQLite wrote, except that pages may be
unreadable.

**TreeWalker** has one action for each step function and one for each turn of
`produce_row`. A sub-walker is its page and its `current_index`. The binary searches
are the code's, as recursive functions, including where they stop (`LastProbe`,
`IndexSearch.mid`), since the code acts on that. `begin_walk` exits on a page with no
cells (`Walkable`). A cell that is not `readable` is one whose record ends the process when it
is decoded: a REAL or a BLOB anywhere in it, or, in an index, NULL or 0 in the first column
(`UnreadableRow`, `Unreadable`). Keys are numbers up to `LastNumber` and texts above it, and
what is searched for is a text: the search passes numbers over (`Accepts`), but where it ends at
one, `leaf_index_step` reads the number as a text (`NumberReadAsText`). Pages are read directly: that they come out of the cache intact is
what `PayloadReader` is about. `TreesAssumption` says what any file SQLite wrote is like:
cells are of their page's type, children are pages, no page is a child at two places or
below itself, and roots are nobody's children. Nothing is assumed of the order of keys:
most of what is proved holds without it. `OrderedTrees` says what the format promises of the
order in tables and indexes; it is a premise of the theorems about `Answer` only, and
`MCTreeWalker` has TLC evaluate it on the trees that are run (`OrderAssumption`).

**QueryPlan and Query.** `QueryPlan` follows the schema lookups, `get_best_index`,
`collect_index_predicates` and the resolver over an abstract schema, with the records of views
and triggers, whose reading ends the process (`TreelessRead`), and over the expressions
`parse` can make. The lists of conditions that are run are more than it makes: a string is the
last operand `parse` reads. Values are texts, integers, NULL and the REALs and BLOBs that cannot
be read (`Other`). `Query` has an action for each operator's turn: `ScanStep` is a step of
`TreeWalker` (an INSTANCE of the module above, with its own positions), `Filter`,
`Aggregate`, `Exhausted` and `Project` act on the one `row`, which `Project` overwrites in
place. `stage` is the operator at work or how the statement ended: "end", "exit" (an error
path), "crash" (a NULL dereference or an assertion) or "undefined" (memory nobody wrote or
beyond an array). `FilesHoldTables` ties the pages to what they store: a table's tree has a row
for each record, an index's an entry for each, in order of all its columns and then the
rowid (`Precedes`). What a function in a select list would do is modelled although
`parse_new` ends the process before (see run `count`): the operators exist for it. Nothing sets
an aggregate's `agg_type`, so it may be `AGG_COUNT` (`Aggregate`) or not
(`UnrecognisedAggregate`).

**TokenStream and Parser.** A token is its place in the text. The text is not chosen in
advance: each time the scanner is asked for a new token, any token may come that
`NextTokens` allows. A parse function is a sequence of instructions (`Consume`, `Match`,
`Switch`, `Look`, `Call`, ...), one for each thing the code does to the stream, and `todo`
is the C stack; the actions of `Parser` execute one instruction each. A `Node` records the
tokens between its first and its last, so that what was read can be compared with what was
written. `Continue` and the error paths follow `error_at`, which exits. In `parse_term` a
string is not advanced past: whatever follows it is never read.

**Trie and Lexer.** The trie is an array of nodes of bounded size, filled word by word
from the table in the order of the table. A call of `scan_token` is one action for each
kind of token; the text is a sequence of characters chosen initially. `overrun` is the read
past the NUL of a text that ends behind `x'`.

**Bytes, RecordReader and FileFormat.** Every byte of a page is there, but a byte has
`ByteBits` bits and `UsableSize` is a constant: signs, varints of one to nine bytes, the
payload limits and the splitting onto overflow pages all depend on widths only relatively.
`RecordReader` reads header, pointers, one cell, its payload, the record's header, and one
column at a time. `FileFormat` writes what it is told is stored, by the format's rules and
not by inverting the reader (the local bytes are *the largest size that fills the overflow
pages*, a varint the shortest one), and states that the two agree.

**HashMap and Arena** have an action for each call. `answer` holds a call with what it
returned, which is what `Dictionary` speaks about. Allocation fails in `HashMap` only where
the size cannot be had at all (`SizeMax`), in `Arena` at every allocation that does not fit,
where `arena_alloc_aligned` returns NULL, and at the first buffer: `arena_new` goes on without
one but with the capacity it asked for, and the first block is then at NULL
(`AllocateFromNull`), which `arena_alloc_aligned_checked` exits on.

Components that share nothing are checked in one run: `MCPagerAndCodec` has the page cache and
the reading of bytes, `MCLexerAndMemory` the scanner, the map and the arena. Each behaviour uses
one of them, chosen by `subject`.

A definition whose comment begins "Wrong:" is a faulty variant of the one it stands
next to; `PROJECT.json` pairs each property with the variant that must break it.

## 3. Runs

| run | question | bounds |
|---|---|---|
| `pager_and_codec` | cache: do pages stay where they were loaded, do pins balance, is the cache LRU? codec: are rows, cells and page headers read as they were written, and what cannot be read? | cache: 3 slots, 5 pages, one unreadable, 7 calls of `get_page`; codec: bytes of 3 bits, usable size 480, all rows of one or two of 27 values with every serial type at the limits of its width, payloads up to, at and over each limit, rowids with varints of 1 to 9 bytes, schema records |
| `payload` | is every payload exact, does every read end, is the reader a caller `Pager` allows? | 2 slots, 7 pages, 5 cells, chains of 0 to 3 pages, one of them full to the last unit and one unreadable, 4 reads |
| `walker` | which rows does a scan return, in which order, and does it end? | all tables of up to 8 rowids in trees of 1 to 3 levels, indexes of 5 to 7 entries in 4 shapes, keys NULL, a number and two texts |
| `full_scan_gap` | does a full scan return every row? | as `walker`: violated |
| `leaf_keys` | does an index scan return every matching entry of the leaves? | as `walker`: violated |
| `query` | is a statement answered as SQL would, whichever index is chosen? if not, how wrong can the answer be? does it end? | a table of 3 rows on 2 leaves, up to 2 indexes of 0 to 2 columns, 2 or 3 columns, NULLs, numbers, unreadable values, short records, 11 select lists, 24 lists of conditions, an empty and a missing table, a view or a trigger, a gap in the rowids, an index split onto two leaves |
| `parser` | do the parsers accept what can be executed, agree with each other, name the declared columns, keep the ring in step, and end? | every text of up to 9 tokens over 10 types; a corpus of some 90 statements that reach every parse function, each with at most one token replaced by one of 7; a ring of 4 |
| `count` | does `SELECT count(*) FROM t` get past the parsers? | violated |
| `grammar` | does `parse` read the statements of `grammar.md`, to their end? | statements of one selected expression and up to two conditions, of up to 14 tokens: violated |
| `lexer_and_memory` | scanner: is a text cut into lexemes that tile it, are exactly the reserved words found? map and arena: is the map a dictionary through collisions and growth? are blocks aligned and apart? | scanner: all tables of up to 3 of 5 words in a trie of 5 nodes (too small for some); with one table every text of up to 3 of 14 characters and of up to 5 or 6 of smaller sets; map: 5 keys, 2 values, load 3/4, capacities 1, 2 and 4, `SizeMax` 7; an arena of up to 31 bytes, 4 blocks, sizes 0, 1, 5, 30, alignments 1 and 4, one move |
| `quotes` | is a quoted token what stands between its quotes, a blob whole bytes in hex? | the scanner's: violated |
| `signed` | is every integer read with its sign? | the codec's: violated |

*Why the bounds are enough.* With three slots and two holders there is exactly one slot
that can be evicted while both are pinned, and five pages make every order of hits,
loads and evictions happen; seven calls fill the cache, evict, reload and hit again while
holding. The `payload` cache of two slots is the smallest `Pager` allows and the
overflow chain is longer than it, so that the page held outside loses its slot while
the chain is read. The trees have leaves with one and two rows, the search loops run
zero to two rounds, and walks go down, across and up through two interior levels.

Three rows on two leaves are the fewest for which an index search, a row refused and a walk
across leaves happen in one statement; a choice between indexes needs two. Nine tokens hold a
comparison, a function call, a second column or a second condition in either list, so every
production of `parse` is met where it can stand, and the corpus combines them; `parse_new` looks
at most three tokens ahead, and the ring of four wraps after four. With bytes of three bits a
64-bit integer has 24 bits, so that every number stays within what TLC computes, and pages of
480 bytes have both limits on local payloads (94 and 445) and the remainder formula above and
below its cap, on pages short enough to enumerate. In `lexer_and_memory` keys collide at every capacity,
the map grows from one bucket to two, to four and then to an array that cannot be had, and the
arena's requests fit, make it grow, overflow `SIZE_MAX`, and are repeated after a reset.

Deadlock is checked in every passing run. `PayloadReader`, `TreeWalker`, `Query`, `Parser`, `Lexer`
and `RecordReader` have a step that stays where they ended, and the callers of the cache, the map
and the arena may always stop calling: a process that exited, a freed map and an allocation that
never returns really stop.

*Fairness.* `PayloadReader`, `TreeWalker`, `Query` and `Parser` assume weak fairness of their steps: the
code is sequential, never waits for anything, and its caller asks until it is told
there is no more (`plan_execute`). The others assume none and no liveness is claimed of them.

### What the runs show

* The cache is right for callers that hold at most two pages, and for the actual reader.
  A page that was *found* is not protected (`LoadedStays` is stated for loaded ones
  only); what saves its user is that nothing else is got before it is done with.
* `read_full_payload` always finds its cell's page in the cache, so it is never pinned
  there and can be evicted by the overflow chain; the payload is right because the
  local part was copied first.
* A scan returns exactly `Answer`: for a full scan, the rows before the first gap in the
  rowids; for an equality on an index, the matching entries of the first leaf that has
  any. The process ends early for a page without cells (an empty table or index) and where a
  record that is met cannot be decoded (a REAL or BLOB anywhere in it, an index entry that
  starts with NULL or 0); and a search that ends at a number compares it as if it were a text,
  which is undefined.
* That answer is less than the comments promise, in two ways, each with a run of its own: rows
  after a gap (`tree_walker.c:33,41`) and matching entries of later leaves
  (`tree_walker.c:20-21`). Entries on interior pages of an index are not returned either; no
  text of the repository says that they should be (`notes.txt:79-81`).
* A statement is answered as SQL would answer it when its conditions are equalities with
  literals (or of two columns in no index), on columns that hold texts and NULL in the BINARY
  collation; when the records are whole and have no REAL or BLOB, and everything indexed is a
  text; when the schema has no index of SQLite's own on the table and no view or trigger that is
  read: any at all ends a statement with conditions, one before the table's record any other;
  and when the rowid's column is selected first exactly when
  the table's first column is called `id` (`PlainWhere`, `PlainTable`, `PlainSelect`); the
  choice of the index makes no difference then. That class must also leave out what the scan loses: a
  table with a gap in its rowids, entries on an interior page or on a second leaf
  (`ScannedWhole`), and an index searched for a condition on another column than its first
  (`SearchedFirst`). Beyond that class an answer may lack rows
  (a condition with < or > answered by an index, a predicate on the wrong column of an
  index, NULL = NULL taken for true only where the filter sees it) but never has a row the
  conditions refuse, because the filter compares again (`NothingInvented`). < and > on
  texts are those of `common.c`: both true of texts that differ within their common length.
* No `count` is ever printed. Today `parse_new` ends the process on
  every function call, although only `parse`'s tree is executed (run `count`, `README.md:11`).
  Past that, nothing sets the `agg_type` that `aggregate.c:53` switches on (`make_function_expr`,
  `parser.c:163-168`); and if it happens to be `AGG_COUNT`, the aggregate returns its one row
  (`AggregateOnce`), but `get_projection_indexes` (`resolver.c:193`) has skipped the function, so
  that the row is printed without it. When the scan found no row, the aggregate frees values
  nobody wrote.
* `parse` accepts exactly `SELECT list FROM name [WHERE list]`, conditions separated by commas,
  and what follows (a
  `GROUP BY`, or anything at all) is left unread without an error; so is what follows a
  string in a condition. `grammar.md` describes another language: integer constants, which
  `parse` exits on, and `AND`, operators one after the other and `!=`, at each of which it
  returns as if the statement were over, so that conditions are dropped (run `grammar`, whose
  trace ends at an integer). `parse_new` reads the plain clauses to the end and agrees with
  `parse` on the table and the columns.
* Lexemes tile the text. Against its comments (`lexer.c:319`, `328-329`), the scanner takes the
  last character from a quoted identifier and neither tests nor counts a blob's first digit
  (`TakenBetweenQuotes` in the run `quotes`, whose trace is of an identifier); line ends inside quoted identifiers are not counted.
* Rows are read as stored, with these exceptions: negative integers of
  24 and 48 bits are read as positive ones, against the comments at `record_parsing.c:131`
  and `141` (run `signed`), all print unsigned, a text prints up to its first zero
  byte. The process exits on exactly: a float or blob anywhere in the record, an index
  entry that starts with NULL or 0, rowid 0, and a schema record without a root page (a view).
* An allocation from an arena that was freed never returns (capacity 0 doubles to 0); it is
  modelled as a status and nothing in the code does it.

## 4. Proofs

All theorems are about every value of the constants. The modules below hold them; each
states its inductive invariant first, as a conjunction of named parts, and has one lemma
or step for each action.

**The cache** (`PagerProofs`). For any set of pages, any readable subset of it and any capacity
of at least two, `IInv` is an invariant of `Pager`, and every invariant of `Pager` that the run
`pager_and_codec` checks follows. The invariants alone are not inductive: that the page got last is current
(`LatestGetCurrent`) and that loaded pages stay need to know that the pages held are distinct
(`HandlesDistinct`), that the times in `asked` are those of calls that happened
(`AskedInOrder`), and that what is got inside is got later than what is held outside
(`InnerIsLatest`). `NeverExhausted` follows because a pinned slot belongs to a loaded handle, at
most one handle is held when a page is got, and there are two slots. `RecentPagesStay` is that
the cache is LRU but for one slot: `CacheInv` says that whenever a page that was asked for is
gone, every slot but one holds a page asked for later, so that at least `capacity - 1` different
pages were asked for since (an injection from slots to pages).

**Reading payloads** (`PayloadReaderProofs`). Every step of the reader is shown to be a step
of `Pager`'s most general caller or to leave the cache alone. The invariant this needs,
`RInv`, adds to `IInv` what is held at each point of the code (`HeldAtPc`: nothing, the
cell's page, or the cell's page and an overflow page) and that the overflow page is never a
cell's page (`CellAtPc`). `ReaderIsCaller` follows, and with it every theorem of `PagerProofs`
holds of the reader; so do `IdleReaderPinsNothing` and `ReaderNeverExhausts`.
`PayloadsAreExact` then rests on `PInv`: the first `bytes_read` units of the buffer are the
payload's, and while some are missing `bytes_read` is the local part plus `n` full overflow
pages and the next page is the chain's page `n + 1`. That what is copied is what was asked
for comes from `LatestGetCurrent`: each copy is made before anything else is got.
`ReaderImplementsStore` is the safety half of the refinement: a read's last step is
`PayloadStore`'s answer, its first the request, every other one a stutter.

**Scans** (`TreeWalkerProofs`). For every forest of pages, whatever the order of its keys, and
every predicate, `WalkerInv` is an invariant: a stack is a path down its tree (`IsStack`,
`IsPath`); the pages not walked yet are those *ahead* of the positions on it, and what is ahead
only shrinks, also when the index stack is pruned or a page is pushed (`IsAhead`, `IsNarrowed`,
`Descended`); nothing is ahead on both stacks (`BothAhead`). `TypeOK`, `PagesWalkedOnce` and
`StacksArePaths` follow, including that the searches never leave the cells of a page:
`FirstKeyAtLeastRange`, `LastProbeRange` and `IndexSearchRange` prove of the code's three binary
searches what they may return. `RowsComeInOrder` adds `RowsInv`: the rowid looked for is larger
than those of all rows returned. So no row comes twice or out of order, even where keys are not
sorted; what then goes wrong is that rows are missed.

That none is missed which `Answer` promises is `ScanAnswers`, the safety half of the refinement
of `RowCursor`: where the trees are in order (`OrderedTrees`) and every predicate is an
equality, each step of the walks produces the next row of the answer, ends at the last, fails
where the file is not sound, or is a stutter. Order on a page, and of the pages, is what makes
the binary searches right, not only in range: what they pass is smaller than what is looked for.
`AnswerInv` says what is still to come. `TableInv`: while the table is walked, every row from
the one looked for on is left to its stack, unless it is known to be missing. `FullScanInv`: the
rows before the current one have been produced. `IndexScanInv`: the index is searching with
every match left to its stack, or stands at an entry of the first leaf that matches with the
matches before it produced, or has nothing left. Without what is *left* the answer is not
inductive: a row may be missing from the answer long before the scan ends. `FirstRowsOfAnswer`
states it for each file and predicate by itself, as `Query` needs it.

**Execution** (`QueryProofs`). `ExecutionWalks` shows that what `Query` does to the scan is a
behaviour of `TreeWalker` over the trees the plan chose, so the scans' theorems hold of every
execution. `NothingIsInvented` rests on `AnswersInv`: the row at hand is a record found by the
scan with the rowid it was found at, what left the filter was accepted, and what was printed
are records accepted by the conditions in increasing order of rowid (`PrintedFrom`). It holds
for every schema, every index, and every statement without an aggregate.

`AnswersAreExact` adds the other direction for plain statements. What is printed are the rows
accepted among the first `n` found, where `n` is all but the row at hand (`PrintedSoFar`); the
rows found are the first of the scan's answer (`FirstRowsOfAnswer`), and all of it when the
statement ends (`EndInv`). A row SQL prints is then in the answer of a full scan, or an entry
for it matches the index predicate, whichever index was chosen, and the filter accepts it
exactly when SQL does. `AliveInv` says that the process does not end before. The row the
operators share is the one found last (`RowInv`): projection overwrites it, but only after the
filter and the aggregate are done with it. The theorem is about plain statements on plain tables
and no others: `FilesHoldTables` admits any values, and records that cannot be read, but the
premises leave out what ends the process or changes the comparison. `AggregatesReturnOnce` rests
on `OnceInv`: an aggregate's row is either printed or still to be projected once `done` is set,
and nothing else is ever projected.

**Look-ahead** (`ParserProofs`). `StreamInvariant` is proved of `Parser`, for any size of the
ring and any token grammar: the token ahead by `i` is the one behind that ahead by `i - 1`
(`Chain`), the scanner stands behind the last, and nothing is scanned past an EOF
(`OneEnd`). Each instruction does one of four things to the stream (`StepInv`): nothing, fill
the ring, advance, or start again; so no property of the grammar is needed.

**Reading statements** (`ParserProofs`). `ColumnsAreDeclared` holds for texts of every length.
Its invariants, `CreateInv` and `IndexInv`, name the points the two functions can be at
(`AtColumn`, `AtName`, `AtRest`, ...) by what is left to do there, and say of each which
definitions have been named (`Listed`) and what the tokens before are; neither function ever
looks ahead (`Forward`), so that the current token is the last one scanned. At the end, what was
named are the tokens behind the first parenthesis and the commas, which is what `Declared` means
once the parentheses before them are counted. `TypesAreKept` and `LooksFitTheRing` hold at any
depth of calls. An instruction is `Calm` if it, and all it can put before the rest, closes no
node, calls functions that exist and looks at most three tokens ahead; every function of `Rules`
is made of calm instructions (`RulesAreCalm`). `PlacesInv` says that what is left to do is calm
but for the nodes that are open, each opened at a token scanned; as the text only grows, the
spans of closed nodes stay inside it.

**Scanning** (`LexerProofs`). For any alphabet, any table of words and any texts. `TrieInv` says
that the trie is a tree whose every node spells a word of its own (`IsSpelled`) and that the
ends of words are exactly the words inserted so far, each under its last type (`IsFilled`);
`ReservedWordsFound` follows, since a word's path ends at the node that spells it
(`PathIs`). `TokensTile` rests on `TileInv`: each call of `scan_token` takes up where the last
token ends, goes over blanks and comments only (`SkipIs`), and counts the line ends it should
(`LinesAdded`). There is one lemma for each kind of token (`IdentifierScanned`,
`StringScanned`, ...); it also shows the token to be a lexeme, and the longest where that
is promised, which gives `TokensLexed` with `LexemeInv`: nothing is scanned past the end or an error.

**Memory** (`MemoryProofs`). `BlocksNeverOverlap` follows from `ArenaInv`; its lemmas are about
doubling a capacity below `SIZE_MAX` (`GrowArenaCapacityReaches`) and aligning an offset.
`MapInvariant` is proved for every hash function, load factor and set of keys: the nodes of
all chains are as many as `size`, each is in the chain its key hashes to, no key is there twice,
and the buckets in use are as many as counted. The lemmas under it are about `AllNodes` and
`Rehashed`, which go over the buckets one by one: each is shown to be a bounded iteration, and
then, by induction on the rounds, to lose no node and to keep the counters.
`MapImplementsDictionary` maps the map to the function it stands for (`Contents`): a call of
`hash_map_set` changes one key, growth changes nothing, an answer is the function's.

**Numbers** (`NumberLemmas`). The library's induction theorems take operators, which the
provers cannot instantiate, but a *set* of numbers can stand for a property of numbers. So
`EveryNumber` is induction, `TailRecursion` says that a function that goes on at arguments of
smaller rank is defined and `TailRecursionResult` what it can return (the searches), and
`Iteration` that a fold over `1 .. n` is what a loop of `n` rounds computes (the buckets). A
finite set of numbers can be listed in order (`CanBeListed`), in one way (`ListsAgree`), and
an increasing list of all its members is that one (`ListsComplete`): the answers of scans and
statements are such lists.

*Assumed:* in `Pager`, `PagesAssumption` and `CapacityAssumption` (the code guarantees a
capacity of 16, `MIN_CACHE_CAPACITY`); in `PayloadReader`, `CellsAssumption`, `BoundsAssumption`
and `NoneAssumption` (the value for "no payload" is not a payload); in `TreeWalker` and `Query`,
`TreesAssumption` and `FilesAssumption`, which say of the trees read what the file format says
of all (`FilesAssumption` adds that the rowids on the table's leaves are those of its records,
that literals are texts, and that a list of conditions is a list); in `HashMap` and `Arena` the ranges of their
parameters (`HashMapAssumption`: a positive load factor, capacities below `SIZE_MAX`);
`TrieAssumption`, `LexerAssumption` and `ProbesAssumption`: reserved words are made of letters,
as those in `lexer.c` are, none has the type of a number, a string or the end of the text,
letters, digits and the other characters differ, and a text has no NUL before its end. Premises
of theorems are `TokensAreStrings`, which says no more than that tokens have types, in
`ParserProofs`; a ring of at least three in `LooksFitTheRing` (the code has 4,
`TOKEN_BUFFER_SIZE`); and in `ScanAnswers` that trees are in order and predicates equalities
(`OrderedTrees`, `EqualityOnly`; with < or > an index scan misses most of what it should find). `FilesHoldTables` in
`Query` says the order of each table and index a statement scans. TLC evaluates all `ASSUME`s on
the instances it checks.

*What proving found in the model.* `CASE` with arms that overlap (NULL = NULL in `Compare`, a
record that is local and spilled in `ContentSize`, `Init` of `Query`) leaves open which one is
taken, although TLC takes the first: these are disjoint now. `NothingInvented` used to bound
rowids by a number that a file can exceed. `MCQuery` ordered index entries by their first column
and the rowid only; ordered by all columns, as SQLite orders them, an equality on the first
column of an index of several loses rows when the rowids go back (`ScannedInOrder` in
`QueryAnswers`, the hazard at `tree_walker.c:500`). `TokensTileText` let the line end that a
blob may hide pass behind an `x` only: behind an `X` it is hidden as well. `AnswerExact` left
out too little: it held on the instances, but not of a statement with a condition on no column
at all, nor of one whose first condition is on another column than the searched index's first
(`PlainCondition`, `SearchedFirst`). `ColumnsAsDeclared` compared a list with a set that was
sorted for it; `Names` says what is meant, that the columns are those places in increasing
order.

*Only model-checked:* what the parsers accept and how their trees compare
(`AcceptsSelectLanguage`, `ParsersAgree`, `SupportedIsReadWhole`: comparisons with a grammar
and a corpus that are enumerated up to a bound, through calls nested to any depth);
`FileFormat`, which compares the reader with what was written, byte for byte, over folds
nested in folds and powers of two, of which the provers know nothing but their values at
literals; and all liveness (`Terminates`, `ScanEnds`, `StatementEnds`, and the fairness of
`ImplementsStore`), which needs fairness and `ENABLED` and is out of the prover's reach.

## 5. Plan

Every component the code runs is modelled, and the invariants that can be stated without a bound are
proved. No module declares a RECURSIVE operator, so what is left could be proved in
place: that a varint read is the one written, once the laws of powers of two are to be had, and
that a statement `parse` accepts is a sentence of the grammar at every length, for which the
grammar has to be stated without its bound first.

## 6. Not modelled

* Printing: `ast.c` but for its two column collectors, `.dbinfo` and `.tables`, `print_row`'s
  separators, everything that goes to stderr. It is output only, and no property is about it.
* Argument handling in `main.c`.
* `new_tree_walker.c`: a comment from its first line to its last.
* `get_index_comparisons`, `get_root_page_of_first_matching_index`: called by nothing.
* Schemas that do not fit on page 1: the code looks at no other page, so a model of the
  rest of the schema would have no actions.
* File positions (`pager.c:170`): pages are read by number.
* Failures of `malloc` but for those of the arena and `SizeMax` in the map. Most are followed by
  an exit; not checked at all are the cache's slots and buffers (`pager.c:105-106`) and the bytes
  of a blob literal (`parser.c:663`). The release of memory. The vectors of
  `memory.h` are sequences; they grow by the `grow_capacity` that `HashMap` models.
* Pointers into the arena kept across a move of its buffer: `Arena` knows the blocks and the
  moves, but not who still holds which pointer.
