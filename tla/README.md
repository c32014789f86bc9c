# DINAMITE in TLA+

DINAMITE is an LLVM pass that inserts calls of a logging library into a program, and that
library. This directory models the parts of it that keep state shared between processes or
threads, checks them with TLC and proves the central results with TLAPS.

## The system

| part | source | state | operations | properties that make it correct |
|---|---|---|---|---|
| id maps | `IdMap.hpp` | map file, chunk pool file and their `.lock` files; per compiler `id_map`, `new_id_map`, `curchunk` | constructor, `getId`, `saveMap`, destructor | an id denotes one string; a chunk is used by one compiler; saved names stay; ids are not wasted |
| pass driver | `access_instrument.cpp` | `argLogSet`, `currentFunction`, the module being rewritten | `runOnModule`, `instrument*` | each event is inserted where the filter says, arguments are logged once, `logInit`/`logExit` enclose the run |
| filter | `InstrumentationFilter.*` | parsed filter file, `functions` (sizes), the size file | `check*Filter`, `checkFunctionSize`, destructor | blacklist beats whitelist, best match, sizes of all compilers are kept |
| log function table | `LogFunctionManager.*` | `Function` pointers | `loadFunctions`, selection by type | a function for every width, or the pass stops |
| metadata crawler | `MetadataCrawler.*` | visited set, class and field tables | `crawlModule` | terminates on cyclic debug info; every field of a class is found once |
| allocation definitions | `AllocDefs.*`, `alloc.in` | list of definitions | `loadAllocDefs`, `getAllocDef` | the definition of a function is found; its columns mean what `alloc.in` says |
| metrics | `Util.cpp` | none | `getFunctionLOCSize`, `longestPathSize`, `checkFunctionLoops` | the path size is that of a longest path; terminates on loops |
| binary trace library | `library/binaryinstrumentation.c` | `next_id`, `tls_key`, and per slot `entries`, `current`, `out` | `logInit`, `logExit`, `log*` | slots are private; entries are complete, in order, attributed to their thread |
| text trace library | `library/textinstrumentation.c` | `out` | the same | nothing is lost between a `logInit` and its `logExit` |
| null trace library | `library/nullinstrumentation.c` | none | the same, empty | - |
| clock | `library/dinamite_time.c` | none | `dinamite_time_nanoseconds` | - |
| JSON | `json11.*` | none | parse, dump | vendored |

How they interact: a build runs one compiler process per source file, many at a time. Each
constructs four `IdMap`s (files, types, variables, functions), each with its own map and pool
file; these files are all the processes share, besides the function size file of the filter.
The pass driver asks the filter, the crawler and the metrics what to instrument, draws an id
for each string it mentions, and inserts calls that carry the ids. After the last function it
saves the four maps; the destructors give the chunks back. The instrumented program then runs
with one of the trace libraries: every thread calls its `log*` functions, static initialisers
(`_GLOBAL_*`), `main` and calls of `exit` call `logExit`. A reader of the trace decodes the
ids with the map files.

Hard to get right: the compilers' interleavings on the pool and map files, compilers that die,
locks that fail; threads that get their slot in any order while one of them ends the program;
`logExit` being called more than once; files that cannot be opened. `PROJECT.json` lists these
as hazards, at their lines.

## Modules

| module | what it is |
|---|---|
| `IdMap` | `IdMap.hpp` with any number of compilers: state, actions, properties |
| `IdRegistry` | what the id maps promise, without processes, chunks, files or locks |
| `IdMapProofs` | theorems about `IdMap`: the chunk pool, the map file, and the refinement of `IdRegistry` |
| `MCIdMap` | `IdMap` for TLC |
| `BinaryTrace` | `library/binaryinstrumentation.c` with any number of threads |
| `BinaryTraceProofs` | theorems about `BinaryTrace` |
| `MCBinaryTrace` | `BinaryTrace` for TLC |
| `Filter` | `InstrumentationFilter.cpp`: globs, blacklist, whitelist, sizes |
| `FilterProofs` | theorems about `Filter` |
| `MCFilter` | `Filter` for TLC: names, globs, filter files |
| `FunctionSizes` | `InstrumentationFilter.hpp`: the function size file of concurrent compilers |
| `FunctionSizesProofs` | theorems about `FunctionSizes` |
| `MCFunctionSizes` | `FunctionSizes` for TLC |
| `LogFunctions` | `LogFunctionManager.cpp` and what the library's functions make of their arguments: operators |
| `AllocDefs` | `AllocDefs.cpp`: loading and lookup of allocation definitions: operators |
| `PassDriver` | `runOnModule` of `access_instrument.cpp`; composes `Filter` (`INSTANCE`), `LogFunctions` and `AllocDefs` (`EXTENDS`) |
| `PassDriverProofs` | theorems about `PassDriver` |
| `MCPassDriver` | `PassDriver` for TLC: modules to compile, filter files, `alloc.in` files |
| `Crawler` | `MetadataCrawler.cpp`: the two crawls over debug information |
| `CrawlerProofs` | theorems about `Crawler` |
| `MCCrawler` | `Crawler` for TLC: graphs of typedefs, classes and members |
| `PathSize` | `Util.cpp` and its use in `runOnModule`: the size of a function |
| `PathSizeProofs` | theorems about `PathSize` |
| `MCPathSize` | `PathSize` for TLC: control-flow graphs |
| `TextTrace` | `library/textinstrumentation.c` under a program the pass has instrumented |
| `TextTraceProofs` | theorems about `TextTrace` |
| `MCTextTrace` | `TextTrace` for TLC |

Each definition that models code has an entry in the `map` of `PROJECT.json`. Definitions
called "mutant" in a comment are plausible errors in the code; no action uses them. They
document which change to the code each property would detect.

### IdMap

A process is a compiler. Its control point `pc` follows the code: constructor (`Construct`,
which reads the map), `reserveNewChunk` (`ReserveRead`, `ReserveTruncate`, `ReserveWrite`),
`getId` (`GetKnownId`, `GetIdExhausted`, `GetNewId`), `saveMap` (`SaveRead`, `SaveTruncate`,
`SaveWrite`), destructor (`RecycleRead`, `RecycleTruncate`, `RecycleWrite`). `SkipModule` is
the early return of `runOnModule` for a file the filter rejects: nothing is saved, the chunk is
given back. Each access to a file is three steps because the code truncates the file before it
writes it, and under a lock that failed (`FlockMayFail`) another process sees it in between.
A truncated file is modelled as an empty one: it does not parse, and `readMapFromJson` then
iterates over the members of a null value, that is, over nothing.

`Crash` is a compiler that is killed or calls `exit(-1)` (the pass does on a bad `alloc.in` or
an unknown width): no destructor runs, the kernel drops its locks. With `TornWrites = FALSE`
nobody dies between truncation and write, an interval of two calls.

`emitted` is what the compiler has put in its object file. The text of a name is not modelled:
names are model values, since the code only compares them.

`getId` looks in `id_map`, then in `new_id_map`, then draws. If the chunk is used up it
reserves another first: `want` remembers the string in between. `saveMap` reads the file again
over `id_map` (the file wins) and inserts the new ids (`insert` keeps what is there): `Merged`.

When two compilers meet one new string at the same time, the second one's id is dropped from
the map although its object file has it. `LostToRival` says that this is the only way to lose
an id: `MCIdMap` adds a history variable `met`, the pairs of compilers that were under way at
the same time, and an id in the object code of a compiler that has saved is the map's, or the
map has the id that a compiler in `met` with it gave the name.

Four maps are four independent instances; that they are saved one after the other, so that a
killed compiler has saved only some, is not modelled.

### BinaryTrace

A log function fills an entry on the stack (`Fill`), which calls `__dinamite_gettid`, and
passes it to `insertOrWrite`, which calls it again. `Discard` is an entry without a slot or
without memory for its buffer; `Enter` finds the buffer. A full one is flushed in the steps of
the code: `Flush` tests `out[tid]`, `Open` opens the file, `Write` writes, `Empty` resets
`current`; `Store` puts the entry in the buffer. `logExit` is `LogExit`, and then for each slot
`ExitLook` (is there anything to write), `ExitCheck` (`out[tid]`), `ExitOpen`, `ExitWrite`,
`ExitClose`, `ExitNull`. With `ExitRaces` every step of a thread can come between any two of
these: `main` returns, or some thread calls `exit` as `tests/bin_mt.c` does, while others log.
Without, `logExit` runs when no thread is inside the library.

A step touches `out[tid]`, the file or the buffer once where `logExit` may be at the same slot.
One finer interleaving is in the data: `insertOrWrite` counts the entry in `current` before it is stored,
so `ExitWrite` may write an entry that is not there yet (`Written`, an entry with `seq`
`Torn`). What `Fill` and `Enter` read and write is the thread's own, as `SlotPrivate` says (a
theorem), or has a mutex. `crashed` is `fwrite`, `fflush` or `fclose` on a FILE that is closed
or NULL, after which nothing more is said of the program.

Three history variables let properties speak of the past: `due`, the buffers as the latest
`logExit` found them; `raced`, the slots whose thread was flushing while `logExit` was at
them; `failed`, the slots for which `malloc` or `fopen` has failed.

Thread-local value 0 means "not set" to `pthread_getspecific`, and 0 is also the first id
drawn. So the thread that draws 0 draws again in `insertOrWrite`: its first entry is stamped
0 and stored in another slot, slot 0 is never used, and one slot less than `MAX_THREADS` is
available. The model has this as the code does; `StampsAgree` and `NothingLost` say exactly
how far it goes.

`logExit` does not reset `current[tid]`. If logging goes on (static initialisers run before
`main`), the file is opened again with truncation by the next write, and the buffer that was
already written is written again with what was added since: the truncation and the missing
reset cancel out. What is lost is what earlier full buffers had put in the file: whole buffers
(`WholeBuffersLost`). `InOrder` says that what is on disk is nonetheless in order and nothing
twice; its mutant, opening to append, shows what the truncation is for. What a `logExit` found
is on disk until the thread opens its file again (`ExitKeeps`). All three are stated for slots
that are not in `raced`: where a flush meets `logExit` the code has no order at all, entries
are written twice or lost and a closed FILE is used. `CrashOnlyByFlush` bounds the damage:
a program ends badly only if some thread has logged more than a buffer holds (1024 entries)
and flushes at that moment.

Integers: `next_id` is an `int` that grows by at most two per thread, and file contents are
what was passed to `fwrite`, whether stdio has written them to disk or not, as the program
ends normally.

### Filter

The only state is the filter file as it was parsed. `loadFilterData` leaves it null and not
loaded if the file is missing or does not parse; everything is instrumented then. A name is a
sequence of numbers, since `globMatch` and `std::map` only compare characters; 0 is the star.

`GlobMatch` is `globMatch` as a recursive function of how much of the glob and of the name is
behind. `Matches` is the meaning of a glob, stated without recursion. They differ in one case:
the recursion ends at the text `"*"`, so two or more stars at the end of a glob do not stand
for the empty string. An entry `"ab*"` of the blacklist becomes `"*ab*"` and matches `ab`;
`"ab**"` does not, nor does an entry `"*"` match the empty name. `BlacklistedBySuffix` states
exactly this.

A whitelist maps globs to the events and arguments they enable. `FindBestFunctionMatch` takes
the function's own name, else the first other glob in map order, else `"*"`; the order of the
map puts stars before letters, so `*b` decides before `a*` whatever is more specific. A name
that nothing matches has the best match `""`, and the entry `""` of the file is then used if
it has one. `CheckFunctionFilter` asks about a function called `"*"` first: what `"*"` has is
enabled for every function that is not blacklisted, own entry or not. `EventsOnlyAdd` (an event
added to an entry never takes one from a function) and `LaterEntriesIdle` (an entry that comes
after a match in map order has no effect on a function) are what the author of a filter file
relies on.

The minimum size is taken not to be negative (the code would convert it to a very large one).

### FunctionSizes

`function_sizes.json` is read by the filter's constructor (`Start`), extended by each
`checkFunctionSize` in the compiler's own copy, and rewritten by the destructor in two steps:
opened with truncation (`Open`), then written and closed (`Save`). Nothing is locked, so
everything happens in between, other compilers' saves included; `Kill` ends a compiler
anywhere. Two compilers that write at once leave either one's text or one that does not parse
(`Written`), which the next reader takes for no entries. Sizes are stored as `int`: the
`2^32-1` of a function with loops becomes -1 (`Recorded`).

The history variables `before`, `alone`, `clashed` and `last` state what is and is not kept:
a compiler that no other overlaps loses nothing (`AloneExtends`); without two savers at once
the file is the whole map of the last one (`WholeMapOfLast`); no entry is ever made up
(`SizesGiven`). What a compiler adds while another is under way is lost: this is how the
code is, the file being a log for people.

### PassDriver

A module is a sequence of functions, a function a sequence of blocks, a block a sequence of
instructions; `code` is what they have become. The three nested loops of `runOnModule` are
the variables `fn`, `blk` and `pos`, and each action is one turn of a loop: `SkipFunction`,
`EnterFunction`, `LeaveFunction`; `EnterBlock`, `LeaveBlock`; one `Visit` action for each kind
of instruction. The loops insert into the list they run over. What goes in before the
instruction is never visited, and `pos` moves past it; what goes in after it (`logAlloc`) is
visited next, as a call that is neither an allocation nor `exit`.

`queueAndInjectArgsToLog` puts a copy of each selected parameter (`argstore`) at the start of
the function and queues it. The copy is the first store of the parameter the loop meets, so it
is the copy that is logged with `a` and consumes the queue; the stores of the
program count as ordinary ones. `ArgumentsLogged` depends on this.

`main` gets its begin and end event whatever the filter says about it, unless it is smaller
than the minimum size. A function without a body is passed over in one step: its arguments are
not queued, its blocks are none. An access to a type without a log function (a struct) is not
logged; an integer of a width with none ends the compiler (`died`).

`LoadDefinitions` reads `alloc.in` (`AllocDefs`) and the declarations of the log functions;
a line that does not parse, an empty one included, or a library that lacks a function ends the
compiler. `VisitCall` looks the callee up and passes the arguments that the
definition names to `logAlloc`; `AllocationsLogged` says that the size and the count arrive
under their names. `InstrumentAccess` picks the log function by the type of the value
(`LogFunctions`), with strings in `__dinamite_tracepoint` as a special case, casts the value,
and logs a load with the value of a second load it inserts. `EntriesRead` follows an access
through the three tables that must agree, which are in two languages and two files: the
pass's choice and cast, the library's `value_type`, and the member of the union a reader takes;
and the file id through its 16-bit field, where -1 (no location) must not meet a real id.

Two assumptions are made of what the pass is given. `PassDriverAssumption`: blocks end with
a terminator and a return is one, as LLVM's verifier demands, and loads and stores have a
type. `AllocationsAssumption`: in a module to compile, the arguments called "size" and "count"
are those that the definition of the function names, or, without `alloc.in`, those of C's
`malloc` and `calloc`; the labels have no other meaning. TLC evaluates both on each run.

A build with `INST_ALLOC_ONLY` leaves out the accesses and the function events, but not the
copies of arguments, which stay queued for ever.

`isArg` is uninitialised if the function filter is off. `IsArg` is then any Boolean.

Left out: the ids of types, variables and functions a log call is given (`IdMap` has the ids),
addresses, `invoke` instructions, which the pass does not look at, and functions of the log
library itself, which it skips. `AllocationsLogged` is about size and count only: `addrIdx`,
by which `alloc.in` names another argument, is read from the file and never used.

### Crawler

`crawlModule` walks the graph of debug information twice, from the named metadata and the
instructions' nodes. `stack` is the recursion of `traverseMetadata`, `visited` its set; a step
is one call (`CallRoot`, `CallOperand`) with its callback, or a return. The first crawl notes
which typedef refers to which type first (`Typedefs`), the second appends the field names of
each class to the entry of its name (`FieldsOf`). Tags are sets of bits, since `CHECK_TAG`
tests bits: a union counts as a typedef and as a class. A class name made from a linkage name
is read after its string is gone; `ClassName` is then any name.

`VisitsReachable` is stated without a walk: what has been visited when a crawl ends is closed
under operands and in every closed set, hence the least one. `FieldsByIndex` says that a
field's index, which an access instruction has, gives its name, for each class whose name no
other can have. `TypedefNamesClass` needs the two crawls: the typedef may come after the class.

### PathSize

The three metrics of `function_size_metric`, and which of them is taken when the filter file
has none. `explorePath` is a recursion with `stack`; `visits` maps blocks to the largest set of
lines found from there. A block on the stack is met again in loops and counts with its own
lines; a block that neither returns nor has a successor (`Dead`) loses its lines. `PathTaken`
says that what is found from a block is always what some real walk executes. `SizeExact` says
that without loops the size is that of the longest path, although each block is explored once:
some walk from the entry has as many lines, and none has more. It is stated for functions in
which no line is in two blocks (otherwise the largest set of a successor need not be the best
one to add to), and says of a function with loops that it gets the size no minimum reaches.
It counts the lines of walks and knows nothing of the exploration.

### TextTrace

The library has one variable, `out`. `logInit` opens the file with truncation if `out` is
null, `logExit` closes it, and every other function writes a line without asking. Whether this
is right depends on the order of calls, so the module has the program too: one thread that
runs static initialisers, then `main`, then what was registered to run at exit. `on` and
`accesses` are the functions the pass has instrumented, `outside` and `exceptions` what else the
program does: like the module in `PassDriver`, they are chosen initially and never change.
`Begin` and `End` are what `instrumentFnEvent` inserts. `Exit` is a call of `exit`. It logs
`logExit` and no frame returns, so that no end event is logged.

`crashed` is a line written to the null FILE. It is reached in three ways: an initialiser's
function events are off and it, or a function it calls, logs; `main` is smaller than the
minimum size and a function it calls is not; or instrumented code runs outside `main` and
initialisers (`outside`: constructor attributes, handlers registered with `atexit`).
`NullNeverWritten` says there is no other. What initialisers have logged is lost when `main`,
or the next initialiser, opens the file: `BracketComplete` says that this, and no more, is lost.

`StackInTrace` reads the trace as the tools that process it do, with a stack of open
functions. With exceptions it does not hold, as a function that is left has no end event;
`StackWithinTrace` is what is left of it.

## Runs

| run | bounds | question and answer |
|---|---|---|
| `idmap_safety` | 3 compilers, 2 at a time, 2 names, chunks of 2 ids, deaths outside a write | ids are unique, chunks exclusive, saved names stay, only killed compilers leave chunks behind, unused chunks never exceed the number of jobs, ids are lost only to compilers under way at the same time; `IdMap` implements `IdRegistry`: ids are fresh, the published map grows only, by issued pairs |
| `idmap_deaths` | 2 compilers at a time, 2 names, chunks of 1, deaths anywhere, with a lock or without | every compiler that is not killed ends |
| `idmap_parallel` | 2 compilers at a time, 1 name | violation: an object file holds an id the map does not have |
| `trace_slots` | 4 threads, 4 slots, id 2 excluded, buffers of 2, 3 calls each, one `logExit` after them | slots are private, entries stamped right but one, nothing lost; an excluded thread leaves nothing and takes no slot, the fourth thread finds none |
| `trace_exits` | 2 threads, one with 5 calls and one with 1, buffers of 2, 2 calls of `logExit` at any time, failing `malloc` and `fopen` | what is on disk is in order, from one thread, and lacks whole buffers only; what `logExit` found stays; a FILE is misused only where a flush meets `logExit` |
| `filter` | globs of up to 4 characters (star and two letters) and pairs of globs of up to 2; whitelists with any of `*`, `**`, `*b`, `a*`, `a`, `ab`, each with no event, one or two; 9 names | a blacklist means what its globs mean, trailing stars apart; events only add; later entries are idle |
| `function_sizes` | 3 compilers, 2 functions, sizes 0, 3 and 15 of 16; deaths anywhere | a compiler alone loses nothing, no entry is made up, the file is the map of the last one |
| `pass_driver` | 39 modules of two functions, with every kind of instruction and value; 55 filter files, or none; three states of `alloc.in`; with `INST_ALLOC_ONLY` and without | log calls are where they belong, once, and a reader gets the values, sizes and files that were there |
| `pass_isarg` | as `pass_driver` | violation: a store is logged as an argument though no argument is selected |
| `text_trace` | 2 functions, 2 initialisers, 4 frames, 4 steps that log; with exceptions or calls outside `main`, and without | the null FILE is not written to under brackets, the file has all that was logged since the last bracket began, the trace tells the call stack; with exceptions, functions that run are never missing in it |
| `crawler` | graphs of 2 typedefs, 2 classes, a list of members and 2 members, with cycles, shared lists, null operands and missing names | each crawl visits what can be reached and ends; fields are found by their index; typedefs name classes |
| `path_size` | functions of 4 blocks with branches, joins, loops, dead ends and shared lines; each metric, each setting of the loop check | a path that exists is found, the longest one without loops; the exploration ends |

Why the bounds are enough: with chunks of two ids and two names a compiler hands back a chunk
that is half used, and the next one, which may have to draw both names, exhausts it and
reserves another; so reservation, exhaustion, reuse and recycling all happen. Chunks of one
(`idmap_deaths`, `idmap_parallel`) are exhausted by every draw. Two compilers at a time show every pairwise interleaving, the third
starts when one has ended or died and meets the chunk it left. Five calls with buffers of two
flush a slot twice, before, between, after and during the calls of `logExit`; the second
thread of `trace_exits` is there for the id that is drawn twice, and its one call is enough
for an entry in its buffer. Sizes 0, 3 and 15 modulo 16 are a declaration, an ordinary size and
one that becomes negative; three compilers are two that clash and one that reads the result.
Four blocks are the fewest with a join, a loop beside it and a dead end.
Symmetry is used for invariants and for `RegistrySpec`, which speaks of single steps and treats
compilers and names alike; not for liveness. A glob of four characters has two stars, a letter
between them and one at an end, or two stars at the end, which are the cases in which the three
branches of the recursion differ; the six globs of the whitelists overlap in every way.
The functions of `pass_driver` store a parameter twice, in and out of the order of the
queue, return in two places, call `exit`, and access types with and without a log function;
one has no body. Four calls in `text_trace` are enough for recursion through another function
and a return in between.

The two violations are disagreements with comments of the code. `idmap_parallel`: the comment on `saveMap`
says it is thread safe; the file is not corrupted, but when two compilers have met the same new
string, the second one's id is dropped from the map although its object file has it, and those
entries of the trace cannot be decoded. `pass_isarg`: "First check for argument
instrumentation, and remember the result", says the comment at the store, but with function
events off nothing is checked and the variable that should remember has no value.

`FileLocker` goes on when `flock` fails. With `FlockMayFail = TRUE` two compilers then hold one
chunk, as one would expect of any shared file; no run asks for it.

If a compiler is killed between truncation and write, the map loses its names, or the pool
forgets its chunks and chunk 0 is reserved again: `OneNamePerId` fails with
`TornWrites = TRUE`. No document of the code promises anything about this case; it is a hazard.

Fairness: `Finishes` is checked with weak fairness of each compiler's next step. Compilers are
scheduled by the operating system, and a lock that is free is free until someone takes it: each
compiler takes finitely many locks (one per reservation, at most one per name), so weak
fairness is enough for `flock`, which makes no promise of order. Starting and killing a
compiler are not fair. `CHECK_DEADLOCK FALSE` is there because compilers may never start; in
the other modules, because a filter is loaded once, a compilation ends and a program ends.
`Terminates` of `Crawler` and of `PathSize` assume that the one thread that runs goes on.

## Proofs

A theorem holds for every value of the constants; its hypotheses are the ones named here.

### The chunk pool: `IdMapProofs`

For any number of compilers, names, jobs and any chunk size. `TypeCorrect` holds whatever
fails; the others assume that locks are granted and no compiler dies between truncation and
write (`~FlockMayFail`, `~TornWrites`). Both assumptions are necessary, as the runs above show.

* `ChunksAreExclusive`, `IdsAreUnique`: `[]ChunkExclusive`, `[]OneNamePerId`.
* `OnlyCrashesLeak`: `[]ChunkLeakOnlyByCrash`.
* `WasteIsBounded`: `[]ChunkWasteBounded`.

`OneNamePerId` is not inductive: a compiler draws an id because of what is in the pool, so the
invariant `Inv` has to say that the pool is sound. `SoundPool(pl, cc, em)` says of a pool that an opened chunk is held
by nobody and none of its remaining ids is in object code, and that nothing has been drawn
above the latest chunk; `Held(cc, em)` that the compilers' chunks are distinct and what is left
of them is unused. Both take the pool, the chunks and the object code as parameters, so that
`GiveBackSound`, `ClaimSound` and `DrawSound` say once what handing back, claiming and drawing
do to them, without reference to where in the algorithm it happens. `LockInv`, `CopyInv` and
`PoolInv` carry them through the read, truncate and write steps: whoever is in the critical
section has the lock, its copy is the file, and the pool that is sound is the file, or the copy
of the one process that is writing it. `PcInv` says which control points hold a chunk.
`PairsInv` traces every entry of a map to object code. The arithmetic is `BaseFacts`: chunks of
different numbers do not overlap. The bound on waste needs one more invariant, `WasteInv`: the
compilers that run are at most `MaxJobs`, and so are the half used chunks of the pool and the
chunks of running compilers together (`Thrifty`), since a new chunk is made only when the pool
has no half used one.

### The map file: `IdMapProofs`

Under the same two assumptions.

* `SavedNamesRemain`: `[]SavedNamesStay`; no save loses what an earlier one has written.
* `MapsImplementRegistry`: `IdMap` implements `IdRegistry`. The abstract map is `SettledMap`,
  the file, or what the one process that has truncated it is about to write. A draw is the
  abstract issue, the truncation is the abstract publication, everything else stutters; that the issued id
  is fresh is `DrawSound` of the pool.
* `IdsAreLostToRivals`: `[]LostToRival`.

`MapInv` says that a compiler has the lock while it saves (`MapLock`), that what it knows of
the map is still true (`Agreed`), that what it is about to write extends the map (`MergedInv`)
and covers its object code (`Covered`). `MetInv` adds that an id in object code is
the compiler's own or the map's, and that for a name a compiler may yet give an id of its own
any id that gets into the map meanwhile is a rival's.

### The binary trace: `BinaryTraceProofs`

For any number of threads, slots and calls of `logExit` and any buffer size, whatever fails and
whoever logs while `logExit` runs:

* `TypeCorrect`: includes that no buffer holds more than `BUFFER_SIZE` entries.
* `SlotsArePrivate`: `[]SlotPrivate`.
* `StampsAreRight`: `[]StampsAgree`.
* `CrashesAreByFlush`: `[]CrashOnlyByFlush`.
* `ExitKeepsEntries`: `[]ExitKeeps`.
* `FilesAreInOrder`: `[]InOrder`.
* `GapsAreWholeBuffers`: `[]WholeBuffersLost`.

`ExcludedIdsAreDiscarded` (`[]ExcludedDiscarded`) assumes memory for the exclusion list
(`~MallocMayFail`), since the code goes on without the list if it has none. `OneExitLosesNothing`
(`[]NothingLost`) assumes one call of `logExit`, at the end, and memory and files (`OneExit`):
without any of these entries are lost, by the code's own design.

The invariants build on one another:

* `Inv`: that a buffer does not overflow depends on where its thread is. `Known` (an id that has a
  slot is below the counter), `Inside` (a thread that flushes or stores has a slot, and one that
  is about to store has room; this uses that no other thread has the slot) and `ExitInside`.
* `StampInv` adds `Latest` (the counter bounds every id seen), `Owned` (each entry in a buffer or
  file is from the thread that has the slot, earlier than the one under way, and stamped with
  the slot or, if it is the thread's first, with 0) and `OneZero` (entries stamped 0 are all of
  one thread).
* `RaceInv` adds `Counted` (who flushes has a full buffer and has logged more than that), `KeptApart`
  (unless a slot is in `raced`, its thread and `logExit` do not flush it at the same time, so
  that each finds `out` as it left it) and `CrashInv`.
* `Backed` and `DueKept` follow what `logExit` found through its steps onto the disk.
* `AllSorted`: file and buffer are in the order of the calls, and what is in the file comes before
  what is in the buffer whenever the next write will append (`Fresh`).
* `Aligned` and `AllWhole`: a buffer begins at a multiple of its size and has no gap (`Run`), files
  have gaps only at such multiples (`WholeGaps`) and, while open, end at one (`WholeEnd`).
* `SavedInv`, under `OneExit`: file and buffer together are all that has been logged so far.

A step is a thread's draw, its work on its slot, a step of `logExit` at a slot, or the call of
`logExit`; `DrawFrame`, `WorkFrame` and `ExitFrame` say once for each kind what it leaves alone,
so that each invariant is proved for the one slot or thread at which the step is.

### The other modules

`CrawlerProofs`, for any graph:

* `CrawlIsExact`: `[]VisitsReachable`. The invariant says of the depth-first walk that every
  operand of a visited node is visited or still waits in a call on the stack (`Frontier`), that
  the roots before `root` are visited, and that what is visited is in every closed set (`Least`).
  When the stack is empty nothing waits.
* `FieldsAreByIndex`, `TypedefsNameClasses`: `[]FieldsByIndex`, `[]TypedefNamesClass`. Both speak of the
  end of two crawls; `TableInv` says what the tables hold on the way. A type
  has the name of one of its typedefs, and in the second crawl every type that has one has
  (`TypedefInv`); the entry of a class whose name is its own is empty until the class is
  met and its fields from then on (`FieldInv`); the first field of a class that a typedef
  names is in that entry (`FirstInv`).

`PathSizeProofs`, for any control-flow graph:

* `TypeCorrect` includes that no block is being explored twice.
* `PathIsWithinLoc`: `[]PathWithinLoc`. The lines found are always lines of the function
  (`Found`).
* `PathIsTaken`: `[]PathTaken`, and `SizeIsExact`: `[]SizeExact`. `CallsInv`: calls on the stack follow one
  another, and the blocks visited are reachable. `WalkInv`: what a block that is finished, or a
  call that is not, has found is the lines of a path, and a path has no block twice, so that it
  is one of the walks the property looks at. `BoundInv`: without loops, and with no line in two
  blocks, no walk from a finished block has more lines than it has found, and none from a
  block on the stack that goes on with a successor already tried.

`FunctionSizesProofs`, for any number of compilers and functions, killed anywhere:
`EntriesGiven` (`[]SizesGiven`), `AloneLosesNothing` (`[]AloneExtends`) and `FileIsWhole`
(`[]WholeMapOfLast`). `AloneInv` says what the copy of a compiler on its own holds at each
point: what the file had and the functions it has come to. `OwnerInv` says that without a
clash the one who is saving has the file to itself.

`TextTraceProofs`, for any program, any depth and any number of steps, with exceptions or not:

* `TypeCorrect`: `[]TypeOK`.
* `NullIsNeverWritten`: `[]NullNeverWritten`, and `BracketIsComplete`: `[]BracketComplete`.
* `TraceTellsStack`: `[]StackInTrace`, and `TraceHasStack`: `[]StackWithinTrace`.

`NullNeverWritten` is not inductive: that `out` is open follows from where the program is.
The invariant adds `OpenInv`, that `out` is open while anything is on the stack if `main` and
initialisers are bracketed and nothing runs outside them, and `StackInv`: what is at the bottom
of the stack in each phase, and that before `main` the file is open only inside a bracketed
initialiser. `BracketComplete` needs the last part: a bracket that begins while the file is
open would keep what is in it. The last two theorems need the same facts: a step
that adds an event to the trace does to what a reader has open (`OpenAppend`) what it does to the
stack (`FramesOfAppend`).

`OpenIn` and `FramesOf` of `TextTrace`, and `FieldNames` of `Crawler`, are
recursive functions on sequences. That they are defined for every sequence, and what they make of
one more element, is proved without an induction rule: of the lengths for which it failed
there would be a least one (`Least`, `Minimum`), from the theorem that `<` is well founded.

`FilterProofs`, for any globs, names and filter file:

* `BlacklistIsBySuffix`: `[]BlacklistedBySuffix`. `GlobMatch` is a recursion on two sequences, and
  `Matches` a statement about positions. What is left of the glob stands for what is left of
  the name (`Rest`) answers each call of the recursion, except at two trailing stars, which
  `GlobMatchesButLast` treats; answers to all calls are unique (`CallsUnique`, by a least
  counterexample), so `GlobMatchesExactly`.
* `AddedEventsOnlyAdd`: `[]EventsOnlyAdd`.
* `LaterEntriesAreIdle`: `[]LaterEntriesIdle`. The order of the map is total on sequences
  (`PrecedesOneWay`, `PrecedesThrough`, `PrecedesTotal`), so that a finite whitelist has a first match
  (`FirstExists`), and leaving a later one out keeps it (`FirstWithout`).

`PassDriverProofs`, for any modules, filter files and allocation definitions:

* `EveryAccessIsLogged`: `[]AccessesLogged`.
* `EveryArgumentIsLogged`: `[]ArgumentsLogged`.
* `EveryAllocationIsLogged`: `[]AllocationsLogged`.
* `EntriesAreReadable`: `[]EntriesRead`.
* `FunctionsAreBracketed`: `[]Bracketing`.

The properties speak of functions the pass is done with, and of an instruction and the one
before it. The invariant `IInv` says what holds of such pairs (`Pair` operators) while the
loop is among them. `PlaceInv`: where the loops are, and that what they run over are
instructions the module had or the pass inserts (`Instructions`). `BlocksInv`: a block is as it
was, will be met (`Fresh`: no access or allocation has been logged in it), has the loop in
it (`Under`), or is finished (`Complete`). `Under` says which pairs are in order behind
the position, at it, and ahead of it, and that what is just before the position is no log call of an access,
so that what the next insertion puts there meets the instruction it is for.
`BeginInv`: the begin event stays first. `QueueInv` and `ArgsInv` are about the arguments: of
the copies at the start of the entry block the first `j` have been logged (`Layout`), exactly
the others wait (`Waiting`), and the loop is at the next copy or past them all
(`Progress`); without it a later store of the parameter could be taken for the copy. All
insertions are of the form `Inserted`, and `InsertedIs` says once where the elements of a
block are after it. `EntriesRead` needs the tables of `LogFunctions` besides (`EntryIs`), and
`AllocationsLogged` what the first definition of a name is (`CallsAre`).

The type invariants of `IdMap`, `PathSize` and `FunctionSizes` are proved, so no run repeats
them; `Crawler` and `PassDriver` have their types in the
proof's invariant.

### Only model-checked

`Finishes` and `Terminates`: liveness under fairness is out of the prover's reach. All other
properties of the passing runs are proved; TLC's runs remain the check that
the hypotheses are met by some state and that each property fails when the code is changed.

## Plan

Done: every part of the system that keeps state, the most shared state first, and the proofs of
all safety properties.

## Not modelled

* `json11` is vendored; only its answer to a text that does not parse is used.
* The null library has empty functions, the clock one system call.
* Tests, scripts and build files.
* The printing of debug information, `demangle` and `printType`, which keep no state.
* The text of the names the pass gives types and variables (`getValueType`, `getGEPVarName`): they are
  strings cut and put together, and what depends on their being equal is in `IdMap`. Classes two
  or more scopes deep are looked up under another name than the crawler's, as
  `access_instrument.cpp:204` cuts at the first `::` only; such fields get the name `NA`.
* The addresses that are logged.
* The text of `DINAMITE_EXCLUDE_TID`: the model has the set of ids.
