# Verification of the wild linker

TLA+ specifications of the parts of wild whose correctness depends on the order
in which things happen, or on several passes agreeing with each other, checked with TLC on small instances and, where marked,
proved with TLAPS for every instance. Everything is translated from the source
under `src/`; `PROJECT.json` maps each definition to its lines. Properties are
statements about what the linker does with its inputs, written next to the
model they belong to.

## 1. The system

Wild turns object files, archives and shared objects into one output file
(ELF, Mach-O or WebAssembly). `libwild/src/lib.rs` runs the phases one after
the other; inside a phase, rayon jobs work on groups of files in parallel.

| Part | State | Operations | What makes it hard |
| --- | --- | --- | --- |
| Arguments (`args*.rs`) | argument structs | parse | sequential |
| Input loading (`input_data.rs`, `archive.rs`, `grouping.rs`) | file table, groups | open, map, identify, check for modification | files change while they are read |
| String merging (`string_merging.rs`) | queue of groups, slots, pool of Vecs, buckets, offset map | split, reserve, hand over, merge, look up | three kinds of tasks share a pool and wake each other; the output must not depend on the schedule |
| Symbol database (`symbol_db.rs`) | buckets, definitions, flags | read symbols, add, select among alternatives | several buckets write the definition of one symbol |
| Resolution (`resolution.rs`) | files to load, work items, undefined symbols | load, resolve a chunk, canonicalise | jobs load archive members while others resolve |
| Layout: garbage collection (`layout.rs`) | slots with parked groups, work queues, symbol flags, start/stop sections | activate, do work, send work, park, wake | lost wake-ups; errors that drop a group; ordering of start/stop |
| Layout: sizes and addresses (`layout.rs`, `output_section_id.rs`, `alignment.rs`, `output_section_part_map.rs`) | sizes per part and group, offsets | order sections and segments, add up sizes, place parts, relax and place again | the sizing and the writing pass must agree; rounding and padding at several levels |
| ELF platform (`elf.rs`, `elf_x86_64.rs`, `elf_writer.rs`) | flags of symbols, sizes of GOT, PLT and dynamic tables, resolutions | scan a relocation, allocate, resolve, write | four passes decide about the same entries from flags that groups set concurrently |
| WebAssembly writer (`wasm_writer.rs`) | the merged module | merge, add stubs, constructors and imports, reorder, collect garbage | each pass moves functions and must rewrite every index |
| Output file (`file_writer.rs`), Mach-O writer (`macho_writer.rs`) | output buffer | create file, split, write, flush | in-place update, failures half-way |
| Incremental linking (`incremental_cache.rs`, `parse_skip.rs`, `layout_snapshot.rs`, `tier3_skip.rs`, `lib.rs`) | three side-car files and the output | skip, replay, reuse, persist | crashes, failed links, edits at any moment |
| Daemon (`daemon.rs`, `daemon_protocol.rs`, `subprocess.rs`, `wild-client`) | socket file, listen queue, child processes | serve, fork, connect, answer, fall back | every process may die at any point |
| SDK symbol cache (`sdk_cache.rs`), LTO cache (`lto/cache.rs`) | files shared by all linkers of a machine | look up, walk or compile, publish by rename | nobody locks; any writer may die |
| LTO drivers, post-link passes, `wilt`, diagnostics | | | see section 8 |

The interactions that matter: resolution decides which files are loaded, garbage
collection which of their sections; string merging runs beside them on the
merge sections; layout turns what is left into sizes and addresses, and the
writers fill exactly the space it reserved; the incremental tiers
may replace loading, reading of symbols or writing by what an earlier link left
on disk; the daemon runs all of this on behalf of another process.

## 2. Modules

| Module | Models | Of |
| --- | --- | --- |
| `LayoutGC` | the traversal `find_required_sections` | `layout.rs`, `value_flags.rs` |
| `SymbolResolution` | loading of files, alternatives, canonicalisation | `resolution.rs`, `symbol_db.rs` |
| `StringMerging` | `merge_strings` for one output section, and the lookup of addresses | `string_merging.rs` |
| `IncrementalLink` | a sequence of links of one output with its side-cars | `lib.rs` and the incremental modules |
| `LinkService` | what a link command promises to its caller | abstract |
| `Daemon` | daemons, forked links and clients; implements `LinkService` | `daemon.rs`, `subprocess.rs`, both `main.rs` |
| `OutputOrder` | the order of sections and segments, as a function | `output_section_id.rs`, `elf.rs` |
| `SectionLayout` | from sizes to addresses and slices of the output; takes its order from `OutputOrder` | `layout.rs`, `elf.rs`, `file_writer.rs` and others |
| `ElfResolution` | what one symbol's flags mean: the flags a relocation sets, relaxations, the entries allocated, its resolution and what the writer takes and writes for it (x86-64); operators only | `elf.rs`, `elf_x86_64.rs`, `elf_writer.rs`, `layout.rs` |
| `ElfTables` | GOT, PLT, dynamic relocations and symbols of a link, from scanning to writing, with the operators of `ElfResolution` | `elf.rs`, `elf_writer.rs`, `layout.rs`, `value_flags.rs` |
| `SharedCache` | the caches of SDK symbols and of LTO objects | `sdk_cache.rs`, `lto/cache.rs`, `args/macho.rs` |
| `WasmLink` | the function index space of a WebAssembly link | `wasm_writer.rs` |
| `LayoutGC_proof`, `SymbolResolution_proof`, `StringMerging_proof`, `Daemon_proof`, `SectionLayout_proof`, `ElfResolution_proof`, `ElfTables_proof`, `SharedCache_proof` | theorems and proofs | |
| `MC...` | small instances for TLC | |

A module has a `(mutant)` form next to some definitions: the definition as a
plausible bug would change it. `PROJECT.json` pairs each property with a mutant
that violates it; they take no part in the specifications.

All models are sequentially consistent: an atomic operation is a step, whatever
its `Ordering`. The code uses `Relaxed` for symbol flags, the activation counter
and the string pool, in each case with a read-modify-write on one location or
with a mutex or a rayon join between the write and the reads that depend on it.

### LayoutGC

State: the flags of each symbol, the slot of each section, for each group its
activation job (`task`), who holds its `GroupState` (`worker`), its local queue
and the queue in its mutex-protected `WorkerSlot`. A handler is a sequence of
effects (`todo`); those that touch shared memory are steps of their own, so
handlers of different groups interleave between the plain load and the
`fetch_or` of a flag, at a slot's mutex, at the counter of activations.
Actions follow `activate_group`, `do_pending_work`, `LocalWorkQueue::send_work`,
`handle_section_load_request` and so on. The relocations of a section are an
input: a sequence of symbols with the flags they set. `Required` is the
reference definition of garbage collection, the least closed set.

### SymbolResolution

State: the definition and the flags of each symbol, the files taken and loaded,
the jobs, the undefined symbols recorded so far, the alternatives that are left
and the stores a bucket has yet to make. The three phases of `lib.rs` are
values of `phase`. Name lookup, versions, visibility, COMDAT, common and weak
symbols are operators; `Needs`, `Closed` and `best` are the reference.

### StringMerging

State: the queue of unprocessed groups, the reservations (`spawned`), the pool
(`available`), the slot of each group and bucket, where each bucket thread is.
`try_reserve` is two steps, a load and a compare-exchange that is not retried.
Splitting, hashing into buckets, block-wise offsets with their overflow map and
the lookup of an address are operators that work on bytes.

### IncrementalLink

State: inputs with contents and modification times, the version script, the
three side-cars, the output, and one running link. The bytes of a section are
represented by what they were computed from, so that "the output of a cold
link" is an equality. `torn` is a history variable: a link died or the version
script changed, and no full link followed. `setup` holds what differs between
platforms and options and stays constant in a behaviour. The world may edit
inputs and scripts, delete the output, and kill the linker.

### Daemon and LinkService

State: the socket file, for each daemon its place in `serve`, its listen queue,
connection and child, for each client its place in the protocol. Every system
call on the socket path is an action of its own. `LinkService` knows only
commands that link, one link at a time, and exit with a code; the mapping reads
a command's links off the daemons' children and the client's own fall-back.

### OutputOrder and SectionLayout

`OutputOrder` is a function from the sections of a link to the sequence of
events (segment starts, sections, addresses set by a script, segment ends) that
`OutputOrderBuilder` produces for the ELF platform. Of built-in sections with
equal attributes one stands for all.

`SectionLayout` walks over these events. State: the size of each input
section, `mem_sizes` by group and part, the totals, the offsets of the walk, the
parts placed so far. Groups allocate and relax in parallel; the other steps
follow `compute_total_section_part_sizes`, `layout_section_parts` (one step per
part), `perform_iterative_relaxation`. What later phases derive from the parts
is operators: the records of sections and segments, start offsets by group, and
the cuts that `split_output_into_sections`, `split_buffers_by_alignment` and
`split_output_by_group` make. Which bytes relaxation removes is left open.

### ElfTables

State: the flags of each symbol, for each group its next relocation and the
entries it has reserved in each of seven tables, the copy relocations, and later
the resolution of each symbol, the entries the writer has taken and what it
wrote. Scanning a relocation is one step, as its only effect on other groups is
a `fetch_or`; the phases after it are sequential within a group. Values are
symbolic (the address of a symbol, the n-th entry of a table), so that "a
reference reaches its symbol" is a matter of following them as the dynamic
linker would.

### SharedCache

One key, so one cache file. Names, inodes and contents are separate: a file that
was renamed over is still open in a reader, and a writer may go on in a
file that someone else has published. A file is two chunks, and every system
call is a step. A thread runs link after link, as in a daemon; a kill or a full
disk may end a write at any chunk.

### WasmLink

The passes of `merge_inputs` and `write_direct` in their order, each a map from
the module merged so far to the next one: collection of symbols and types,
`__wasm_call_ctors`, stubs for weak and mismatched references, relocation,
synthesised functions, imports, pruning and reordering, wrappers of exported
functions, `gc_functions`, `gc_imports`, the report of undefined symbols,
compaction of types, exports. Function bodies are their sequences of
relocatable operands, with the encoding (padded or compact) that decides
whether a later pass can rewrite them. The reference side of the properties is
stated on the inputs alone. The passes are sequential; where the code iterates
over a hash map the model makes a nondeterministic choice.

## 3. Runs

A run is `tlc -config <cfg> <module>`; `PROJECT.json` lists them with what they
check. Passing runs:

| Run | Instance | Shows |
| --- | --- | --- |
| `gc_reachability` | four groups, three sections, 28 inputs | the loaded sections are exactly the least closed set, the verdict does not depend on the schedule, no work is left in the slot of a parked group, start/stop symbols wait for all activations, the traversal ends |
| `gc_dynamic` | five groups, copy relocations, exports, whole archives | each symbol is loaded, exported and copied once |
| `symbol_resolution` | 104 links of five to seven files | files are loaded once and exactly as needed; references end at the definition the rules select; two lookups settle; the verdict does not depend on the schedule |
| `incremental` | two inputs, three sections, Mach-O and ELF, up to six edits or links; options, scripts, crashes, failures, debug skips | skipped, replayed and partly reused links leave the output of a cold link; the signature never describes another output; a full link repairs whatever an interrupted one left |
| `daemon_kill` | two daemons, `wild` and `wild-client`, forked and in-process | refinement of `LinkService`; the path has one owner; every command exits |
| `string_merging` | nine inputs, two buckets, two reservations | the scope never ends early; the merged section and the verdict are functions of the input; every input byte is found in the output |
| `section_layout` | eleven links of two groups, over all lists of custom sections, scripts, secondary sections, padding and relaxation | parts overlap neither in the file nor in memory; mapping the segments brings every byte to its address; segments and RELRO own their pages; the slices of the groups are where the addresses point, also after relaxation |
| `elf_tables` | about 9000 links of two objects and a shared object: five output kinds, all classes of symbols, pairs of relocations | flags agree at all times; each table is used up exactly; dynamic relocations are for separate places; copies move all names of an object; every reference reaches its symbol |
| `shared_cache` | two linkers, three versions of the SDK, both caches | a hit is complete and current whoever died or truncated whose file; once nobody writes the file is complete |
| `wasm_link` | 30,886 links of one to three objects | every index means what the inputs meant after every pass; exactly live code is left; constructors run first and in order |

The instances are small, but each has what the hazards need: two groups that
refer to each other and to the same symbol, a group that only start/stop keeps,
references that meet errors; archive members needed by several jobs and symbols
cut into chunks of two; strings that end at, before and after the end of a group, blocks
of the offset map that overflow, a bucket at its limit; edits that keep and
edits that change the size of a section; a death of each process at each step;
alignments above and below the page size, sections without data between others,
relaxation that frees less than a unit of alignment; a symbol's first and second
reference of each kind in both orders; a file truncated by one linker while
another renames it; each pass of the WebAssembly writer with something before
and behind the functions it moves.
`MaxClock` bounds edits and invocations: four or six are enough for link, edit,
failed link, edit back, link again. Symmetry is not used.

Deadlock is checked except in `IncrementalLink`, where the clock runs out;
specifications of a single link stutter explicitly once they are finished.

### Fairness

Weak fairness only. In `LayoutGC`, `SymbolResolution` and `StringMerging` each
spawned job takes its next step eventually: a rayon scope runs every job and
waits for all of them, and jobs block only on mutexes held for a few
instructions. In `Daemon` the processes that exist run; nobody has to start,
to kill or to be killed. `IncrementalLink`, `SectionLayout`, `ElfTables`,
`SharedCache` and `WasmLink` state no liveness: their steps are loops over
finite inputs without waiting.

## 4. What is proved

For all values of the constants that satisfy the named assumptions of the
modules (finite sets of groups and so on):

* `LayoutGC_proof`: `TypeCorrect`, `NoWorkIsLost`, `StartStopAfterActivation`,
  `EveryGroupReturned`. The inductive invariant `IInv` adds to the types that
  `activations_remaining` is the number of groups not yet counted, how the
  activation job and the holder of a group's state go together (`Control`: only
  a running group is in a handler, a parked one has an empty slot, a dropped one
  has reported an error), and that once all activations are counted the
  synthetic group is released or the job that counted last is about to release
  it (`Release`). Without `Release` the delayed group might never return;
  without the count, the last activation could not be recognised.
* `SymbolResolution_proof`: `EachFileLoadedOnce`, and `SelectionIsExact` when no
  shared object has more symbols than a work item (`DynamicsFitOneChunk`; beyond
  that the code reads versions at the wrong index, see section 5). `EachFileLoadedOnce`
  rests on `LoadedInv`: the queue has each object file that was taken, once. The
  closure needs two directions. `Sound`: what is taken, and what a job is about
  to take, is in every closed set; it follows from which file a symbol asks for
  (`Asks`, shown to add up to `Needs`). `Complete`: a symbol of a taken file is still
  ahead of a job (`Ahead`), or the file it asks for is taken or about to be
  (`Wanted`); the lemma `WorkItems` shows that chunks cover a file's symbols, so
  that this holds of a file just taken, and when no job is left nothing is ahead,
  so `taken` is closed.
* `Daemon_proof`: `ServiceIsImplemented`, the refinement of `LinkService`, and
  `PathHasOneOwner`. The refinement is proved step by step: the initial states
  map to the initial state, and every action of a client, a daemon or a forked
  link maps to `Begin`, `End` or `Exit` of one client or changes nothing. Its
  invariant ties the two ends of a connection together: a client that waits for
  an answer is queued, served, or its daemon is gone; the link a daemon runs is for the
  client it serves, a client links by itself only when nobody links for it, and
  an answer under way tells how the last link ended. The fault `"crash"`, a signal
  that kills the subprocess of a direct link, is excluded: its exit code is wrong
  (section 5). `PathHasOneOwner` adds to it which daemons may be
  about to remove or to bind the path.
* `StringMerging_proof`: `TypeCorrect`, `NothingIsStranded`, `PoolIsConserved`.
  The inductive invariant says where each Vec is (`SlotInv`, `OutInv`), that all
  Vecs are accounted for (`PoolInv`) and, the heart of it, `WakeInv`: while
  groups are left and a reservation is possible, some thread is about to make
  it and will not lose the race. A failed compare-exchange need not be retried because
  the thread that won it reads the pool again, and a bucket that returns a Vec
  goes on to reserve; a parked bucket waits for a group that is in progress, or
  the pool is full and the main thread or another bucket is not finished.
* `SectionLayout_proof`: `TypeCorrect`, `FileBytesHaveOneOwner`,
  `AddressesHaveOneOwner`, for any sections, alignments, events and segments that
  are a link at all (`IsLink`), any relaxation and any number of passes. The
  inductive invariant adds `Behind`: every part ends at or before the current
  file offset and, where no address is set by a script, every allocated part ends
  at or before the current memory offset. It rests on lemmas about `align_up`
  and `align_modulo`, which never move an offset back.
* `ElfResolution_proof`: lemmas about one symbol: what each relaxation leaves of a
  relocation, and that for flags that scanning can produce the writer takes from
  each table what was allocated.
* `ElfTables_proof`: `FlagsAlwaysAgree` and `LayoutAndWriterAgree`, for any number
  of objects and symbols and any relocations that satisfy `ValidLink`. The
  invariant adds that flags given by resolution never change, that an ifunc of a
  static executable has its stub as soon as it is referenced at all, and
  that what may be interposed is exported or still to be exported.
  `LayoutAndWriterAgree` then shows, case by case over the flags, that
  `process_resolution` takes from each table what `allocate_resolution` reserved.
  The sum over a group's symbols, and the places of relocations, are
  model-checked (`TablesExact`).
* `SharedCache_proof`: `HitsAlwaysCurrent`, for any number of threads, processes
  and updates, when the SDK does not change during a link, nobody has collected
  symbols of other libraries before, and LTO threads have a process each
  (`Sound`). The invariant says that each inode holds chunks of one version, that
  no inode has two names, that a reader's file has no temporary name (so nobody
  truncates it), that what a reader of a file under construction has read is
  current, and for the LTO cache, which validates nothing, that a file gets
  its name only when it is complete.

Proofs use SMT, Zenon and the LS4 backend; nothing is assumed but the `ASSUME`s
of the modules, which TLC evaluates on every instance.

Only model-checked: liveness and everything that needs `ENABLED`; `Exact`,
`OutputIsDeterministic`, `TablesExact`, `WritersMatchLayout` and the other
equalities with a reference definition or a sum, which need induction over the
data; the properties of the later phases of `SymbolResolution`, which hold for
the links of the run only (section 5 says which links break them);
`IncrementalLink` and `WasmLink`.

## 5. Where the code and its own statements disagree

Two of the runs are expected to fail: they check a sentence of the repository
against the code.

| Run | Sentence | What happens |
| --- | --- | --- |
| `versioned_definition_race` | `symbol_db.rs:1403` "Dynamic symbols, even strong ones, don't override non-dynamic weak symbols" | a default-versioned name is processed in two buckets that store its definition independently (`symbol_db.rs:1215`, `2554`); the last store wins |
| `incremental_crash` | `tier3_skip.rs:54` "Cold-link retry recovers (whole-link skip rejects, full link rebuilds)" | the old signature is not invalidated before an in-place update; if the inputs are put back, the next link skips over a partly written file of the right size |

Further disagreements, each reproduced as the brackets say and excluded from the
passing runs by the choice of constants. `[MCx_y]` is a configuration.
`[MCx: Y, P]` is the configuration of the passing run of `MCx` with the set of
links or setups replaced by its definition `Y`, checking `P` only; for `MCDaemon`,
with no faults but the named one, the constants given in the bracket, and
deadlock not checked.

Resolution, incremental linking and the daemon:

* `[MCSymbolResolution_version]` From the second work item of a file on,
  `resolution.rs:1338` passes the index within the chunk; `symbol_db.rs:177` says
  "An `object::SymbolIndex` is an index into the ELF symbol table of the input file".
* `[MCSymbolResolution_weakref]` A weak reference whose first candidate is in
  an archive member that is not loaded becomes undefined (`resolution.rs:861`)
  even when a loaded object defines the name; `symbol_db.rs:1200` says the
  first strong definition in a loaded object is selected.
* `[MCSymbolResolution_hidden]` A hidden reference downgrades the first
  definition of the name (`resolution.rs:1398`), not the one selected later;
  `resolution.rs:1394` says it "cannot leak into dynsym".
* `[MCIncrementalLink_race]` The signature combines the hash of the loaded bytes
  with size and time read after the check for modified inputs; `lib.rs:1123` says
  "Returns `true` on a safe skip".
* `[MCIncrementalLink_versioned]` `TeeSink::add_versioned` records nothing
  (`parse_skip.rs:201`), while `args.rs:380` enables replay without the canary
  that `parse_skip.rs:204` demands.
* `[MCIncrementalLink_script]` Version scripts and export lists are in no
  signature; `incremental_cache.rs:654` promises a byte-identical output.
* `[MCIncrementalLink_refs]` `reusable_section_indices` (`layout_snapshot.rs:195`)
  ignores that a symbol a kept section refers to may have moved.
* `[MCIncrementalLink_opts]` Keeping the whole output (`lib.rs:820`) does not
  look at the arguments; `lib.rs:807` says "byte-correct".
* `[MCIncrementalLink_inplace]` Without a mapping, the in-memory buffer of a
  writer that does nothing is flushed over the output (`file_writer.rs:97`).
* `[MCIncrementalLink_setsize]` For ELF, keeping the whole output calls
  `set_size` a second time (`lib.rs:833`) and panics; `incremental` has the
  panic as the action `SetSizePanics`.
* `[MCIncrementalLink_daemon]` The arguments hash uses `std::env::args()`, in a
  daemon the daemon's own (`lib.rs:1126`).
* `[MCDaemon: Faults = {"crash"}, CrashIsReported]` `WEXITSTATUS` of a child killed by a signal is 0
  (`subprocess.rs:100`), while `subprocess.rs:78` says "returning its exit code"; the
  daemon (`daemon.rs:204`) makes it 128 plus the signal.
* `[MCDaemon_clobber]` Over a left-over socket file, the probe and the removal
  are separate steps (`daemon.rs:71`): a daemon that binds in between loses its path.
* `[MCDaemon_orphan]` A forked link inherits the listening socket
  (`daemon.rs:157`), so a probe succeeds although no daemon is alive.
* `[MCDaemon: Stalled = {c2}, BuggyClientHarmless]` A client that sends nothing blocks the accept loop (`daemon.rs:106`).
* `[MCDaemon_inprocess]` An in-process link replaces the daemon's environment
  (`daemon.rs:245`), which the next request consults for `WILD_DAEMON_INPROCESS`.
* `[MCDaemon: Outcomes <- MCOutcomes, ErrorReachesCaller]` The message of a failed in-process link is written after
  the daemon's own stderr was restored (`daemon.rs:361`).
* `[MCDaemon: PipeCap = 1, InProcessAnswers]` The pipes of an in-process link are read after it returns
  (`daemon.rs:337`); output beyond the pipe's capacity blocks it.

Caches (`MCSharedCache`, with `MaxVersion = 2`):

* `[MCSharedCache: SdkOnly, NoTornFile]` All linkers use one temporary name. One
  may truncate it after another wrote it, and the rename publishes the torn
  file; readers refuse it. `sdk_cache.rs:242` says concurrent invocations "won't
  observe a torn file".
* `[MCSharedCache: SameModule, HitsAreCurrent]` (with `Threads <- MCThreads`) The
  temporary name of the LTO cache is unique per process, but two threads of one
  link may compile the same module; nothing validates the file. `lto/cache.rs:168`
  says "Unique per-writer tmp name to avoid races."
* `[MCSharedCache: OtherLibrary, HitsAreCurrent]` `save_sdk_symbols` is given all
  symbols collected so far, those of other libraries included (`args/macho.rs:666`).
* `[MCSharedCache: DuringLinks, HitsAreCurrent]` Size and time are read after the
  walk, and again for the entry in memory, so an update in between labels old
  symbols as current. Only `libSystem.tbd` is looked at; changes of other files of
  the SDK go unnoticed.

WebAssembly (`MCWasmLink`):

* `[MCWasmLink: TypeLinks, IndicesAgree]` Imports are deduplicated by the type
  index of their object, the prediction of their indices by the merged type;
  `wasm_writer.rs:9410` says it "Mirrors Pass 4's iteration order and skip rules so the
  indices line up."
* `[MCWasmLink: ImportLinks, ConstructorsRunFirst]` Bodies of `__wasm_call_ctors` and
  of entry wrappers have compact operands, which the later shift by the number
  of imports cannot rewrite; `wasm_writer.rs:253` says "the runtime sees ctor calls before
  any user code".
* `[MCWasmLink: WeakLinks, ConstructorsRunFirst]` Constructors and the prune of
  pass 2.7 use indices recorded before stubs were added.
* `[MCWasmLink: SignatureLinks, IndicesAgree]` Stubs for mismatched signatures are
  looked up by name, so importers with the right signature are redirected too.
* `[MCWasmLink: AliasLinks, IndicesAgree]` A strong function with a later alias is
  known by the name of its last symbol and does not override an earlier weak one.
* `[MCWasmLink: ArchiveLinks, ConstructorsRunFirst]` `init_funcs_origin` "runs in
  lockstep with `all_init_funcs`" (`wasm_writer.rs:8911`), but only the latter is sorted
  (`9005`): a constructor of an archive member nobody needs may be kept.
* `[MCWasmLink: DynamicLinks, ConstructorsRunFirst]` With `--export-dynamic` or
  `--export=_start` the entry is first exported without its wrapper.
* `[MCWasmLink: ComdatLinks, IndicesAgree]` `compute_comdat_skip_sets` keeps indices
  that count imports and compares them with places among defined functions, while
  the `-r` path (`wasm_writer.rs:2340`) subtracts the imports: an object with imports
  drops the wrong function.

ELF: `[MCElfTables_rex2]` The REX2 form of a TLS descriptor load against an
interposable symbol is not relaxed in an executable (`elf_x86_64.rs:427`) while the call
through it is (`441`); `elf_x86_64.rs:425` says that the conditions "must match".

Read in the source while modelling, and excluded from the inputs of the runs:

* ELF. In a static executable the flags of an ifunc depend on its first
  reference being one that sets them (`elf.rs:4791`). RELR relocations at odd
  places are judged by the offset in the section during layout and by the
  address in the writer. The second word of a TLS pair of an exported
  symbol that may not be interposed is written as 0 (`elf_writer.rs:841`). A hidden
  undefined TLS symbol, a PC-relative relocation in a writable section against
  an interposable symbol, and an absolute relocation in a read-only section of a
  relocatable output against an ifunc or a library's symbol end in the writer's
  internal errors. An ifunc may have two addresses in a PIE. Of two strong names of
  a copied object the schedule picks the owner. `verify_consistent_allocation_handling`
  rejects combinations of flags that layout produces.
* Sections. `elf.rs:435` says "Keep .relro_padding unless relro is disabled"; it is
  in the list of sections that are kept in any case (`elf.rs:423`). A custom read-only
  section without data followed by others, `.init` pieces of mixed alignment, and a
  secondary section of another kind than its primary one break the agreement
  of file and memory.
* WebAssembly. `exported_indices` and the functions that must not be stripped are not
  shifted by imports nor remapped by `gc_functions`, `__wasm_init_memory` is no
  root of it, and `explicit_export_indices` are stale after reordering. Table
  relocations against imports give index 0. Data relocations know functions
  by their global name only. `--export` functions are no roots of pass 2.7.
  `__real_f` is entered after relocations were resolved. A name that anyone
  imports weakly gets a stub for strong importers too and is not reported.
  The name under which an aliased exported function appears depends on the order
  of a hash map. `drop` follows every constructor call, whatever it returns.

Read in the source and not modelled: `WILD_INCREMENTAL_TIER3_SKIP=0` does not
disable the skip (`args.rs:385`); a link with the cache off between two
read-write links leaves the old signature; `find_string` carries into the bucket
number for a string across the limit of 2^28 (`string_merging.rs:1243`); the
loop of `try_spawn_input_processing` may spawn tasks that only give their
reservation back, without a bound under weak fairness.

## 6. Bounds and assumptions

Every bound is a constant or a named definition of an `MC` module. What they
cut off: more than five groups, seven files, two buckets, two daemons and two
clients, two linkers at a shared cache, three objects of a WebAssembly link;
sequences of more than six edits or links; names, contents and versions beyond a
handful. In `SharedCache` two linkers stand for more, because a linker begins
another link when it is done, and the theorem has no bound. Numbers that the code keeps in a fixed width are
given that limit where a property depends on it (the bucket offset, the block
offset of the string map); elsewhere they stay far from it.

Assumed of inputs, beyond what section 5 excludes. ELF: TLS relocations refer to TLS
symbols and others do not; a symbol that may be interposed and is defined is
exported; data objects of libraries are not called; sections that hold
pointers are evenly aligned. Layout: `.init` and `.fini` pieces have one alignment.
WebAssembly: an unresolved name is imported with one signature by all objects; the
first definition of a name has the signature of the winning one; exported or
unstrippable functions, constructors and shared memory do not occur together
with imports that remain, and constructors not with function garbage
collection; names of local functions are not those of global ones; aliases are
not on exported functions; discarded COMDAT copies are in objects without imports.
Two objects with one basename are not told apart from two objects with different ones.

Assumed of the environment: `rename` and `bind` are atomic; a killed process
takes no further step and its descriptors are closed; two contents with the
same hash are equal; modification times grow with each edit.

## 7. Plan

In this order; each item names the module, what it composes with, and what is
to be checked and proved.

1. `OutputFile` (`file_writer.rs:164`-`474`): the background creation thread,
   `set_size`, fall-back to memory, flush; composed with `IncrementalLink`,
   which then takes its writer actions from there.
2. `WasmLink`: data segments, globals and tags, which have index spaces of their
   own; then `-r`.
3. `ElfTables` for AArch64 and RISC-V: other tables of relocations over the same
   passes; stubs for far calls.
4. `MachoTables` (`macho.rs`, `macho_writer.rs`): stubs, GOT and chained fix-ups, as
   `ElfTables`.
5. Pure operators with a reference definition: expression evaluation
   (`expression_eval.rs`), section rules (`layout_rules.rs`), version script
   matching (`version_script.rs`).
6. Proofs: `LoadedOnce` and `BoundToLoaded` of `SymbolResolution`, one
   direction of `Exact` (nothing is loaded that is not required) and
   `ServedOnce` of `LayoutGC`, `SignatureDescribesOutput` of `IncrementalLink`,
   the safety part of `ImplementsService`.

## 8. What is not modelled

* Argument parsing, input formats and archives, linker scripts: sequential
  parsers. What other parts take from them is an input of the models.
* Mach-O; ELF on other architectures than x86-64; `linker-utils`: formats, relocation
  arithmetic and instruction encodings, sequential over slices of the output that
  `SectionLayout` shows to be disjoint.
* Of ELF on x86-64: the arithmetic and overflow checks of relocations, exception
  frames, symbol versions and hashes, `-r`.
* Of WebAssembly: data, globals, tags, position-independent code, `memory64`,
  `-r`, custom sections.
* `wilt`, debug-information passes: rewriting whose correctness needs the
  semantics of WebAssembly or DWARF.
* LTO drivers: external compilers. Only their cache is modelled.
* Diagnostics, `linker-diff`, `linker-layout`, `linker-trace`: they report and
  do not decide what is linked.
* Inside modelled parts: symbol wrapping and `--defsym`, re-resolution after
  LTO, the byte encoding of caches and of the daemon's protocol, `emit_patch`,
  the reference filter of string merging (always off, `layout.rs:143`).

The modules stand for about 14,300 of the 129,000 lines of the repository, a
ninth. The rest is for the most part what the list above names: parsers, file formats,
instruction encodings, debug-information and optimisation passes, test tools. It
is sequential code over large data, where a model would repeat the code
line by line; unit tests and `linker-diff` reach it better.
