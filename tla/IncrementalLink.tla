-------------------------- MODULE IncrementalLink --------------------------
(***************************************************************************)
(* Incremental linking: one output file, the three side-cars kept next to  *)
(* it (`.wild-hashes`, `.wild-pi-cache`, `.wild-layout`) and a sequence of *)
(* link invocations, with edits of the inputs in between.                  *)
(*                                                                         *)
(* The contents of an input, of the version script and of the options are  *)
(* model values.  The bytes of an output section are represented by what   *)
(* they were computed from, so "these bytes are the bytes a cold link      *)
(* would write" is an equality.  Equal content hashes mean equal contents. *)
(***************************************************************************)
EXTENDS Integers, FiniteSets, FiniteSetsExt

CONSTANTS
    Inputs,        \* the input files on the command line
    Versions,      \* the contents an input may have
    Bulk,          \* Bulk[i][v]: bytes that v, as contents of i, adds to each of its sections
    Sections,      \* 1 .. n: the output sections, in file order
    Contributors,  \* Contributors[s]: inputs with a section in s; {} for writer-generated ones
    Refs,          \* Refs[i]: inputs whose symbols the relocations of i refer to
    Rlibs,         \* inputs whose contents are part of their file name (lib<crate>-<hash>.rlib)
    Versioned,     \* inputs that define versioned symbols
    Setups,        \* the settings considered, see Setup; one holds for a whole behaviour
    None

\* `skips` says which whole-link skips are active: "pre" (before the inputs
\* are loaded), "post" (after; only under WILD_INCREMENTAL_DEBUG).
Invocation == [mode : {"off", "write", "rw"}, opt : STRING,
               skips : SUBSET {"pre", "post"}, daemon : BOOLEAN]

\* sizeAtLayout: ELF, layout::compute announces the output size; alwaysReplace:
\* shared objects and macOS, no update in place by default; background: more
\* than one thread, a worker creates the output file; mmap: the output buffer
\* is a mapping of the output file. The rest bounds what happens: the contents
\* that inputs and the version script (an auxiliary file) may have, the link
\* invocations, the faults, and MaxClock, the number of edits and invocations.
Setup == [sizeAtLayout : BOOLEAN, alwaysReplace : BOOLEAN, background : BOOLEAN, mmap : BOOLEAN,
          versions : SUBSET Versions, scripts : SUBSET STRING, invocations : SUBSET Invocation,
          faults : SUBSET {"crash", "fail", "script", "race"}, maxClock : Nat]

ASSUME IncrementalAssumption ==
    /\ IsFiniteSet(Inputs)
    /\ Bulk \in [Inputs -> [Versions -> Nat]]
    /\ Sections \subseteq Nat /\ IsFiniteSet(Sections)
    /\ Contributors \in [Sections -> SUBSET Inputs]
    /\ Refs \in [Inputs -> SUBSET Inputs]
    /\ Versioned \subseteq Inputs /\ Rlibs \subseteq Inputs
    /\ Setups \subseteq Setup

VARIABLES
    setup,     \* the settings of every link of the behaviour
    inp,       \* the input files: contents and modification time
    script,    \* the version script
    clock,     \* counts edits and invocations; source of modification times
    hashes,    \* .wild-hashes
    bundle,    \* .wild-pi-cache: recorded symbol streams
    snapshot,  \* .wild-layout
    output,    \* the output file
    pc,        \* where the running link is
    job,       \* the running (or the last) link
    file,      \* the linker's handle on the output: none, requested or open
    result,    \* how the last link ended
    torn       \* the output may be other than its signature says: a link died while
               \* it ran, or the version script changed, and no full link followed

disk == <<setup, inp, script, clock>>
sidecars == <<hashes, bundle, snapshot>>
vars == <<setup, inp, script, clock, hashes, bundle, snapshot, output, pc, job, file, result, torn>>

-----------------------------------------------------------------------------
(* What a link computes.                                                   *)

SectionSize(s, v) == MapThenSumSet(LAMBDA i : Bulk[i][v[i]], Contributors[s])

\* (file_offset, file_size) of a section when the inputs have contents v.
Place(s, v) == [offset |-> MapThenSumSet(LAMBDA t : SectionSize(t, v),
                                         {t \in Sections : t < s}),
                size |-> SectionSize(s, v)]

FileSize(v) == MapThenSumSet(LAMBDA s : SectionSize(s, v), Sections)

to_layout_snapshot(v) == [s \in Sections |-> Place(s, v)]

\* The symbol stream of one input: which symbols it adds and with which flags.
\* The flags depend on the options and on the version script.
load_symbols(i, v, opt, scr) == [of |-> v, opt |-> opt, script |-> scr, versioned |-> i \in Versioned]

\* What the bundle keeps of a stream: TeeSink::add_versioned records nothing.
Recorded(stream) == [stream EXCEPT !.versioned = FALSE]

\* A section's bytes depend on its contributors and on the inputs their
\* relocations refer to; a writer-generated section depends on everything.
Feeds(s) == IF Contributors[s] = {} THEN Inputs
            ELSE Contributors[s] \cup UNION {Refs[i] : i \in Contributors[s]}

Bytes(s, opt, v, streams) == [at |-> Place(s, v), opt |-> opt,
                              from |-> [i \in Feeds(s) |-> <<v[i], streams[i]>>]]

Zero == [at |-> None, opt |-> None, from |-> None]

Contents(files) == [i \in Inputs |-> files[i].ver]

\* The output of a link that uses no cache.
ColdOutput(opt, scr, v) ==
    [size |-> FileSize(v),
     bytes |-> [s \in Sections |->
                  Bytes(s, opt, v, [i \in Inputs |-> load_symbols(i, v[i], opt, scr)])]]

-----------------------------------------------------------------------------
(* Signatures and reuse predicates.                                        *)

writes_cache(inv) == inv.mode # "off"
reads_cache(inv) == inv.mode = "rw"
Debug(inv) == "post" \in inv.skips

\* std::env::args(): the argument list of the process, which in a daemon is
\* the daemon's own.  A link's own list names its rlibs.
ProcessArgv(inv) ==
    IF inv.daemon THEN [mode |-> "serve", opt |-> "serve", rlibs |-> None]
    ELSE [mode |-> inv.mode, opt |-> inv.opt, rlibs |-> [i \in Rlibs |-> inp[i].ver]]

compute_args_hash(argv) == argv

\* An rlib is identified by its name alone.  Otherwise contents are those that
\* were loaded, size and modification time those of the file now.
hash_loaded_inputs(loaded, files) ==
    [i \in Inputs |-> IF i \in Rlibs THEN [hash |-> loaded[i].ver, size |-> 0, mtime |-> 0]
                      ELSE [hash |-> loaded[i].ver, size |-> Bulk[i][files[i].ver],
                            mtime |-> files[i].mtime]]

\* The rlib of a recorded name stays where it was when a new one is built.
Unchanged(h, i, f) == \/ i \in Rlibs
                      \/ h.size = Bulk[i][f.ver] /\ h.mtime = f.mtime
                      \/ h.hash = f.ver

verify_cached_inputs_unchanged(h) == \A i \in Inputs : Unchanged(h.inputs[i], i, inp[i])

OutputSizeMatches(h) == output # None /\ output.size = h.size

\* Also early_skip_impl and try_early_skip_from_argv, which apply the same test.
try_pre_load_skip(inv) ==
    /\ hashes # None
    /\ hashes.args = compute_args_hash(ProcessArgv(inv))
    /\ verify_cached_inputs_unchanged(hashes)
    /\ OutputSizeMatches(hashes)

classify_signature(inv, current) ==
    /\ hashes.args = compute_args_hash(ProcessArgv(inv))
    /\ hashes.inputs = current

try_whole_link_skip(inv) ==
    /\ hashes # None
    /\ classify_signature(inv, hash_loaded_inputs(inp, inp))
    /\ OutputSizeMatches(hashes)

\* (mutant) compares content hashes only
compute_clean_input_paths_bycontent(inv) ==
    IF reads_cache(inv) /\ hashes # None
    THEN {i \in Inputs : hashes.inputs[i].hash = inp[i].ver}
    ELSE {}

compute_clean_input_paths(inv) ==
    IF reads_cache(inv) /\ hashes # None
    THEN {i \in Inputs : hashes.inputs[i] = hash_loaded_inputs(inp, inp)[i]}
    ELSE {}

\* (mutant) does not notice that a section moved
reusable_section_indices_anywhere(prev, cur, clean) ==
    {s \in Sections : Contributors[s] # {} /\ Contributors[s] \subseteq clean}

reusable_section_indices(prev, cur, clean) ==
    {s \in Sections : /\ prev[s] = cur[s]
                      /\ Contributors[s] # {}
                      /\ Contributors[s] \subseteq clean}

\* (mutant) compares the layout only
is_fully_reusable_dirty(prev, cur, clean) == prev = cur

is_fully_reusable(prev, cur, clean) ==
    \A s \in Sections : prev[s] = cur[s] /\ Contributors[s] \subseteq clean

\* The tier-3 decision: reuse the whole previous output, some of its sections, or none.
Tier3(prev, cur) ==
    IF ~reads_cache(job.inv) \/ prev = None \/ ~job.prev
    THEN [kind |-> "full", reused |-> {}]
    ELSE IF is_fully_reusable(prev, cur, job.clean)
    THEN [kind |-> "whole", reused |-> Sections]
    ELSE LET reusable == reusable_section_indices(prev, cur, job.clean)
         IN  [kind |-> IF reusable = {} THEN "full" ELSE "partial", reused |-> reusable]

-----------------------------------------------------------------------------
NoJob == [inv |-> None, loaded |-> None, script |-> None, clean |-> {}, prev |-> FALSE,
          streams |-> None, replayed |-> {}, tier3 |-> [kind |-> "full", reused |-> {}],
          skipped |-> FALSE, failed |-> FALSE, place |-> "unlink", todo |-> {}, buffer |-> None]

Init ==
    /\ setup \in Setups
    /\ inp \in [Inputs -> [ver : setup.versions, mtime : {0}]]
    /\ script \in setup.scripts
    /\ clock = 0
    /\ hashes = None /\ bundle = [i \in Inputs |-> None] /\ snapshot = None
    /\ output = None
    /\ pc = "idle" /\ job = NoJob /\ file = "none" /\ result = "none" /\ torn = FALSE

Tick == clock < setup.maxClock /\ clock' = clock + 1

(* The world outside the linker.                                           *)

\* An edit, or a touch when the contents stay the same.  A changed crate gets
\* an rlib of another name, which the next invocation names.
Edit(i, v) ==
    /\ pc = "idle" \/ ("race" \in setup.faults /\ i \notin Rlibs)
    /\ i \in Rlibs => v # inp[i].ver
    /\ Tick
    /\ inp' = [inp EXCEPT ![i] = [ver |-> v, mtime |-> IF i \in Rlibs THEN 0 ELSE clock + 1]]
    /\ UNCHANGED <<setup, script, sidecars, output, pc, job, file, result, torn>>

EditScript(scr) ==
    /\ "script" \in setup.faults /\ pc = "idle" /\ scr # script /\ Tick
    /\ script' = scr /\ torn' = TRUE
    /\ UNCHANGED <<setup, inp, sidecars, output, pc, job, file, result>>

DeleteOutput ==
    /\ pc = "idle" /\ output # None /\ Tick
    /\ output' = None /\ result' = "none"
    /\ UNCHANGED <<setup, inp, script, sidecars, pc, job, file, torn>>

(* One link.                                                               *)

Invoke(inv) ==
    /\ pc = "idle" /\ Tick
    /\ job' = [NoJob EXCEPT !.inv = inv]
    /\ pc' = "check" /\ result' = "none"
    /\ UNCHANGED <<setup, inp, script, sidecars, output, file, torn>>

Ends(how) == pc' = "idle" /\ file' = "none" /\ result' = how

PreLoadSkip ==
    /\ pc = "check" /\ "pre" \in job.inv.skips /\ try_pre_load_skip(job.inv)
    /\ job' = [job EXCEPT !.loaded = inp, !.script = script, !.skipped = TRUE]
    /\ Ends("ok")
    /\ UNCHANGED <<disk, sidecars, output, torn>>

\* Loads the inputs and the auxiliary files, then applies the post-load skip,
\* classifies the inputs and maps the previous output.
LoadInputs ==
    /\ pc = "check" /\ ~("pre" \in job.inv.skips /\ try_pre_load_skip(job.inv))
    /\ job' = [job EXCEPT !.loaded = inp, !.script = script,
                          !.skipped = "post" \in job.inv.skips /\ try_whole_link_skip(job.inv),
                          !.clean = compute_clean_input_paths(job.inv),
                          !.prev = reads_cache(job.inv) /\ output # None,
                          !.place = IF setup.alwaysReplace \/ output = None THEN "unlink" ELSE "in_place"]
    /\ pc' = IF job'.skipped THEN "verify" ELSE "symbols"
    /\ UNCHANGED <<disk, sidecars, output, file, result, torn>>

Fresh(i) == load_symbols(i, job.loaded[i].ver, job.inv.opt, job.script)

\* The bundle's entries are looked up by path.
lookup(i) == bundle[i] # None /\ (i \in Rlibs => bundle[i].of = job.loaded[i].ver)

\* A clean input with an entry in the bundle is replayed.  The new bundle,
\* if there is anything to write, holds the re-parsed inputs only.
read_symbols ==
    /\ pc = "symbols"
    /\ LET replay == {i \in job.clean : lookup(i)}
       IN  /\ job' = [job EXCEPT !.replayed = replay,
                                 !.streams = [i \in Inputs |-> IF i \in replay THEN bundle[i]
                                                               ELSE Fresh(i)]]
           /\ bundle' = IF writes_cache(job.inv) /\ replay # Inputs
                        THEN [i \in Inputs |-> IF i \in replay THEN None ELSE Recorded(Fresh(i))]
                        ELSE bundle
    /\ pc' = "layout"
    /\ UNCHANGED <<disk, hashes, snapshot, output, file, result, torn>>

\* Symbol resolution reports an error: nothing has touched the output yet.
ResolutionFails ==
    /\ pc = "layout" /\ "fail" \in setup.faults
    /\ job' = [job EXCEPT !.failed = TRUE]
    /\ pc' = "verify"
    /\ UNCHANGED <<disk, sidecars, output, file, result, torn>>

\* layout::compute; for ELF it ends by announcing the size of the output.
ComputeLayout ==
    /\ pc = "layout"
    /\ file' = IF setup.sizeAtLayout /\ setup.background THEN "requested" ELSE file
    /\ pc' = "snapshot"
    /\ UNCHANGED <<disk, sidecars, output, job, result, torn>>

Current == to_layout_snapshot(Contents(job.loaded))

\* On a worker thread with more than one thread, otherwise at the start of Output::write.
CreateOutput ==
    /\ file = "requested"
    /\ file' = "open"
    /\ output' = [size |-> IF job.tier3.kind = "whole" THEN output.size
                           ELSE FileSize(Contents(job.loaded)),
                  bytes |-> IF job.place = "in_place" /\ output # None THEN output.bytes
                            ELSE [s \in Sections |-> Zero]]
    /\ UNCHANGED <<disk, sidecars, pc, job, result, torn>>

\* Output::set_size for the second time, with its sender already taken.
SetSizePanics ==
    /\ pc = "snapshot" /\ file # "none" /\ Tier3(snapshot, Current).kind = "whole"
    /\ snapshot' = Current
    /\ Ends("panic") /\ torn' = TRUE
    /\ UNCHANGED <<disk, hashes, bundle, output, job>>

\* Compares with the stored snapshot, replaces it, and starts the writer.
SnapshotLayout ==
    /\ pc = "snapshot"
    /\ LET t == Tier3(snapshot, Current)
           late == file = "none"
       IN  /\ late \/ t.kind # "whole"
           /\ job' = [job EXCEPT
                 !.tier3 = t,
                 !.place = CASE ~late -> @
                             [] late /\ t.kind # "full" -> "in_place"
                             [] late /\ t.kind = "full" -> IF setup.background THEN @ ELSE "unlink",
                 !.todo = CASE t.kind = "whole" -> {}
                            [] t.kind # "whole" -> IF setup.sizeAtLayout THEN Sections
                                                   ELSE Sections \ t.reused,
                 !.buffer = [s \in Sections |-> Zero]]
           /\ file' = IF late THEN "requested" ELSE file
    /\ snapshot' = IF writes_cache(job.inv) \/ Debug(job.inv) THEN Current ELSE snapshot
    /\ pc' = "write"
    /\ UNCHANGED <<disk, hashes, bundle, output, result, torn>>

WriteSection(s) ==
    /\ pc = "write" /\ file = "open" /\ s \in job.todo
    /\ LET b == Bytes(s, job.inv.opt, Contents(job.loaded), job.streams)
       IN  /\ output' = IF setup.mmap THEN [output EXCEPT !.bytes[s] = b] ELSE output
           /\ job' = [job EXCEPT !.todo = @ \ {s}, !.buffer[s] = b]
    /\ UNCHANGED <<disk, sidecars, pc, file, result, torn>>

Flush ==
    /\ pc = "write" /\ file = "open" /\ job.todo = {}
    /\ output' = IF setup.mmap THEN output ELSE [output EXCEPT !.bytes = job.buffer]
    /\ pc' = "verify"
    /\ UNCHANGED <<disk, sidecars, job, file, result, torn>>

\* (mutant) a failed link records its signature
verify_inputs_unchanged_records ==
    /\ pc = "verify"
    /\ IF job.failed
       THEN /\ Ends("error")
            /\ hashes' = [args |-> compute_args_hash(ProcessArgv(job.inv)),
                          size |-> FileSize(Contents(job.loaded)),
                          inputs |-> hash_loaded_inputs(job.loaded, inp)]
       ELSE pc' = "persist" /\ UNCHANGED <<file, result, hashes>>
    /\ UNCHANGED <<disk, bundle, snapshot, output, job, torn>>

\* An input modified while the link ran, or a failed link, ends in an error.
verify_inputs_unchanged ==
    /\ pc = "verify"
    /\ IF job.failed \/ \E i \in Inputs : inp[i].mtime # job.loaded[i].mtime
       THEN Ends("error")
       ELSE pc' = "persist" /\ UNCHANGED <<file, result>>
    /\ UNCHANGED <<disk, sidecars, output, job, torn>>

\* Only a link that reaches the end records its signature.
persist_link_cache ==
    /\ pc = "persist"
    /\ hashes' = IF writes_cache(job.inv) \/ Debug(job.inv)
                 THEN [args |-> compute_args_hash(ProcessArgv(job.inv)), size |-> output.size,
                       inputs |-> hash_loaded_inputs(job.loaded, inp)]
                 ELSE hashes
    /\ Ends("ok")
    /\ torn' = (torn /\ (job.skipped \/ job.replayed # {} \/ job.tier3.reused # {}))
    /\ UNCHANGED <<disk, bundle, snapshot, output, job>>

Crash ==
    /\ "crash" \in setup.faults /\ pc # "idle"
    /\ Ends("crashed") /\ torn' = TRUE
    /\ UNCHANGED <<disk, sidecars, output, job>>

Next ==
    \/ \E i \in Inputs, v \in setup.versions : Edit(i, v)
    \/ \E scr \in setup.scripts : EditScript(scr)
    \/ DeleteOutput
    \/ \E inv \in setup.invocations : Invoke(inv)
    \/ PreLoadSkip \/ LoadInputs \/ read_symbols
    \/ ResolutionFails \/ ComputeLayout \/ CreateOutput
    \/ SetSizePanics \/ SnapshotLayout
    \/ \E s \in Sections : WriteSection(s)
    \/ Flush \/ verify_inputs_unchanged \/ persist_link_cache \/ Crash

Spec == Init /\ [][Next]_vars

-----------------------------------------------------------------------------
(* Properties.                                                             *)

Judged == ColdOutput(job.inv.opt, job.script, Contents(job.loaded))

\* Whatever was skipped, replayed or reused, a link that reports success
\* leaves the output that a link without any cache would have written.  A
\* crash or a new version script puts this in doubt until a link has rebuilt
\* everything, which --incremental-cache=off does although it may update the
\* output file in place.
OutputIsCurrent == result = "ok" /\ ~torn => output = Judged

\* The signature never vouches for bytes another link left behind: between
\* links, an output of the recorded size is the cold output of the recorded
\* contents and options, even when the last link failed.
SignatureDescribesOutput ==
    pc = "idle" /\ ~torn /\ hashes # None /\ output # None =>
        LET v == [i \in Inputs |-> hashes.inputs[i].hash]
        IN  output.size = hashes.size => output = ColdOutput(hashes.args.opt, script, v)

\* An input is replayed only from a stream recorded for the very contents
\* that were loaded, although a failed link has overwritten the bundle
\* without recording a signature.
ReplayIsSafe ==
    pc = "layout" => \A i \in job.replayed : job.streams[i] = Recorded(Fresh(i))

\* A section is kept from the previous output only while that output still
\* holds it at the offset and size the new layout gives it.
ReusedInPlace ==
    pc = "write" /\ file = "open" =>
        \A s \in job.tier3.reused : output.bytes[s].at = Current[s]

(* Statements of the repository that its code does not live up to.         *)

\* Two sections computed from different contents of the same input.
PartiallyModified(o) ==
    \E s, t \in Sections :
        \/ o.bytes[s] = Zero
        \/ \E i \in Feeds(s) \cap Feeds(t) : o.bytes[s].from[i] # o.bytes[t].from[i]

\* tier3_skip.rs: a writer crash leaves the output partially modified, and
\* "Cold-link retry recovers (whole-link skip rejects, full link rebuilds)".
CrashIsRecovered == result = "ok" => ~PartiallyModified(output)

\* TeeSink: a recorded stream without its versioned symbols diverges on
\* replay, "so callers MUST keep the cache-read path canary-gated".
ReplayIsLossless == pc = "layout" => \A i \in job.replayed : job.streams[i].versioned = (i \in Versioned)

\* SignatureVerdict: "Equality means the new output would be byte-identical
\* to the existing on-disk binary".
FullMatchIsIdentical == result = "ok" /\ job.skipped => output = Judged

\* reusable_section_indices returns sections "that are safe for tier 3's
\* writer to mmap-copy from the previous output".
ReusableIsSafe ==
    pc = "write" /\ file = "open" /\ job.tier3.kind = "partial" =>
        \A s \in job.tier3.reused : output.bytes[s] = Judged.bytes[s]

\* Phase 2b: with every section reusable, the canary "proves the wholesale
\* copy is byte-correct".
WholesaleIsByteCorrect == result = "ok" /\ job.tier3.kind = "whole" => output = Judged

\* Phase 2b: "The file already contains prev's bytes, so no memcpy is needed".
InPlaceKeepsBytes ==
    result = "ok" /\ job.tier3.kind = "whole" => \A s \in Sections : output.bytes[s] # Zero

\* Output::set_size: "set_size must only be called once".
SetSizeOnce == result # "panic"

\* try_pre_load_skip: "if the argv changed, args_hash catches it".
ArgvChangeIsCaught ==
    result = "ok" /\ job.skipped => \A s \in Sections : output.bytes[s].opt = job.inv.opt

\* try_pre_load_skip: "Returns `true` on a safe skip."
SkipIsSafe == result = "ok" /\ job.skipped => output = Judged
=============================================================================
