---------------------------- MODULE SharedCache ----------------------------
(***************************************************************************)
(* Files that links on one machine share: the symbols of an SDK or of one   *)
(* .tbd file (sdk_cache.rs), and objects compiled from bitcode               *)
(* (lto/cache.rs).  Both are published by writing a temporary file and       *)
(* renaming it; linkers do not lock each other out.  The module is about one *)
(* key: files of different keys have different names.                        *)
(*                                                                         *)
(* A thread runs one link after the other in its process, as in a daemon.    *)
(* What it writes are two chunks, a header with the recorded size and time   *)
(* of the source and the symbols; for an object, its two halves.             *)
(***************************************************************************)
EXTENDS Integers, FiniteSets

CONSTANTS
    Threads,
    Setups,     \* see setup
    MaxVersion  \* bound on the number of times the source changes

ASSUME VersionAssumption == MaxVersion \in Nat

\* setup.kind is "sdk" or "lto"; setup.owner the process of each thread;
\* setup.extra the symbols of other libraries that each thread has collected
\* before it looks at the SDK; setup.racy: the source may change during links.
VARIABLES
    setup,
    version,    \* of the source: its contents, size and time
    names,      \* from file names to inodes
    content,    \* of each inode, its chunks
    pc, fd, pos,\* of each thread: where it is, its open file and its position
    buf,        \* what a thread has read, or is about to write
    mem,        \* SDK_MEM_CACHE of each process
    since,      \* the version when a thread's link began (history)
    cut         \* a write was cut short (history)

vars == <<setup, version, names, content, pc, fd, pos, buf, mem, since, cut>>

Processes == {setup.owner[t] : t \in Threads}
Cache == "cache"
None == 0
Inodes == 1 .. 2 * Cardinality(Threads) + 1

\* A file is as long as its last chunk; what was skipped before it is a hole.
Absent == [part |-> "absent", stat |-> 0, set |-> {}]
Hole == [part |-> "hole", stat |-> 0, set |-> {}]
Empty == [k \in 1 .. 2 |-> Absent]

\* What a walk over the SDK of a version collects, or a module compiles to.
Symbols(v) == {v}
Walked(t) == Symbols(version) \cup setup.extra[t]
Chunks(v, set) == [k \in 1 .. 2 |-> [part |-> IF k = 1 THEN "head" ELSE "body", stat |-> v, set |-> set]]

\* The name of the temporary file: one for all, or one for each process.
TmpOf(t) == IF setup.kind = "sdk" THEN "bin.tmp" ELSE setup.owner[t]
Names == {Cache, "bin.tmp"} \cup Processes

Goto(t, where) == pc' = [pc EXCEPT ![t] = where]

\* The files that still have a name or are open; nothing is left of the others.
Reclaim(n, f) ==
    content' = [i \in Inodes |-> IF i \in {n[x] : x \in Names} \cup {f[t] : t \in Threads}
                                 THEN content[i] ELSE Empty]

-----------------------------------------------------------------------------
(* Looking up.                                                              *)

\* A link starts: load_sdk_symbols compares the entry in memory with the
\* source; otherwise, and for get, the file is next.
load_sdk_symbols(t) ==
    LET entry == mem[setup.owner[t]] IN
    /\ pc[t] = "idle"
    /\ since' = [since EXCEPT ![t] = version]
    /\ IF setup.kind = "sdk" /\ entry[1].part = "head" /\ entry[1].stat = version
       THEN Goto(t, "hit") /\ buf' = [buf EXCEPT ![t] = entry]
       ELSE Goto(t, "open") /\ buf' = [buf EXCEPT ![t] = Empty]
    /\ UNCHANGED <<setup, version, names, content, fd, pos, mem, cut>>

open(t) ==
    /\ pc[t] = "open"
    /\ IF names[Cache] = None THEN Goto(t, "walk") /\ UNCHANGED <<fd, pos>>
       ELSE Goto(t, "read") /\ fd' = [fd EXCEPT ![t] = names[Cache]] /\ pos' = [pos EXCEPT ![t] = 0]
    /\ UNCHANGED <<setup, version, names, content, buf, mem, since, cut>>

\* read_to_end, a chunk at a time.
read_to_end(t) ==
    LET file == content[fd[t]] IN
    /\ pc[t] = "read"
    /\ IF pos[t] < 2 /\ file[pos[t] + 1] # Absent
       THEN /\ buf' = [buf EXCEPT ![t][pos[t] + 1] = file[pos[t] + 1]]
            /\ pos' = [pos EXCEPT ![t] = @ + 1]
            /\ UNCHANGED <<pc, fd>>
       ELSE /\ Goto(t, IF setup.kind = "sdk" THEN "validate" ELSE "hit")
            /\ fd' = [fd EXCEPT ![t] = None]
            /\ UNCHANGED <<buf, pos>>
    /\ Reclaim(names, fd')
    /\ UNCHANGED <<setup, version, names, mem, since, cut>>

\* (mutant) The end of the file is not looked for.
Valid_unbounded(data, now) == data[1].part = "head" /\ data[1].stat = now

\* The header is one, is that of the source as it is now, and as many symbols
\* follow as it says.
Valid(data, now) == data[1].part = "head" /\ data[1].stat = now /\ data[2] # Absent

validate(t) ==
    /\ pc[t] = "validate"
    /\ Goto(t, IF Valid(buf[t], version) THEN "insert" ELSE "walk")
    /\ UNCHANGED <<setup, version, names, content, fd, pos, buf, mem, since, cut>>

\* The entry in memory is labelled with the source as it is by now.
insert(t) ==
    /\ pc[t] = "insert"
    /\ mem' = [mem EXCEPT ![setup.owner[t]] = [buf[t] EXCEPT ![1].stat = version]]
    /\ Goto(t, "hit")
    /\ UNCHANGED <<setup, version, names, content, fd, pos, buf, since, cut>>

\* What a lookup that succeeded gives to the link.
Answer(t) == buf[t][2].set

-----------------------------------------------------------------------------
(* Storing.                                                                 *)

\* The walk over the SDK, or the compilation.
work(t) ==
    /\ pc[t] = "walk"
    /\ buf' = [buf EXCEPT ![t] = Chunks(None, Walked(t))]
    /\ Goto(t, "save")
    /\ UNCHANGED <<setup, version, names, content, fd, pos, mem, since, cut>>

\* save_sdk_symbols looks at the source after the walk.
save_sdk_symbols(t) ==
    /\ pc[t] = "save"
    /\ buf' = [buf EXCEPT ![t] = Chunks(version, @[2].set)]
    /\ Goto(t, "create")
    /\ UNCHANGED <<setup, version, names, content, fd, pos, mem, since, cut>>

Free == Inodes \ ({names[n] : n \in Names} \cup {fd[t] : t \in Threads})

\* File::create: an existing file is truncated, whoever else is writing to it.
create(t) ==
    LET tmp == TmpOf(t) IN
    /\ pc[t] = "create"
    /\ \E i \in IF names[tmp] # None THEN {names[tmp]} ELSE {j \in Free : \A k \in Free : j <= k} :
        /\ names' = [names EXCEPT ![tmp] = i]
        /\ content' = [content EXCEPT ![i] = Empty]
        /\ fd' = [fd EXCEPT ![t] = i]
    /\ pos' = [pos EXCEPT ![t] = 0]
    /\ Goto(t, "write")
    /\ UNCHANGED <<setup, version, buf, mem, since, cut>>

Overwritten(file, at, chunk) ==
    [k \in 1 .. 2 |-> IF k = at THEN chunk ELSE IF k < at /\ file[k] = Absent THEN Hole ELSE file[k]]

Written(t) ==
    /\ content' = [content EXCEPT ![fd[t]] = Overwritten(@, pos[t] + 1, buf[t][pos[t] + 1])]
    /\ pos' = [pos EXCEPT ![t] = @ + 1]

\* (mutant) write instead of write_all.
write_all_short(t) ==
    /\ pc[t] = "write" /\ Written(t)
    /\ Goto(t, "rename")
    /\ UNCHANGED <<setup, version, names, fd, buf, mem, since, cut>>

write_all(t) ==
    /\ pc[t] = "write" /\ Written(t)
    /\ Goto(t, IF pos[t] = 1 THEN "rename" ELSE "write")
    /\ UNCHANGED <<setup, version, names, fd, buf, mem, since, cut>>

\* The disk is full. The LTO cache leaves the temporary file behind.
write_fails(t) ==
    /\ pc[t] = "write"
    /\ fd' = [fd EXCEPT ![t] = None]
    /\ Reclaim(names, fd')
    /\ cut' = TRUE
    /\ Goto(t, IF setup.kind = "sdk" THEN "cleanup" ELSE "done")
    /\ UNCHANGED <<setup, version, names, pos, buf, mem, since>>

\* Whatever has the temporary name becomes the cache file; that nothing has it
\* is an error.
rename(t) ==
    LET tmp == TmpOf(t) IN
    /\ pc[t] = "rename"
    /\ names' = IF names[tmp] = None THEN names ELSE [names EXCEPT ![Cache] = names[tmp], ![tmp] = None]
    /\ fd' = [fd EXCEPT ![t] = None]
    /\ Reclaim(names', fd')
    /\ Goto(t, IF names[tmp] = None THEN "cleanup" ELSE "done")
    /\ UNCHANGED <<setup, version, pos, buf, mem, since, cut>>

\* After an error the temporary file is removed, by name. No error is fatal.
remove_file(t) ==
    /\ pc[t] = "cleanup"
    /\ names' = [names EXCEPT ![TmpOf(t)] = None]
    /\ Reclaim(names', fd)
    /\ Goto(t, "done")
    /\ UNCHANGED <<setup, version, fd, pos, buf, mem, since, cut>>

-----------------------------------------------------------------------------

\* The link is over.
finish(t) ==
    /\ pc[t] \in {"hit", "done"}
    /\ Goto(t, "idle") /\ buf' = [buf EXCEPT ![t] = Empty] /\ pos' = [pos EXCEPT ![t] = 0]
    /\ since' = [since EXCEPT ![t] = None]
    /\ UNCHANGED <<setup, version, names, content, fd, mem, cut>>

\* A process ends or is killed, and another one takes its place.
Kill(p) ==
    LET mine == {t \in Threads : setup.owner[t] = p} IN
    /\ pc' = [t \in Threads |-> IF t \in mine THEN "idle" ELSE pc[t]]
    /\ fd' = [t \in Threads |-> IF t \in mine THEN None ELSE fd[t]]
    /\ pos' = [t \in Threads |-> IF t \in mine THEN 0 ELSE pos[t]]
    /\ buf' = [t \in Threads |-> IF t \in mine THEN Empty ELSE buf[t]]
    /\ mem' = [mem EXCEPT ![p] = Empty]
    /\ since' = [t \in Threads |-> IF t \in mine THEN None ELSE since[t]]
    /\ Reclaim(names, fd')
    /\ cut' = (cut \/ \E t \in mine : pc[t] = "write")
    /\ UNCHANGED <<setup, version, names>>

\* The SDK is updated.
Update ==
    /\ setup.kind = "sdk" /\ version < MaxVersion
    /\ setup.racy \/ \A t \in Threads : pc[t] = "idle"
    /\ version' = version + 1
    /\ UNCHANGED <<setup, names, content, pc, fd, pos, buf, mem, since, cut>>

Init ==
    /\ setup \in Setups
    /\ version = 1
    /\ names = [n \in Names |-> None]
    /\ content = [i \in Inodes |-> Empty]
    /\ pc = [t \in Threads |-> "idle"]
    /\ fd = [t \in Threads |-> None] /\ pos = [t \in Threads |-> 0]
    /\ buf = [t \in Threads |-> Empty]
    /\ mem = [p \in Processes |-> Empty]
    /\ since = [t \in Threads |-> None]
    /\ cut = FALSE

Next ==
    \/ \E t \in Threads :
        \/ load_sdk_symbols(t) \/ open(t) \/ read_to_end(t) \/ validate(t) \/ insert(t)
        \/ work(t) \/ save_sdk_symbols(t) \/ create(t) \/ write_all(t) \/ write_fails(t) \/ rename(t)
        \/ remove_file(t) \/ finish(t)
    \/ \E p \in Processes : Kill(p)
    \/ Update

Spec == Init /\ [][Next]_vars

-----------------------------------------------------------------------------

\* A lookup that succeeds gives the link the whole set that a walk over the
\* source would have given it at some moment of the link, whatever other
\* linkers are writing, were killed while they wrote, or left behind
\* (load_sdk_symbols: "Anything else (missing file, short read, schema drift,
\* stat drift) returns None").
HitsAreCurrent ==
    \A t \in Threads : pc[t] = "hit" => \E v \in since[t] .. version : Answer(t) = Symbols(v)

\* Once no one is writing, and unless a write was cut short, the cache file is
\* complete: linkers that truncate each other's temporary file, or rename it
\* from under each other, end up with a file that is as good as their own.
CacheSettles ==
    (\A t \in Threads : pc[t] \notin {"write", "rename"}) /\ ~cut /\ names[Cache] # None =>
        LET file == content[names[Cache]]
        IN  file[1].part = "head" /\ file[2].set = Symbols(file[1].stat)

\* The cache file is never torn, not even for a moment: save_sdk_symbols'
\* "Concurrent wild invocations (cargo builds with -j > 1) won't observe a torn
\* file".
NoTornFile == names[Cache] # None => content[names[Cache]][2] # Absent

=============================================================================
