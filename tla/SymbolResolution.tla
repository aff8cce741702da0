-------------------------- MODULE SymbolResolution --------------------------
(***************************************************************************)
(* From symbol names to definitions (libwild/src/resolution.rs and          *)
(* symbol_db.rs), in the three phases that lib.rs runs one after the other: *)
(*                                                                         *)
(*   "resolve"       jobs look up the undefined symbols of loaded files and *)
(*                   load the archive members and as-needed shared objects  *)
(*                   that define them, each exactly once;                   *)
(*   "alternatives"  one job per hash bucket picks, for each name with      *)
(*                   several definitions, the one that is used;             *)
(*   "canonicalise"  what is still undefined is given one symbol per name,  *)
(*                   or a __start_/__stop_ symbol.                          *)
(*                                                                         *)
(* A symbol id is an index into link.syms; 0 is SymbolId::undefined().      *)
(* Local symbols and the null symbol never take part and are left out.      *)
(***************************************************************************)
EXTENDS Naturals, Sequences, FiniteSets

CONSTANTS
    Names, Versions, NoVersion,
    Buckets,        \* the hash buckets of the symbol database
    BucketOf,       \* the bucket of a name or of a name and a version
    ChunkSize,      \* MAX_SYMBOLS_PER_WORK_ITEM
    MachO,          \* ALL_WEAK_MIN_VISIBILITY and the other flags of that platform
    Links           \* the possible Link records

Prelude == 1
Key == Names \X (Versions \cup {NoVersion})
Visibility == {"Default", "Protected", "Hidden"}
Flag == {"DYNAMIC", "NON_INTERPOSABLE", "DOWNGRADE_TO_LOCAL", "EXPORT_DYNAMIC"}

\* "undefined" and "weakref" are references, "force" is a --undefined symbol of
\* the prelude, "internal" a symbol the prelude or a linker script defines.
Symbol == [file : Nat, name : Names, version : Versions \cup {NoVersion}, default : BOOLEAN,
           kind : {"undefined", "weakref", "force", "internal", "Strong", "Weak", "GnuUnique", "Common"},
           size : Nat, vis : Visibility, comdat : BOOLEAN, malformed : BOOLEAN]

File == [kind : {"prelude", "object", "dynamic", "script"}, optional : BOOLEAN]

Link == [files : Seq(File), syms : Seq(Symbol), entry : Names, startStop : SUBSET Names,
         output : {"static", "dynamic", "shared"}, allowMultiple : BOOLEAN]

ASSUME ResolutionAssumption ==
    /\ NoVersion \notin Versions /\ IsFiniteSet(Names) /\ IsFiniteSet(Versions)
    /\ BucketOf \in [Key -> Buckets]
    /\ ChunkSize \in Nat \ {0} /\ MachO \in BOOLEAN /\ Links \subseteq Link

\* The prelude comes first and symbol ids are handed out file by file.  Only the
\* prelude has --undefined symbols; it and linker scripts refer to nothing else.
ASSUME LinkAssumption ==
    \A l \in Links :
        /\ l.files # << >> /\ l.files[Prelude].kind = "prelude"
        /\ \A f \in DOMAIN l.files : /\ l.files[f].kind = "prelude" => f = Prelude
                                     /\ l.files[f].optional => l.files[f].kind \in {"object", "dynamic"}
        /\ \A i \in DOMAIN l.syms :
            /\ l.syms[i].file \in DOMAIN l.files
            /\ \A k \in DOMAIN l.syms : i <= k => l.syms[i].file <= l.syms[k].file
            /\ l.syms[i].kind \in {"force", "internal"}
                 <=> l.files[l.syms[i].file].kind \in {"prelude", "script"}
            /\ l.syms[i].kind = "force" => l.syms[i].file = Prelude

VARIABLES
    link,       \* what the input files say; never changes
    defs,       \* symbol_definitions
    flags,      \* per_symbol_flags
    taken,      \* the files whose AtomicTake of definitions is empty
    jobs,       \* the work items of phase "resolve"
    loaded,     \* Outputs::loaded, an ArrayQueue
    undefined,  \* Outputs::undefined_symbols
    errors,     \* some job has pushed an error
    pending,    \* the names whose alternatives a bucket has yet to process
    stores,     \* the definitions a bucket is about to store
    canonical,  \* name_to_id and versioned_name_to_id of canonicalise_undefined_symbols
    synthetic,  \* names of the start/stop symbols added so far
    phase, result

vars == <<link, defs, flags, taken, jobs, loaded, undefined, errors, pending, stores,
          canonical, synthetic, phase, result>>

Indices == 1..Len(link.syms)
Sym(i) == link.syms[i]
Files == 1..Len(link.files)
IsDynamic(f) == link.files[f].kind = "dynamic"
IsObject(f) == link.files[f].kind \in {"object", "dynamic"}
SymbolsOf(f) == {i \in Indices : Sym(i).file = f}

First(S) == CHOOSE i \in S : \A j \in S : i <= j
Last(S) == CHOOSE i \in S : \A j \in S : j <= i

\* load_symbols: hidden symbols of shared objects are ignored, and only these
\* enter the name tables.
Defined(i) ==
    /\ Sym(i).kind \notin {"undefined", "weakref", "force"}
    /\ ~(IsDynamic(Sym(i).file) /\ Sym(i).vis = "Hidden")

Candidates(n, v) ==
    {i \in Indices : /\ Defined(i) /\ Sym(i).name = n
                     /\ IF v = NoVersion THEN Sym(i).default ELSE Sym(i).version = v}

\* name_to_id: the first definition of a name; the others are its alternatives.
name_to_id(n, v) == LET K == Candidates(n, v) IN IF K = {} THEN 0 ELSE First(K)

\* SymbolPrioritySelector: strong, then the largest common, then weak; the
\* first of several.
best(K) ==
    LET Of(kinds) == {i \in K : Sym(i).kind \in kinds}
        largest == {i \in Of({"Common"}) : \A j \in Of({"Common"}) : Sym(j).size <= Sym(i).size}
    IN  CASE Of({"Strong"}) # {} -> First(Of({"Strong"}))
          [] Of({"Strong"}) = {} /\ largest # {} -> First(largest)
          [] Of({"Strong", "Common"}) = {} /\ Of({"Weak", "GnuUnique"}) # {} ->
                First(Of({"Weak", "GnuUnique"}))
          [] OTHER -> 0

\* get_non_dynamic looks the alternatives of p up among the unversioned ones of
\* the bucket it is called on, also for a versioned name.
get_non_dynamic(p, n, v) ==
    best(IF p = name_to_id(n, NoVersion) /\ BucketOf[<<n, v>>] = BucketOf[<<n, NoVersion>>]
         THEN {i \in Candidates(n, NoVersion) \ {p} : ~IsDynamic(Sym(i).file)} ELSE {})

\* SymbolDb::get
get(n, v, allow_dynamic) ==
    LET p == name_to_id(n, v) IN
    IF p # 0 /\ ~allow_dynamic /\ IsDynamic(Sym(p).file) THEN get_non_dynamic(p, n, v) ELSE p

-----------------------------------------------------------------------------
(* Phase "resolve". *)

Job == [file : Nat, start : Nat, at : Nat, end : Nat, want : Nat]

\* work_items_do: chunks of ChunkSize symbols, the prelude in one piece, and a
\* file without symbols in one empty piece.
work_items_whole(f, want) ==   \* (mutant)
    LET S == SymbolsOf(f) IN
    IF S = {} THEN {}
    ELSE {[file |-> f, start |-> a, at |-> a, end |-> a + ChunkSize - 1, want |-> want] :
             a \in {b \in S : (b - First(S)) % ChunkSize = 0 /\ b + ChunkSize - 1 <= Last(S)}}
work_items(f, want) ==
    LET S == SymbolsOf(f)
        chunk == IF IsObject(f) THEN ChunkSize ELSE Cardinality(S)
        Item(a) == [file |-> f, start |-> a, at |-> a, end |-> a + chunk - 1, want |-> want]
    IN  IF S = {} THEN {[file |-> f, start |-> 1, at |-> 1, end |-> 0, want |-> want]}
        ELSE {[Item(a) EXCEPT !.end = IF @ > Last(S) THEN Last(S) ELSE @] :
                 a \in {b \in S : (b - First(S)) % chunk = 0}}

InitialFlags(i) ==
    CASE IsDynamic(Sym(i).file) -> {"DYNAMIC"}
      [] ~IsObject(Sym(i).file) -> {"NON_INTERPOSABLE"}
      [] OTHER -> IF MachO /\ Defined(i) /\ Sym(i).vis = "Hidden"
                  THEN {"DOWNGRADE_TO_LOCAL", "NON_INTERPOSABLE"} ELSE {}

\* resolve_group queues the files that are not optional; load_prelude begins
\* with the entry point.
Init ==
    /\ link \in Links
    /\ defs = [i \in Indices |-> IF Defined(i) \/ Sym(i).file = Prelude THEN i ELSE 0]
    /\ flags = [i \in Indices |-> InitialFlags(i)]
    /\ taken = {f \in Files : ~link.files[f].optional}
    /\ LET entry == name_to_id(link.entry, NoVersion)
       IN  jobs = work_items(Prelude, IF entry = 0 THEN 0 ELSE Sym(entry).file)
                    \cup UNION {work_items(f, 0) : f \in {h \in taken : IsObject(h)}}
    /\ loaded \in {s \in [1..Cardinality({f \in taken : IsObject(f)}) -> taken] :
                      \A i, j \in DOMAIN s : IsObject(s[i]) /\ (i < j => s[i] < s[j])}
    /\ undefined = {} /\ errors = FALSE
    /\ pending = {} /\ stores = [b \in Buckets |-> [ids |-> {}, to |-> 0]]
    /\ canonical = [k \in Key |-> 0] /\ synthetic = << >>
    /\ phase = "resolve" /\ result = "none"

Advance_stays(j, want) == jobs' = (jobs \ {j}) \cup {[j EXCEPT !.want = want]}   \* (mutant)
Advance(j, want) == jobs' = (jobs \ {j}) \cup {[j EXCEPT !.at = @ + 1, !.want = want]}
Busy(j) == j.at <= j.end
Runs(j) == phase = "resolve" /\ j.want = 0 /\ Busy(j)

\* is_taken() is read first; take() comes later, in TakeFile.
Request(f) == IF f \in taken THEN 0 ELSE f

\* Symbols that need no lookup: defined ones, and hidden ones of shared objects.
Resolved(i) == defs[i] # 0 \/ (IsDynamic(Sym(i).file) /\ Sym(i).vis = "Hidden")

SkipSymbol(j) ==
    /\ Runs(j) /\ Resolved(j.at) /\ Sym(j.at).kind # "force"
    /\ Advance(j, 0)
    /\ UNCHANGED <<link, defs, flags, taken, loaded, undefined, errors, pending, stores,
                   canonical, synthetic, phase, result>>

\* load_prelude: a --undefined symbol.
ForceUndefined(j) ==
    /\ Runs(j) /\ Sym(j.at).kind = "force"
    /\ LET p == name_to_id(Sym(j.at).name, NoVersion) IN
        /\ defs' = IF p = 0 THEN defs ELSE [defs EXCEPT ![j.at] = p]
        /\ Advance(j, IF p = 0 THEN 0 ELSE Request(Sym(p).file))
    /\ UNCHANGED <<link, flags, taken, loaded, undefined, errors, pending, stores, canonical,
                   synthetic, phase, result>>

\* errors holds one error; a second push is dropped.
handle_result == errors' = TRUE

\* A symbol whose name cannot be read ends the job.
SymbolFails(j) ==
    /\ Runs(j) /\ ~Resolved(j.at) /\ Sym(j.at).malformed
    /\ handle_result
    /\ jobs' = jobs \ {j}
    /\ UNCHANGED <<link, defs, flags, taken, loaded, undefined, pending, stores, canonical,
                   synthetic, phase, result>>

\* The version of an undefined symbol: in an object it is part of the name, in
\* a shared object it is the versym entry at the index within the chunk.
version_name(j) ==
    LET at == First(SymbolsOf(j.file)) + (j.at - j.start)
        own == Sym(j.at).version
    IN  IF ~IsDynamic(j.file) THEN own
        ELSE IF Sym(at).kind \in {"undefined", "weakref"} THEN Sym(at).version ELSE NoVersion

\* The flags a reference with the given visibility adds to a definition.
VisibilityFlags(old, vis) ==
    CASE vis = "Hidden" -> old \cup {"NON_INTERPOSABLE", "DOWNGRADE_TO_LOCAL"}
      [] vis = "Protected" /\ "DYNAMIC" \notin old -> old \cup {"NON_INTERPOSABLE"}
      [] OTHER -> old

\* resolve_symbol
ResolveSymbol(j) ==
    /\ Runs(j) /\ ~Resolved(j.at) /\ ~Sym(j.at).malformed
    /\ LET s == Sym(j.at)
           d == get(s.name, version_name(j), s.vis = "Default")
           other == d # 0 /\ Sym(d).file # j.file /\ s.kind # "weakref"
           maybe == d = 0 \/ (~other /\ Sym(d).file # Prelude)
       IN  /\ defs' = [defs EXCEPT ![j.at] = d]
           /\ flags' = IF d = 0 THEN flags ELSE [flags EXCEPT ![d] = VisibilityFlags(@, s.vis)]
           /\ Advance(j, IF other /\ ~(IsDynamic(j.file) /\ IsDynamic(Sym(d).file))
                         THEN Request(Sym(d).file) ELSE 0)
           /\ undefined' = IF maybe
                           THEN undefined \cup
                                  {[id |-> j.at, version |-> version_name(j),
                                    ifLoaded |-> IF d = 0 THEN 0 ELSE Sym(d).file]}
                           ELSE undefined
    /\ UNCHANGED <<link, taken, loaded, errors, pending, stores, canonical, synthetic, phase, result>>

\* AtomicTake::take: whether this job is the one that gets the definitions.
Takes_checked(f) == TRUE   \* (mutant)
Takes(f) == f \notin taken

\* The rest of try_request_file_id: the job that takes the definitions pushes
\* the file onto loaded and spawns its work items.
TakeFile(j) ==
    /\ phase = "resolve" /\ j.want # 0
    /\ LET k == [j EXCEPT !.want = 0] IN
        IF Takes(j.want)
        THEN /\ taken' = taken \cup {j.want}
             /\ loaded' = Append(loaded, j.want)
             /\ jobs' = (jobs \ {j}) \cup {k} \cup work_items(j.want, 0)
        ELSE /\ jobs' = (jobs \ {j}) \cup {k}
             /\ UNCHANGED <<taken, loaded>>
    /\ UNCHANGED <<link, defs, flags, undefined, errors, pending, stores, canonical, synthetic,
                   phase, result>>

\* The files that are not NotLoaded after phase "resolve".
LoadedFiles == {loaded[i] : i \in DOMAIN loaded} \cup {f \in Files : ~IsObject(f)}

Keys == {k \in Key : Cardinality(Candidates(k[1], k[2])) > 1}

\* The scope is over: an error ends the link, otherwise the buckets start.
FinishResolve ==
    /\ phase = "resolve" /\ \A j \in jobs : j.want = 0 /\ ~Busy(j)
    /\ IF errors THEN result' = "Err" /\ phase' = "done" /\ UNCHANGED pending
       ELSE phase' = "alternatives" /\ pending' = Keys /\ UNCHANGED result
    /\ UNCHANGED <<link, defs, flags, taken, jobs, loaded, undefined, errors, stores, canonical,
                   synthetic>>

-----------------------------------------------------------------------------
(* Phase "alternatives". *)

\* symbol_strength is Undefined for what is not an object or not loaded.
Usable(i) == Sym(i).file \in LoadedFiles /\ IsObject(Sym(i).file) /\ Sym(i).kind # "internal"

\* select_symbol: shared objects count only when nothing else defines the name.
select_symbol_any(K) ==   \* (mutant)
    LET U == {i \in K : Usable(i)} IN IF U # {} THEN First(U) ELSE First(K)
select_symbol(K) ==
    LET regular == {i \in K : Usable(i) /\ "DYNAMIC" \notin flags[i]}
    IN  IF best(regular) # 0 THEN best(regular) ELSE select_symbol_any(K)

\* A second strong definition is an error, unless it and the first one are
\* both in COMDAT groups.
Duplicate(K) ==
    LET strong == {i \in K : Usable(i) /\ "DYNAMIC" \notin flags[i] /\ Sym(i).kind = "Strong"}
    IN  \E i \in strong : /\ i # First(strong) /\ ~link.allowMultiple
                          /\ ~(Sym(First(strong)).comdat /\ Sym(i).comdat)

Rank == [v \in Visibility |-> CASE v = "Default" -> 0 [] v = "Protected" -> 1 [] v = "Hidden" -> 2]

\* The most restrictive visibility of the definitions, or on Mach-O the least
\* restrictive one when they are all weak.
AllWeak(K) == MachO /\ \A i \in K : Usable(i) /\ Sym(i).kind = "Weak"
MergedVisibility(K) ==
    LET V == {Sym(i).vis : i \in K}
    IN  CHOOSE v \in V : \A w \in V : IF AllWeak(K) THEN Rank[v] <= Rank[w] ELSE Rank[w] <= Rank[v]

\* What process_alternatives does to the flags of the definitions in K.
AlternativeFlags(K, selected) ==
    LET vis == MergedVisibility(K)
        promoted == AllWeak(K) /\ vis = "Default" /\ \E i \in K : Sym(i).vis = "Hidden"
        New(i) == IF promoted
                  THEN (flags[i] \ {"DOWNGRADE_TO_LOCAL"})
                         \cup (IF i = selected THEN {"EXPORT_DYNAMIC"} ELSE {})
                  ELSE VisibilityFlags(flags[i], vis)
    IN  [i \in DOMAIN flags |-> IF i \in K THEN New(i) ELSE flags[i]]

\* One round of process_alternatives in bucket b: unversioned names come
\* before versioned ones.  The flags are or-ed and commute with other buckets;
\* the definitions are stored one by one.
ProcessAlternatives(b) ==
    /\ phase = "alternatives" /\ stores[b].ids = {}
    /\ \E k \in pending :
        LET K == Candidates(k[1], k[2]) IN
        /\ BucketOf[k] = b
        /\ k[2] # NoVersion => \A h \in pending : BucketOf[h] = b => h[2] # NoVersion
        /\ pending' = pending \ {k}
        /\ IF Duplicate(K) THEN errors' = TRUE /\ UNCHANGED <<flags, stores>>
           ELSE /\ stores' = [stores EXCEPT ![b] = [ids |-> K, to |-> select_symbol(K)]]
                /\ flags' = AlternativeFlags(K, select_symbol(K))
                /\ UNCHANGED errors
    /\ UNCHANGED <<link, defs, taken, jobs, loaded, undefined, canonical, synthetic, phase, result>>

\* update_definition, a relaxed store.
UpdateDefinition(b) ==
    /\ phase = "alternatives" /\ stores[b].ids # {}
    /\ LET i == First(stores[b].ids) IN
        /\ defs' = [defs EXCEPT ![i] = stores[b].to]
        /\ stores' = [stores EXCEPT ![b].ids = @ \ {i}]
    /\ UNCHANGED <<link, flags, taken, jobs, loaded, undefined, errors, pending, canonical,
                   synthetic, phase, result>>

\* All buckets are done; duplicate symbols end the link.
FinishAlternatives ==
    /\ phase = "alternatives" /\ pending = {} /\ \A b \in Buckets : stores[b].ids = {}
    /\ IF errors THEN result' = "Err" /\ phase' = "done"
       ELSE phase' = "canonicalise" /\ UNCHANGED result
    /\ UNCHANGED <<link, defs, flags, taken, jobs, loaded, undefined, errors, pending, stores,
                   canonical, synthetic>>

-----------------------------------------------------------------------------
(* Phase "canonicalise". *)

\* SymbolDb::definition takes two steps.
definition(i) == IF defs[i] = 0 THEN 0 ELSE defs[defs[i]]

\* get_unversioned, which also finds start/stop symbols once they exist.
get_unversioned(n) ==
    IF name_to_id(n, NoVersion) # 0 THEN name_to_id(n, NoVersion)
    ELSE IF \E x \in DOMAIN synthetic : synthetic[x] = n
         THEN Len(link.syms) + (CHOOSE x \in DOMAIN synthetic : synthetic[x] = n) ELSE 0

\* apply_visibility_to_definition for a reference u that stays undefined.
ApplyVisibility(fl, u) ==
    LET p == get_unversioned(Sym(u).name)
        d == IF p = 0 THEN 0 ELSE definition(p)
    IN  IF Sym(u).vis = "Default" \/ d = 0 THEN fl
        ELSE [fl EXCEPT ![d] = VisibilityFlags(@, Sym(u).vis)]

\* The first reference to a name no loaded file defines becomes its canonical
\* symbol: dynamic when it may be defined at run time.
MakeCanonical(u) ==
    LET dyn == /\ Sym(u).vis = "Default"
               /\ link.output = "shared" \/ (link.output = "dynamic" /\ Sym(u).kind = "weakref")
        new == IF dyn THEN "DYNAMIC" ELSE "NON_INTERPOSABLE"
    IN  /\ flags' = ApplyVisibility([flags EXCEPT ![u] = @ \cup {new}], u)
        /\ defs' = [defs EXCEPT ![u] = u]
        /\ canonical' = [canonical EXCEPT ![<<Sym(u).name, NoVersion>>] = u]
        /\ UNCHANGED synthetic

\* allocate_start_stop_symbol_id and add_synthetic_symbol.
AddSynthetic(u) ==
    LET id == Len(defs) + 1 IN
    /\ defs' = Append([defs EXCEPT ![u] = id], id)
    /\ flags' = Append(flags, {"NON_INTERPOSABLE"})
    /\ canonical' = [canonical EXCEPT ![<<Sym(u).name, NoVersion>>] = id]
    /\ synthetic' = Append(synthetic, Sym(u).name)

\* ignore_if_loaded: the file that defines the symbol was loaded after all.
IsDefined_always(r) == r.ifLoaded # 0   \* (mutant)
IsDefined(r) == r.ifLoaded # 0 /\ r.ifLoaded \in LoadedFiles

\* One round of the loop in canonicalise_undefined_symbols, by descending id.
Canonicalise ==
    /\ phase = "canonicalise" /\ undefined # {}
    /\ LET r == CHOOSE x \in undefined : \A y \in undefined : y.id <= x.id
           u == r.id
           key == <<Sym(u).name, r.version>>
       IN  /\ undefined' = undefined \ {r}
           /\ IF IsDefined(r) THEN UNCHANGED <<defs, flags, canonical, synthetic>>
              ELSE IF r.version = NoVersion /\ canonical[key] = 0
              THEN IF Sym(u).name \in link.startStop THEN AddSynthetic(u) ELSE MakeCanonical(u)
              ELSE /\ flags' = IF r.version = NoVersion THEN ApplyVisibility(flags, u) ELSE flags
                   /\ defs' = IF canonical[key] = 0 THEN defs
                              ELSE [defs EXCEPT ![u] = IF r.version = NoVersion
                                                       THEN definition(canonical[key])
                                                       ELSE canonical[key]]
                   /\ canonical' = IF canonical[key] = 0 THEN [canonical EXCEPT ![key] = u]
                                   ELSE canonical
                   /\ UNCHANGED synthetic
    /\ UNCHANGED <<link, taken, jobs, loaded, errors, pending, stores, phase, result>>

FinishCanonicalise ==
    /\ phase = "canonicalise" /\ undefined = {}
    /\ phase' = "done" /\ result' = "Ok"
    /\ UNCHANGED <<link, defs, flags, taken, jobs, loaded, undefined, errors, pending, stores,
                   canonical, synthetic>>

\* The phases are over.
Returned == phase = "done" /\ UNCHANGED vars

Next ==
    \/ \E j \in jobs : SkipSymbol(j) \/ ForceUndefined(j) \/ SymbolFails(j) \/ ResolveSymbol(j)
                          \/ TakeFile(j)
    \/ \E b \in Buckets : ProcessAlternatives(b) \/ UpdateDefinition(b)
    \/ FinishResolve \/ FinishAlternatives \/ Canonicalise \/ FinishCanonicalise \/ Returned

Spec == Init /\ [][Next]_vars
\* Rayon runs every job of a scope.
FairSpec == Spec /\ WF_vars(Next)

-----------------------------------------------------------------------------
(* Reference definitions: what a link should do, without a schedule. *)

\* Hidden symbols of shared objects are ignored.
References(f) ==
    {i \in SymbolsOf(f) : /\ Sym(i).kind \in {"undefined", "weakref"}
                          /\ ~(IsDynamic(f) /\ Sym(i).vis = "Hidden")}

\* The files a file makes the link load.
Needs(f) ==
    LET strong == {i \in References(f) : Sym(i).kind = "undefined"}
        force == {name_to_id(n, NoVersion) : n \in {Sym(i).name : i \in {h \in SymbolsOf(f) :
                       Sym(h).kind = "force"}} \cup (IF f = Prelude THEN {link.entry} ELSE {})}
        found == force \cup {get(Sym(i).name, Sym(i).version, Sym(i).vis = "Default") : i \in strong}
    IN  {g \in {Sym(d).file : d \in found \ {0}} : ~(IsDynamic(f) /\ IsDynamic(g))}

Closed(F) ==
    /\ \A f \in Files : ~link.files[f].optional => f \in F
    /\ \A f \in F : Needs(f) \subseteq F

\* The names that loaded objects define strongly more than once.
Clashes ==
    {k \in Keys : \E i, j \in Candidates(k[1], k[2]) :
        /\ i # j /\ {Sym(i).file, Sym(j).file} \subseteq LoadedFiles
        /\ ~IsDynamic(Sym(i).file) /\ ~IsDynamic(Sym(j).file)
        /\ Sym(i).kind = "Strong" /\ Sym(j).kind = "Strong" /\ ~(Sym(i).comdat /\ Sym(j).comdat)}

-----------------------------------------------------------------------------
(* Properties. *)

\* However many jobs request a file at once it is loaded once, so that the
\* queue of loaded files, which has room for every object, never overflows
\* (the push is unwrapped).
LoadedOnce ==
    /\ \A i, j \in DOMAIN loaded : loaded[i] = loaded[j] => i = j
    /\ Len(loaded) <= Cardinality({f \in Files : IsObject(f)})

\* Archive selection is exact and does not depend on the schedule: the loaded
\* files are the least set that has the files of the command line and the
\* definitions of all strong references of its files.
ArchiveClosure ==
    phase \in {"alternatives", "canonicalise"} \/ result = "Ok"
        => \A f \in Files : f \in LoadedFiles <=> \A F \in SUBSET Files : Closed(F) => f \in F

\* An unversioned reference of a loaded object ends up at a symbol of a loaded
\* file, at a start/stop symbol or at the canonical undefined symbol, which is
\* the same one for all references to the name; never at a file that was left
\* out.  Two steps are enough to get there: a third one changes nothing.
BoundToLoaded ==
    result = "Ok" =>
        /\ \A f \in LoadedFiles : ~IsDynamic(f) =>
            \A i \in References(f) : Sym(i).version = NoVersion =>
                /\ definition(i) # 0
                /\ definition(i) \in Indices => Sym(definition(i)).file \in LoadedFiles
        /\ \A i \in DOMAIN defs :
            definition(i) # 0 => definition(definition(i)) = definition(i)

\* The verdict and the definition used for a name of a strong reference are
\* functions of the loaded files.  The link fails exactly when a loaded file
\* has a symbol that cannot be read or two loaded objects define a name
\* strongly.  Otherwise the definition is the first strong one, the largest
\* common one, the first weak one, then the first one of a shared object.
SelectionIsDeterministic ==
    /\ result # "none" =>
        (result = "Err" <=>
            \/ \E f \in LoadedFiles : \E i \in References(f) : Sym(i).malformed
            \/ Clashes # {} /\ ~link.allowMultiple)
    /\ result = "Ok" =>
        \A f \in LoadedFiles : ~IsDynamic(f) =>
            \A i \in References(f) :
                LET K == {c \in Candidates(Sym(i).name, NoVersion) : Usable(c)}
                    regular == {c \in K : ~IsDynamic(Sym(c).file)}
                IN  Sym(i).kind = "undefined" /\ Sym(i).version = NoVersion /\ K # {}
                      /\ (Sym(i).vis = "Default" \/ regular # {})
                    => definition(i) = IF regular # {} THEN best(regular) ELSE First(K)

\* The phases come to an end.
Termination == <>(phase = "done")

\* "Dynamic symbols, even strong ones, don't override non-dynamic weak symbols"
\* (symbol_db.rs): a strong reference to a name that a loaded object defines
\* never ends up at a shared object.
DynamicDoesNotOverride ==
    result = "Ok" =>
        \A f \in LoadedFiles : \A i \in References(f) :
            (/\ ~IsDynamic(f) /\ Sym(i).kind = "undefined" /\ Sym(i).version = NoVersion
             /\ \E c \in Candidates(Sym(i).name, NoVersion) : Usable(c) /\ ~IsDynamic(Sym(c).file))
            => ~IsDynamic(Sym(definition(i)).file)

\* "The symbol we select will be the first strongly defined symbol in a loaded
\* object" (symbol_db.rs): a weak reference, too, finds a strong definition in
\* a loaded object.
WeakReferencesFindDefinitions ==
    result = "Ok" =>
        \A f \in LoadedFiles : \A i \in References(f) :
            LET K == {c \in Candidates(Sym(i).name, NoVersion) :
                        Usable(c) /\ ~IsDynamic(Sym(c).file) /\ Sym(c).kind = "Strong"}
            IN  Sym(i).version = NoVersion /\ K # {} => definition(i) = First(K)

\* "If the undefined reference has non-default visibility, the definition must
\* be downgraded so it cannot leak into dynsym" (resolution.rs).
HiddenReferencesLocalise ==
    result = "Ok" =>
        \A f \in LoadedFiles : \A i \in References(f) :
            Sym(i).vis = "Hidden" /\ definition(i) # i
                => "DOWNGRADE_TO_LOCAL" \in flags[definition(i)]

\* "An object::SymbolIndex is an index into the ELF symbol table of the input
\* file" (symbol_db.rs): the version an undefined symbol is recorded with is the
\* one at its own index.
OwnVersion == \A r \in undefined : r.version = Sym(r.id).version
=============================================================================
