----------------------------- MODULE ElfTables -----------------------------
(***************************************************************************)
(* How the ELF platform agrees with itself about .got, .plt.got, .rela.plt, *)
(* .rela.dyn, .relr.dyn and .dynsym.  Nothing lists the entries of these     *)
(* tables.  While sections are scanned, relocations set flags on symbols and *)
(* reserve dynamic relocations; then allocate_resolution turns the flags of  *)
(* each symbol into sizes, create_resolution gives each symbol addresses in  *)
(* the tables, and the writer, group by group, takes entries one by one as   *)
(* it applies relocations and processes resolutions.  The four passes decide *)
(* from the flags independently of each other.                              *)
(*                                                                         *)
(* x86-64, final links (not -r).  Group 1 holds the prelude, the last two    *)
(* the shared objects and the epilogue, the others an object each.  The      *)
(* flags a symbol has before layout starts never change later; a hidden      *)
(* reference has put NON_INTERPOSABLE on the definition by then, so merging  *)
(* a reference's own flags changes nothing and is left out.                  *)
(*                                                                         *)
(* ElfResolution holds what is decided from the flags of one symbol.         *)
(***************************************************************************)
EXTENDS ElfResolution, SequencesExt

CONSTANTS
    Objects,    \* number of input objects
    Links       \* the possible links: inputs and options

ASSUME ObjectsAssumption == Objects \in Nat

Prelude == 1
ObjectGroups == 2 .. Objects + 1
Library == Objects + 2
Epilogue == Objects + 3
Groups == 1 .. Epilogue

\* link.output is the output kind; link.symbols the canonical symbols in the
\* order of their ids, each with its group, the flags resolution gave it,
\* whether it is thread-local and, for those of the shared object, whether it
\* is weak and where it is; link.refs the relocations of each group's sections.
VARIABLES
    link,
    flags,      \* per_symbol_flags
    pos,        \* the next relocation of each group
    pending,    \* what the activation of files and other groups still ask for
    sizes,      \* entries that each group reserves in each table (mem_sizes)
    defs,       \* dynamic_symbol_definitions of each group
    copies,     \* copy_relocations: from an address to a symbol and its weakness
    tlsld,      \* uses_tlsld
    phase, next,
    offsets,    \* memory_offsets of each group, in entries
    res,        \* the resolution of each symbol
    used,       \* entries the writer has taken from each group's tables
    out,        \* what was written: entries of the tables, relocated places
    error

vars == <<link, flags, pos, pending, sizes, defs, copies, tlsld, phase, next,
          offsets, res, used, out, error>>

Symbols == DOMAIN link.symbols

\* Links that make sense: what is left to the dynamic linker is neither bound
\* nor an ifunc, references to thread-local symbols are the thread-local ones,
\* what may be interposed is exported, and no ifunc of a static executable is
\* asked for by name.
ValidLink(l) ==
    LET given(s) == l.symbols[s].flags
        asked(what) == {q.sym : q \in {q \in l.requests : q.what = what}}
    IN  /\ l.output \in {"static", "static_pie", "dynamic", "pie", "shared"}
        /\ \A s \in DOMAIN l.symbols :
            /\ given(s) \subseteq Given
            /\ "DYNAMIC" \in given(s) => is_interposable(given(s)) /\ "IFUNC" \notin given(s)
            /\ l.symbols[s].home = Library => "DYNAMIC" \in given(s)
            /\ l.symbols[s].tls \in BOOLEAN /\ (l.symbols[s].tls => "IFUNC" \notin given(s))
            /\ is_interposable(given(s)) => "DYNAMIC" \in given(s) \/ s \in asked("export")
            /\ "IFUNC" \in given(s) /\ is_static_executable(l.output) => \A q \in l.requests : q.sym # s
        /\ \A g \in Groups : Len(l.refs[g]) \in Nat /\ \A n \in 1 .. Len(l.refs[g]) :
            LET r == l.refs[g][n]
            IN  /\ r.sym \in DOMAIN l.symbols /\ r.type \in DOMAIN KindOf \ {"NONE"}
                /\ KindOf[r.type] \in TlsKinds <=> l.symbols[r.sym].tls
        /\ \A q \in l.requests : q.sym \in DOMAIN l.symbols /\ q.what \in {"direct", "export"}

ASSUME LinksAssumption == \A l \in Links : ValidLink(l)

-----------------------------------------------------------------------------
(* Scanning.  Groups run in parallel; a step is one relocation or request,   *)
(* whose only effect on other groups is one fetch_or.  (In a static link a   *)
(* second fetch_or may follow; nothing reads the bits it adds in between.)   *)

process_relocation(g) ==
    LET r == link.refs[g][pos[g]]
        f == flags[r.sym]
        rel == Relaxed(r, f, link.output, link.relax)
        add == FlagsToAdd(r, rel.kind, f, link.output)
    IN  /\ phase = "scan" /\ pos[g] <= Len(link.refs[g])
        /\ IF Refused(r, rel.kind, f, link.output, link.copy)
           THEN /\ phase' = "failed" /\ error' = "refused"
                /\ UNCHANGED <<flags, pos, pending, sizes, tlsld>>
           ELSE /\ flags' = [flags EXCEPT ![r.sym] = @ \cup add \cup FirstReference(@, link.output)]
                /\ sizes' = [sizes EXCEPT ![g] = [t \in Tables |->
                        @[t] + Cardinality(Reserved(r, rel.kind, f, link.output, link.relr) \cap {t})]]
                /\ tlsld' = (tlsld \/ rel.kind = "TlsLd")
                /\ pending' = IF "COPY_RELOCATION" \in add \ f
                              THEN pending \cup {[what |-> "copy", sym |-> r.sym, by |-> 0]}
                              ELSE pending
                /\ pos' = [pos EXCEPT ![g] = @ + IF rel.skip THEN 2 ELSE 1]
                /\ UNCHANGED <<phase, error>>
        /\ UNCHANGED <<link, defs, copies, next, offsets, res, used, out>>

\* -u, --defsym, the entry point and --whole-archive ask for a symbol as such.
MarkDirect(q) ==
    /\ phase = "scan" /\ q \in pending /\ q.what = "direct"
    /\ flags' = [flags EXCEPT ![q.sym] = @ \cup {"DIRECT"}]
    /\ pending' = pending \ {q}
    /\ UNCHANGED <<link, pos, sizes, defs, copies, tlsld, phase, next, offsets, res, used, out, error>>

\* export_dynamic and load_non_hidden_symbols, in the symbol's own group.
export_dynamic(q) ==
    LET g == link.symbols[q.sym].home IN
    /\ phase = "scan" /\ q \in pending /\ q.what = "export"
    /\ flags' = [flags EXCEPT ![q.sym] = @ \cup {"EXPORT_DYNAMIC"}]
    /\ defs' = IF "EXPORT_DYNAMIC" \in flags[q.sym] THEN defs
               ELSE [defs EXCEPT ![g] = Append(@, q.sym)]
    /\ pending' = pending \ {q}
    /\ UNCHANGED <<link, pos, sizes, copies, tlsld, phase, next, offsets, res, used, out, error>>

copy_relocate_symbol(q) ==
    LET s == link.symbols[q.sym]
        new == [sym |-> q.sym, weak |-> s.weak]
        known == s.at \in DOMAIN copies
    IN  /\ phase = "scan" /\ q \in pending /\ q.what = "copy"
        /\ copies' = IF ~known THEN [a \in DOMAIN copies \cup {s.at} |->
                                        IF a = s.at THEN new ELSE copies[a]]
                     ELSE IF s.weak THEN copies ELSE [copies EXCEPT ![s.at] = new]
        /\ pending' = pending \ {q}
        /\ UNCHANGED <<link, flags, pos, sizes, defs, tlsld, phase, next, offsets, res, used, out, error>>

ScanDone == pending = {} /\ \A g \in ObjectGroups : pos[g] > Len(link.refs[g])

-----------------------------------------------------------------------------
(* Sizes.  From here on groups run in parallel but share nothing, so one     *)
(* order of their steps stands for all.                                     *)

\* (mutant) Other names of a copied object are left to the shared object.
finalise_copy_relocations_referenced ==
    LET moved == SetToSortSeq({s \in Symbols : "COPY_RELOCATION" \in flags[s]}, <)
    IN  /\ phase = "scan" /\ ScanDone
        /\ defs' = [defs EXCEPT ![Library] = @ \o moved]
        /\ phase' = "sizes"
        /\ UNCHANGED <<link, flags, copies, pos, pending, sizes, tlsld, next, offsets, res, used, out, error>>

\* Every canonical symbol at the address of a copy becomes a definition of the
\* output; a strong one takes the place of a weak one.
finalise_copy_relocations ==
    LET moved == {s \in Symbols : link.symbols[s].home = Library /\ link.symbols[s].at \in DOMAIN copies}
        strong(a) == {s \in moved : link.symbols[s].at = a /\ ~link.symbols[s].weak}
    IN  /\ phase = "scan" /\ ScanDone
        /\ defs' = [defs EXCEPT ![Library] = @ \o SetToSortSeq(moved, <)]
        /\ flags' = [s \in Symbols |-> flags[s] \cup IF s \in moved THEN {"COPY_RELOCATION"} ELSE {}]
        /\ copies' = [a \in DOMAIN copies |->
                        IF copies[a].weak /\ strong(a) # {}
                        THEN [sym |-> Min(strong(a)), weak |-> FALSE] ELSE copies[a]]
        /\ phase' = "sizes"
        /\ UNCHANGED <<link, pos, pending, sizes, tlsld, next, offsets, res, used, out, error>>

\* dynamic_symbol_definitions of the layout. Sorting it by hash changes
\* nothing here: it is sorted once, before anything depends on its order.
Definitions == FlattenSeq(defs)

\* The size of what belongs to files rather than to symbols.
finalise_sizes ==
    /\ phase = "sizes"
    /\ sizes' = [sizes EXCEPT
            ![Prelude] = [@ EXCEPT !["GOT"] = @ + 2 * Count(tlsld),
                                   !["GENERAL"] = @ + Count(tlsld /\ ~is_executable(link.output)),
                                   !["DYNSYM"] = @ + Count(needs_dynsym(link.output))],
            ![Library] = [@ EXCEPT !["GENERAL"] = @ + Cardinality(DOMAIN copies)],
            ![Epilogue] = [@ EXCEPT !["DYNSYM"] = @ + IF needs_dynsym(link.output)
                                                       THEN Len(Definitions) ELSE 0]]
    /\ phase' = "symbol_sizes" /\ next' = 1
    /\ UNCHANGED <<link, flags, pos, pending, defs, copies, tlsld, offsets, res, used, out, error>>

finalise_symbol_sizes ==
    LET g == link.symbols[next].home
        f == flags[next]
        a == allocate_resolution(f, link.output, link.relr)
    IN  /\ phase = "symbol_sizes" /\ next <= Len(link.symbols)
        /\ sizes' = [sizes EXCEPT ![g] = [t \in Tables |->
                        @[t] + a[t] + Count(t = "DYNSYM" /\ TakesDynsym(f))]]
        /\ next' = next + 1
        /\ UNCHANGED <<link, flags, pos, pending, defs, copies, tlsld, phase, offsets, res, used, out, error>>

-----------------------------------------------------------------------------
(* Addresses.                                                               *)

Start(g, t) == MapThenSumSet(LAMBDA h : sizes[h][t], 1 .. g - 1)

\* The offsets at which groups start; the prelude takes the null symbol's
\* index and the entries for TLSLD.
compute_start_offsets ==
    /\ phase = "symbol_sizes" /\ next > Len(link.symbols)
    /\ offsets' = [g \in Groups |-> [t \in {"GOT", "PLT_GOT", "DYNSYM"} |->
            Start(g, t) + IF g # Prelude \/ t = "PLT_GOT" THEN 0
                          ELSE IF t = "GOT" THEN 2 * Count(tlsld)
                          ELSE Count(needs_dynsym(link.output))]]
    /\ phase' = "layout" /\ next' = 1
    /\ UNCHANGED <<link, flags, pos, pending, sizes, defs, copies, tlsld, res, used, out, error>>

tlsld_got_entry == Start(Prelude, "GOT")

\* create_symbol_resolution, and finalise_layout_dynamic for shared objects.
finalise_layout ==
    LET s == link.symbols[next]
        f == flags[next]
        raw == IF "COPY_RELOCATION" \in f THEN <<"copy", s.at>>
               ELSE IF "DYNAMIC" \in f \/ s.undefined THEN Zero
               ELSE IF "ABSOLUTE" \in f THEN <<"abs", next>> ELSE <<"addr", next>>
        taken == [GOT |-> GotEntries(f), PLT_GOT |-> Count("PLT" \in f),
                  DYNSYM |-> Count(TakesDynsym(f))]
    IN  /\ phase = "layout" /\ next <= Len(link.symbols)
        /\ res' = Append(res, create_resolution(f, raw, offsets[s.home]))
        /\ offsets' = [offsets EXCEPT ![s.home] = [t \in DOMAIN @ |-> @[t] + taken[t]]]
        /\ next' = next + 1
        /\ UNCHANGED <<link, flags, pos, pending, sizes, defs, copies, tlsld, phase, used, out, error>>

\* (mutant) Indices of definitions are one too high.
update_dynamic_symbol_resolutions_shifted ==
    LET index(s) == CHOOSE i \in DOMAIN Definitions : Definitions[i] = s
    IN  /\ phase = "layout" /\ next > Len(link.symbols)
        /\ res' = [s \in Symbols |->
                    IF s \in ToSet(Definitions) /\ has_resolution(res[s].flags)
                    THEN [res[s] EXCEPT !.index = offsets[Epilogue]["DYNSYM"] + index(s)]
                    ELSE res[s]]
        /\ phase' = "files" /\ next' = 1 /\ pos' = [g \in Groups |-> 1]
        /\ UNCHANGED <<link, flags, pending, sizes, defs, copies, tlsld, offsets, used, out, error>>

\* Definitions follow the other dynamic symbols.
update_dynamic_symbol_resolutions ==
    LET index(s) == CHOOSE i \in DOMAIN Definitions : Definitions[i] = s
    IN  /\ phase = "layout" /\ next > Len(link.symbols)
        /\ res' = [s \in Symbols |->
                    IF s \in ToSet(Definitions) /\ has_resolution(res[s].flags)
                    THEN [res[s] EXCEPT !.index = offsets[Epilogue]["DYNSYM"] + index(s) - 1]
                    ELSE res[s]]
        /\ phase' = "files" /\ next' = 1 /\ pos' = [g \in Groups |-> 1]
        /\ UNCHANGED <<link, flags, pending, sizes, defs, copies, tlsld, offsets, used, out, error>>

-----------------------------------------------------------------------------
(* Writing.                                                                 *)

Packed(g) == link.relr /\ sizes[g]["RELR"] > 0

Numbered(first, seq) == {<<first + i - 1, seq[i]>> : i \in DOMAIN seq}

\* Takes entries from the tables of g: words, stubs and symbols go to the next
\* free ones. A table that is used up is an error.
Write(g, e, symbols, places) ==
    LET n == Taken(e, symbols)
        at(t) == Start(g, t) + used[g][t]
        short == \E t \in Tables : used[g][t] + n[t] > sizes[g][t]
        failure == IF e.failure # NoError THEN e.failure ELSE IF short THEN "insufficient" ELSE NoError
    IN  /\ used' = [used EXCEPT ![g] = [t \in Tables |-> @[t] + n[t]]]
        /\ out' = [got |-> out.got \cup Numbered(at("GOT"), e.words),
                   plt |-> out.plt \cup Numbered(at("PLT_GOT"), e.stubs),
                   dynsym |-> out.dynsym \cup Numbered(at("DYNSYM"), symbols),
                   rela |-> out.rela \cup ToSet(e.rela),
                   places |-> out.places \cup places]
        /\ error' = failure
        /\ IF failure # NoError THEN phase' = "failed" ELSE UNCHANGED phase

\* The entries that belong to files: the null symbol and the pair for TLSLD,
\* the copy relocations, the definitions in .dynsym.
TlsldPair ==
    IF ~tlsld THEN Nothing
    ELSE IF is_executable(link.output)
    THEN Entries(<<CURRENT_EXE_TLS_MOD, <<"tlssize", 0>> >>, <<>>, <<>>, NoError)
    ELSE Entries(<<Zero, Zero>>, <<>>, <<General("DTPMOD", GotPlace(tlsld_got_entry), 0, Zero)>>, NoError)

CopyRelocations ==
    LET symbols == SetToSortSeq({copies[a].sym : a \in DOMAIN copies}, <)
        missing == \E a \in DOMAIN copies : res[copies[a].sym].index = 0
    IN  Entries(<<>>, <<>>,
                [i \in DOMAIN symbols |->
                    General("COPY", res[symbols[i]].raw, res[symbols[i]].index, Zero)],
                IF missing THEN "missing" ELSE NoError)

write_prelude ==
    /\ phase = "files" /\ next = 1
    /\ Write(Prelude, TlsldPair, IF needs_dynsym(link.output) THEN <<0>> ELSE <<>>, {})
    /\ next' = 2
    /\ UNCHANGED <<link, flags, pos, pending, sizes, defs, copies, tlsld, offsets, res>>

write_copy_relocations ==
    /\ phase = "files" /\ next = 2
    /\ Write(Library, CopyRelocations, <<>>, {})
    /\ next' = 3
    /\ UNCHANGED <<link, flags, pos, pending, sizes, defs, copies, tlsld, offsets, res>>

write_dynamic_symbol_definitions ==
    /\ phase = "files" /\ next = 3
    /\ Write(Epilogue, Nothing, IF needs_dynsym(link.output) THEN Definitions ELSE <<>>, {})
    /\ next' = 4
    /\ UNCHANGED <<link, flags, pos, pending, sizes, defs, copies, tlsld, offsets, res>>

tls_value(kind, x) ==
    CASE kind = "GotTpOff" -> <<"got", x.got>>
      [] kind = "TlsGd" -> <<"got", tlsgd_got_address(x)>>
      [] kind = "TlsDesc" -> <<"got", tls_descriptor_got_address(x)>>
      [] kind = "TlsLd" -> <<"got", IF tlsld THEN tlsld_got_entry ELSE None>>
      [] kind = "TpOff" -> <<"tpoff", x.raw[2]>>
      [] kind = "DtpOff" -> <<"dtpoff", x.raw[2]>>
      [] kind \in {"None", "TlsDescCall"} -> Zero

relocation_value(kind, x, r, o, packed, place) ==
    CASE kind = "Absolute" -> write_absolute_relocation(x, r, o, packed, place)
      [] kind = "Relative" -> Applied(value_with_addend(x), <<>>, NoError)
      [] kind \in {"PltRelative", "GotRelative"} -> Applied(plt_got_value(kind, x), <<>>, NoError)
      [] OTHER -> Applied(tls_value(kind, x), <<>>, NoError)

Place(g, n) == <<"place", <<g, n>> >>

\* apply_relocations, one relocation at a time.
apply_relocation(g) ==
    LET r == link.refs[g][pos[g]]
        rel == Relaxed(r, flags[r.sym], link.output, link.relax)
        place == Place(g, pos[g])
        v == relocation_value(rel.kind, res[r.sym], r, link.output, Packed(g), place)
    IN  /\ phase = "files" /\ next = 4
        /\ pos[g] <= Len(link.refs[g]) /\ \A h \in 1 .. g - 1 : pos[h] > Len(link.refs[h])
        /\ Write(g, Entries(<<>>, <<>>, v.rela, v.failure), <<>>, {<<place, v.value>>})
        /\ pos' = [pos EXCEPT ![g] = @ + IF rel.skip THEN 2 ELSE 1]
        /\ UNCHANGED <<link, flags, pending, sizes, defs, copies, tlsld, next, offsets, res>>

start_resolutions ==
    /\ phase = "files" /\ next = 4 /\ \A g \in Groups : pos[g] > Len(link.refs[g])
    /\ phase' = "resolutions" /\ next' = 1
    /\ UNCHANGED <<link, flags, pos, pending, sizes, defs, copies, tlsld, offsets, res, used, out, error>>

\* The loops over symbols in write_object and write_dynamic_file.
write_resolution ==
    LET g == link.symbols[next].home
        x == res[next]
    IN  /\ phase = "resolutions" /\ next <= Len(link.symbols)
        /\ IF has_resolution(x.flags)
           THEN Write(g, process_resolution(x, link.output, Packed(g)),
                      IF TakesDynsym(x.flags) THEN <<next>> ELSE <<>>, {})
           ELSE UNCHANGED <<used, out, error, phase>>
        /\ next' = next + 1
        /\ UNCHANGED <<link, flags, pos, pending, sizes, defs, copies, tlsld, offsets, res>>

\* The tables that are looked at: neither .rela.plt nor .plt.got.
validate_empty ==
    LET left == \E g \in Groups, t \in {"GOT", "GENERAL", "RELATIVE", "RELR", "DYNSYM"} :
                    used[g][t] # sizes[g][t]
    IN  /\ phase = "resolutions" /\ next > Len(link.symbols)
        /\ error' = IF left THEN "excessive" ELSE NoError
        /\ phase' = IF left THEN "failed" ELSE "done"
        /\ UNCHANGED <<link, flags, pos, pending, sizes, defs, copies, tlsld, next, offsets, res, used, out>>

Done == phase \in {"done", "failed"} /\ UNCHANGED vars

-----------------------------------------------------------------------------

EmptyTables == [g \in Groups |-> [t \in Tables |-> 0]]

Init ==
    /\ link \in Links
    /\ flags = [s \in Symbols |-> link.symbols[s].flags]
    /\ pos = [g \in Groups |-> 1]
    /\ pending = link.requests
    /\ sizes = EmptyTables /\ used = EmptyTables
    /\ defs = [g \in Groups |-> <<>>]
    /\ copies = <<>> /\ tlsld = FALSE
    /\ phase = "scan" /\ next = 1
    /\ offsets = <<>> /\ res = <<>>
    /\ out = [got |-> {}, plt |-> {}, dynsym |-> {}, rela |-> {}, places |-> {}]
    /\ error = NoError

Next ==
    \/ \E g \in ObjectGroups : process_relocation(g) \/ apply_relocation(g)
    \/ \E q \in pending : MarkDirect(q) \/ export_dynamic(q) \/ copy_relocate_symbol(q)
    \/ finalise_copy_relocations \/ finalise_sizes \/ finalise_symbol_sizes
    \/ compute_start_offsets \/ finalise_layout \/ update_dynamic_symbol_resolutions
    \/ write_prelude \/ write_copy_relocations \/ write_dynamic_symbol_definitions
    \/ start_resolutions \/ write_resolution \/ validate_empty \/ Done

Spec == Init /\ [][Next]_vars

-----------------------------------------------------------------------------
(* The output at run time: what the dynamic linker makes of each place.      *)

Own(s) == res[s].raw
Copied(s) == "COPY_RELOCATION" \in res[s].flags

\* What a reference to s is to reach.
Target(s) ==
    LET f == res[s].flags IN
    IF ~Copied(s) /\ ("DYNAMIC" \in f \/ (is_interposable(f) /\ "EXPORT_DYNAMIC" \in f))
    THEN <<"name", s>> ELSE Own(s)

\* What looking up the name of s finds: the executable comes first.
Lookup(s) ==
    IF is_executable(link.output) /\ (Copied(s) \/ "DYNAMIC" \notin res[s].flags)
    THEN Own(s) ELSE <<"name", s>>

Named(index) == CHOOSE s \in Symbols : <<index, s>> \in out.dynsym
RelasAt(place) == {x \in out.rela : x.place = place}
GotWord(n) == CHOOSE w \in {e[2] : e \in {e \in out.got : e[1] = n}} : TRUE

\* The word at a place once the dynamic linker is done. A TLS relocation
\* without a symbol is about this module.
Loaded(place, word) ==
    IF RelasAt(place) = {}
    THEN IF is_relocatable(link.output) /\ word[1] \in {"addr", "plt", "copy"}
         THEN <<"unrelocated", 0>> ELSE word
    ELSE LET x == CHOOSE x \in RelasAt(place) : TRUE
             tls(tag) == IF x.index = 0 THEN <<tag, x.addend[2]>>
                         ELSE LET v == Lookup(Named(x.index))
                              IN  IF v[1] = "name" THEN <<tag, v>> ELSE <<tag, v[2]>>
         IN  CASE x.kind = "RELR" -> word
               [] x.kind = "RELATIVE" -> x.addend
               [] x.kind = "SYMBOL" -> Lookup(Named(x.index))
               [] x.kind = "IRELATIVE" -> <<"resolved", x.addend[2]>>
               [] x.kind = "TPOFF" -> tls("tpoff")
               [] x.kind = "DTPOFF" -> tls("tlsoff")
               [] x.kind = "TLSDESC" -> tls("descriptor")
               [] x.kind = "DTPMOD" -> IF x.index = 0 THEN CURRENT_EXE_TLS_MOD
                                       ELSE <<"module", Lookup(Named(x.index))>>

LoadedGot(n) == Loaded(GotPlace(n), GotWord(n))

\* v is a PLT stub that jumps to s.
StubOf(v, s) ==
    /\ v[1] = "plt"
    /\ \E e \in out.plt : /\ e[1] = v[2]
                          /\ LoadedGot(e[2]) = IF "IFUNC" \in res[s].flags THEN <<"resolved", s>>
                                               ELSE Target(s)

\* v may stand for the address of s. In an output that is not relocatable
\* every address of an ifunc is that of its stub.
AddressOf(v, s) ==
    IF "IFUNC" \notin res[s].flags
    THEN v = Target(s) \/ (res[s].flags \cap {"FUNCTION", "ABSOLUTE"} # {} /\ StubOf(v, s))
    ELSE IF is_relocatable(link.output) THEN v \in {<<"resolved", s>>, Target(s)} \/ StubOf(v, s)
    ELSE StubOf(v, s)

\* The tag of s in thread-local storage: of this module or of a name.
TlsTarget(tag, s) == IF Target(s)[1] = "name" THEN <<tag, Target(s)>> ELSE <<tag, s>>

\* The pair of words from n on leads __tls_get_addr to s.
PairOf(n, s) ==
    /\ LoadedGot(n) = IF Target(s)[1] = "name" THEN <<"module", Target(s)>> ELSE CURRENT_EXE_TLS_MOD
    /\ LoadedGot(n + 1) = TlsTarget("tlsoff", s)

ReachesItsSymbol(kind, r, place, v) ==
    CASE kind = "Absolute" ->
            \/ AddressOf(Loaded(place, v), r.sym)
            \/ v = Zero /\ ~r.write /\ {"DYNAMIC", "ABSOLUTE"} \subseteq res[r.sym].flags
      [] kind = "Relative" ->
            \/ AddressOf(v, r.sym)
            \/ v = Zero /\ {"DYNAMIC", "ABSOLUTE"} \subseteq res[r.sym].flags
      [] kind = "PltRelative" -> StubOf(v, r.sym)
      [] kind = "GotRelative" -> AddressOf(LoadedGot(v[2]), r.sym)
      [] kind = "GotTpOff" -> LoadedGot(v[2]) = TlsTarget("tpoff", r.sym)
      [] kind = "TpOff" -> v = TlsTarget("tpoff", r.sym)
      [] kind = "DtpOff" -> v = <<"dtpoff", r.sym>> /\ Target(r.sym)[1] # "name"
      [] kind = "TlsDesc" -> LoadedGot(v[2]) = TlsTarget("descriptor", r.sym)
      [] kind = "TlsGd" -> PairOf(v[2], r.sym)
      [] kind = "TlsLd" -> /\ LoadedGot(v[2]) = CURRENT_EXE_TLS_MOD
                           /\ LoadedGot(v[2] + 1) = IF is_executable(link.output) THEN <<"tlssize", 0>> ELSE Zero
      [] kind \in {"None", "TlsDescCall"} -> TRUE

\* A call through a descriptor, and the load of the descriptor's address before
\* it, are both kept or both replaced.
DescriptorAndCall(g, n) ==
    LET kind(i) == Relaxed(link.refs[g][i], flags[link.refs[g][i].sym], link.output, link.relax).kind
    IN  n > 1 /\ link.refs[g][n].type = "TLSDESC_CALL" => (kind(n) = "TlsDescCall" <=> kind(n - 1) = "TlsDesc")

-----------------------------------------------------------------------------

\* The flags of a symbol always agree with each other, whichever references
\* came first: allocate_resolution, create_resolution and process_resolution
\* each look at some of them only.  A symbol with a stub has a GOT entry, an
\* entry for the address of an ifunc comes with its stub, a thread-local symbol
\* has no ordinary entries and no other symbol thread-local ones, and once
\* scanning is over whatever may be interposed has a dynamic symbol.
FlagsAgree ==
    \A s \in Symbols :
        LET f == flags[s] IN
        /\ "PLT" \in f => "GOT" \in f
        /\ "IFUNC_GOT_FOR_ADDRESS" \in f => {"GOT", "PLT", "IFUNC"} \subseteq f /\ ~is_relocatable(link.output)
        /\ is_tls(f) => f \cap {"GOT", "PLT", "IFUNC", "IFUNC_GOT_FOR_ADDRESS"} = {}
        /\ "DYNAMIC" \in f => is_interposable(f) /\ "IFUNC" \notin f
        /\ phase \notin {"scan", "failed"} /\ is_interposable(f) => has_dynamic_symbol(f)

\* The writer finds in each group's part of each table the entries that layout
\* reserved there, no more and no fewer, and every entry and dynamic symbol
\* index it asks a resolution for exists.  (validate_empty's "Checks that we
\* used all of the entries that we requested during layout", for all tables.)
TablesExact ==
    /\ error \notin {"insufficient", "excessive", "missing"}
    /\ phase = "done" => \A g \in Groups, t \in Tables : used[g][t] = sizes[g][t]

\* Every relocated place reaches the symbol it refers to once the dynamic
\* linker has run: directly, through the GOT entry or PLT stub it points at,
\* or through the thread-local storage words it points at - whatever other
\* references the symbol has, and in whatever order groups were scanned.
ReferencesReachTheirSymbols ==
    phase = "done" =>
        \A g \in ObjectGroups : \A n \in DOMAIN link.refs[g] :
            /\ DescriptorAndCall(g, n)
            /\ \A e \in out.places : e[1] = Place(g, n) =>
                LET r == link.refs[g][n]
                IN  ReachesItsSymbol(Relaxed(r, flags[r.sym], link.output, link.relax).kind, r, e[1], e[2])

\* No two dynamic relocations are for the same place, each is for a place that
\* exists, and each index in one is that of one dynamic symbol.
RelocationsAreSeparate ==
    phase = "done" =>
        /\ \A x, y \in out.rela : x.place = y.place => x = y
        /\ \A e, d \in out.dynsym : e[1] = d[1] \/ e[2] = d[2] => e = d
        /\ \A x \in out.rela : /\ x.place[1] = "got" => \E e \in out.got : e[1] = x.place[2]
                               /\ x.index # 0 => \E e \in out.dynsym : e[1] = x.index /\ e[2] # 0

\* Relaxing the load of a TLS descriptor and relaxing the call through it go
\* together: new_relaxation's "the conditions on this relaxation (is_executable)
\* must match those on TLSDESC_CALL below".
TlsDescRelaxationsMatch ==
    phase = "done" => \A g \in ObjectGroups : \A n \in DOMAIN link.refs[g] : DescriptorAndCall(g, n)

\* A copy relocation moves an object of the shared object as a whole: all names
\* of its address become definitions of the output at the one copy, and the
\* copy is filled in from one of them, a strong one if there is one.
CopiesMoveAllNames ==
    phase = "done" =>
        \A a \in DOMAIN copies :
            LET names == {s \in Symbols : link.symbols[s].home = Library /\ link.symbols[s].at = a}
                filled == {Named(x.index) : x \in {x \in out.rela : x.kind = "COPY" /\ x.place = <<"copy", a>>}}
            IN  /\ \A s \in names : Own(s) = <<"copy", a>> /\ s \in ToSet(Definitions)
                /\ filled \subseteq names /\ Cardinality(filled) = 1
                /\ (\E s \in names : ~link.symbols[s].weak) => \A s \in filled : ~link.symbols[s].weak

=============================================================================
