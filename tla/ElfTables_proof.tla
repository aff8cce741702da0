-------------------------- MODULE ElfTables_proof --------------------------
(***************************************************************************)
(* Proofs about ElfTables, for any number of objects and any valid links.   *)
(*                                                                         *)
(* FlagsAgree needs to know more than it says: that the flags given by       *)
(* resolution never change, that an ifunc of a static executable has its     *)
(* stub as soon as it is referenced at all, and that what may be interposed  *)
(* is exported or still to be exported.  IInv adds this.                     *)
(***************************************************************************)
EXTENDS ElfTables, ElfResolution_proof

IInv ==
    /\ link \in Links
    /\ pos \in [Groups -> Nat \ {0}]
    /\ DOMAIN flags = Symbols
    /\ \A s \in Symbols : SymbolFlags(flags[s], link.symbols[s].flags, link.symbols[s].tls, link.output)
    /\ \A q \in pending : /\ q.sym \in Symbols
                          /\ q.what # "copy" => q \in link.requests
    /\ \A s \in Symbols : is_interposable(link.symbols[s].flags) =>
            \/ "DYNAMIC" \in link.symbols[s].flags \/ "EXPORT_DYNAMIC" \in flags[s]
            \/ \E q \in pending : q.what = "export" /\ q.sym = s
    /\ phase \notin {"scan", "failed"} => pending = {}

\* Facts about the link that the steps below use.
LEMMA Valid ==
    ASSUME link \in Links
    PROVE  ValidLink(link)
BY LinksAssumption

LEMMA InitFlags == Init => IInv
<1> SUFFICES ASSUME Init PROVE IInv OBVIOUS
<1> USE DEF Init
<1>1. ValidLink(link) BY Valid
<1>2. pos \in [Groups -> Nat \ {0}] OBVIOUS
<1>3. ASSUME NEW s \in Symbols
      PROVE  SymbolFlags(flags[s], link.symbols[s].flags, link.symbols[s].tls, link.output)
  <2>1. flags[s] = link.symbols[s].flags OBVIOUS
  <2>2. flags[s] \subseteq Given BY <1>1, <2>1 DEF ValidLink, Symbols
  <2> QED BY <2>1, <2>2 DEF SymbolFlags, Given, Needs, TlsFlags, has_resolution
<1>4. \A q \in pending : q.sym \in Symbols /\ (q.what # "copy" => q \in link.requests)
  BY <1>1 DEF ValidLink, Symbols
<1>5. \A s \in Symbols : is_interposable(link.symbols[s].flags) =>
            \/ "DYNAMIC" \in link.symbols[s].flags
            \/ \E q \in pending : q.what = "export" /\ q.sym = s
  BY <1>1 DEF ValidLink, Symbols
<1> QED BY <1>2, <1>3, <1>4, <1>5 DEF IInv

\* One step of the scan adds flags to one symbol.
LEMMA ScanFlags ==
    ASSUME IInv, NEW g \in ObjectGroups, process_relocation(g)
    PROVE  IInv'
<1> DEFINE r == link.refs[g][pos[g]]
           f == flags[r.sym]
           rel == Relaxed(r, f, link.output, link.relax)
           add == Added(r, rel.kind, f, link.output)
<1>1. ValidLink(link) /\ link' = link BY Valid DEF IInv, process_relocation
<1>2. g \in Groups BY ObjectsAssumption DEF ObjectGroups, Groups, Epilogue
<1>3. pos[g] \in 1 .. Len(link.refs[g])
  <2>1. Len(link.refs[g]) \in Nat BY <1>1, <1>2 DEF ValidLink
  <2>2. pos[g] \in Nat \ {0} BY <1>2 DEF IInv
  <2>3. pos[g] <= Len(link.refs[g]) BY DEF process_relocation
  <2> QED BY <2>1, <2>2, <2>3
<1>4. /\ r.sym \in Symbols /\ r.type \in DOMAIN KindOf \ {"NONE"}
      /\ KindOf[r.type] \in TlsKinds <=> link.symbols[r.sym].tls
  BY <1>1, <1>2, <1>3 DEF ValidLink, Symbols
<1>5. CASE Refused(r, rel.kind, f, link.output, link.copy)
  BY <1>1, <1>5 DEF IInv, process_relocation, Symbols
<1>6. CASE ~Refused(r, rel.kind, f, link.output, link.copy)
  <2>0. /\ flags' = [flags EXCEPT ![r.sym] = @ \cup FlagsToAdd(r, rel.kind, f, link.output)
                                                    \cup FirstReference(@, link.output)]
        /\ pending' = IF "COPY_RELOCATION" \in FlagsToAdd(r, rel.kind, f, link.output) \ f
                      THEN pending \cup {[what |-> "copy", sym |-> r.sym, by |-> 0]}
                      ELSE pending
        /\ phase' = phase /\ phase = "scan"
        /\ pos' = [pos EXCEPT ![g] = @ + IF rel.skip THEN 2 ELSE 1]
    BY <1>6 DEF process_relocation
  <2>1. /\ flags' = [flags EXCEPT ![r.sym] = f \cup add]
        /\ phase' = phase
        /\ pending \subseteq pending'
        /\ \A q \in pending' : q \in pending \/ (q.what = "copy" /\ q.sym = r.sym)
        /\ pos' = [pos EXCEPT ![g] = @ + IF rel.skip THEN 2 ELSE 1]
        /\ phase = "scan"
    <3> HIDE DEF r, rel
    <3>1. flags' = [flags EXCEPT ![r.sym] = f \cup add]
      <4>1. f \cup FlagsToAdd(r, rel.kind, f, link.output) \cup FirstReference(f, link.output) = f \cup add
        BY DEF Added
      <4> QED BY <2>0, <4>1
    <3>2. pending \subseteq pending' BY <2>0
    <3>3. ASSUME NEW q \in pending' PROVE q \in pending \/ (q.what = "copy" /\ q.sym = r.sym)
      BY <2>0
    <3> QED BY <2>0, <3>1, <3>2, <3>3
  <2>2. SymbolFlags(f, link.symbols[r.sym].flags, link.symbols[r.sym].tls, link.output)
    BY <1>4 DEF IInv
  <2>3. IF link.symbols[r.sym].tls THEN rel.kind \in TlsKinds \cup {"None"} ELSE rel.kind \in PlainKinds
    BY <1>4, RelaxedKind
  <2>4. f \in SUBSET (Given \cup Needs) /\ link.symbols[r.sym].tls \in BOOLEAN /\ (link.symbols[r.sym].tls => "IFUNC" \notin f)
    BY <1>1, <1>4, <2>2 DEF SymbolFlags, ValidLink, Symbols, Given
  <2>5. /\ add \subseteq Needs
        /\ IF link.symbols[r.sym].tls THEN add \subseteq TlsFlags \cup {"DIRECT"} ELSE add \cap TlsFlags = {}
        /\ "PLT" \in add => "GOT" \in add
        /\ "IFUNC_GOT_FOR_ADDRESS" \in add => "IFUNC" \in f /\ ~is_relocatable(link.output)
        /\ "IFUNC" \in f => \/ {"GOT", "PLT"} \subseteq add
                            \/ is_static_executable(link.output) /\ has_resolution(f)
    <3> DEFINE k == rel.kind
               o == link.output
               old == f
    <3>0. \A x \in TlsKinds \cup {"None"} : x \notin PlainKinds BY DEF TlsKinds, PlainKinds
    <3>1. /\ old \in SUBSET (Given \cup Needs)
          /\ k \in TlsKinds \cup {"None"} \cup PlainKinds
          /\ k \in PlainKinds \/ "IFUNC" \notin old
          /\ link.symbols[r.sym].tls <=> k \notin PlainKinds
      BY <2>3, <2>4, <3>0
    <3> HIDE DEF k, o, old, r
    <3>2. LET A == Added(r, k, old, o)
          IN  /\ A \subseteq Needs
              /\ k \notin PlainKinds => A \subseteq TlsFlags \cup {"DIRECT"}
              /\ k \in PlainKinds => A \cap TlsFlags = {}
              /\ "PLT" \in A => "GOT" \in A
              /\ "IFUNC_GOT_FOR_ADDRESS" \in A => "IFUNC" \in old /\ ~is_relocatable(o)
              /\ "IFUNC" \in old => \/ {"GOT", "PLT"} \subseteq A
                                    \/ is_static_executable(o) /\ has_resolution(old)
      BY <3>1, AddedFlags
    <3> USE DEF k, o, old
    <3> QED BY <3>1, <3>2
  <2>6. SymbolFlags(f \cup add, link.symbols[r.sym].flags, link.symbols[r.sym].tls, link.output)
    <3>1. "IFUNC" \in f => {"GOT", "PLT"} \subseteq f \cup add
      BY <2>2, <2>5 DEF SymbolFlags
    <3> DEFINE given == link.symbols[r.sym].flags
               tls == link.symbols[r.sym].tls
               o == link.output
    <3>2. /\ SymbolFlags(f, given, tls, o) /\ tls \in BOOLEAN
          /\ add \in SUBSET Needs /\ ("PLT" \in add => "GOT" \in add)
          /\ IF tls THEN add \subseteq TlsFlags \cup {"DIRECT"} ELSE add \cap TlsFlags = {}
          /\ "IFUNC" \in f => {"GOT", "PLT"} \subseteq f \cup add
          /\ "IFUNC_GOT_FOR_ADDRESS" \in add => "IFUNC" \in f /\ ~is_relocatable(o)
      BY <2>2, <2>4, <2>5, <3>1
    <3> HIDE DEF add, f, rel, given, tls, o
    <3>3. SymbolFlags(f \cup add, given, tls, o) BY <3>2, FlagsGrow
    <3> QED BY <3>3 DEF given, tls, o
  <2> HIDE DEF add
  <2>7. pos' \in [Groups -> Nat \ {0}]
    <3> HIDE DEF rel
    <3>1. pos \in [Groups -> Nat \ {0}] BY DEF IInv
    <3> QED BY <2>1, <1>2, <3>1
  <2>8. DOMAIN flags' = Symbols' BY <2>1, <1>1 DEF IInv, Symbols
  <2>9. \A s \in Symbols' : SymbolFlags(flags'[s], link'.symbols[s].flags, link'.symbols[s].tls, link'.output)
    BY <2>1, <2>6, <1>1 DEF IInv, Symbols
  <2>10. \A s \in Symbols : "EXPORT_DYNAMIC" \in flags[s] => "EXPORT_DYNAMIC" \in flags'[s]
    BY <2>1 DEF IInv
  <2>11. \A q \in pending' : q.sym \in Symbols' /\ (q.what # "copy" => q \in link'.requests)
    BY <2>1, <1>1, <1>4 DEF IInv, Symbols
  <2> QED BY <1>1, <2>1, <2>7, <2>8, <2>9, <2>10, <2>11 DEF IInv, Symbols
<1> QED BY <1>5, <1>6

\* A request of a file or a command line adds a flag to one symbol.
LEMMA RequestFlags ==
    ASSUME IInv, NEW q \in pending, NEW flag \in {"DIRECT", "EXPORT_DYNAMIC"},
           q.what = IF flag = "DIRECT" THEN "direct" ELSE "export",
           flags' = [flags EXCEPT ![q.sym] = @ \cup {flag}],
           pending' = pending \ {q}, phase = "scan", UNCHANGED <<link, pos, phase>>
    PROVE  IInv'
<1>1. ValidLink(link) BY Valid DEF IInv
<1>2. q.sym \in Symbols /\ q \in link.requests BY DEF IInv
<1>3. SymbolFlags(flags[q.sym], link.symbols[q.sym].flags, link.symbols[q.sym].tls, link.output)
  BY <1>2 DEF IInv
<1>4. "IFUNC" \in flags[q.sym] => ~is_static_executable(link.output)
  BY <1>1, <1>2, <1>3 DEF ValidLink, Symbols, SymbolFlags, Given
<1>6. SymbolFlags(flags[q.sym] \cup {flag}, link.symbols[q.sym].flags, link.symbols[q.sym].tls, link.output)
  <2>1. {flag} \in SUBSET Needs /\ {flag} \cap TlsFlags = {} /\ "PLT" \notin {flag} /\ "IFUNC_GOT_FOR_ADDRESS" \notin {flag}
    BY DEF Needs, TlsFlags
  <2> QED BY <1>3, <1>4, <2>1 DEF SymbolFlags, has_resolution, Given, Needs, TlsFlags
<1>7. \A s \in Symbols' : SymbolFlags(flags'[s], link'.symbols[s].flags, link'.symbols[s].tls, link'.output)
  BY <1>2, <1>6 DEF IInv, Symbols
<1>8. \A s \in Symbols : "EXPORT_DYNAMIC" \in flags[s] => "EXPORT_DYNAMIC" \in flags'[s]
  BY <1>2 DEF IInv
<1>9. q.what = "export" => "EXPORT_DYNAMIC" \in flags'[q.sym]
  BY <1>2 DEF IInv
<1>10. \A s \in Symbols' : is_interposable(link'.symbols[s].flags) =>
            \/ "DYNAMIC" \in link'.symbols[s].flags \/ "EXPORT_DYNAMIC" \in flags'[s]
            \/ \E p \in pending' : p.what = "export" /\ p.sym = s
  BY <1>8, <1>9 DEF IInv, Symbols
<1>11. DOMAIN flags' = Symbols' BY DEF IInv, Symbols
<1> QED BY <1>2, <1>7, <1>10, <1>11 DEF IInv, Symbols

LEMMA CopyFlags ==
    ASSUME IInv, finalise_copy_relocations
    PROVE  IInv'
<1> DEFINE moved == {s \in Symbols : link.symbols[s].home = Library /\ link.symbols[s].at \in DOMAIN copies}
           m(s) == IF s \in moved THEN {"COPY_RELOCATION"} ELSE {}
<1>1. ValidLink(link) /\ link' = link BY Valid DEF IInv, finalise_copy_relocations
<1>2. flags' = [s \in Symbols |-> flags[s] \cup m(s)] /\ pending' = {} /\ pending = {} /\ pos' = pos /\ phase' = "sizes"
  BY DEF finalise_copy_relocations, ScanDone
<1>3. ASSUME NEW s \in Symbols
      PROVE  /\ SymbolFlags(flags'[s], link.symbols[s].flags, link.symbols[s].tls, link.output)
             /\ "EXPORT_DYNAMIC" \in flags[s] => "EXPORT_DYNAMIC" \in flags'[s]
  <2>1. SymbolFlags(flags[s], link.symbols[s].flags, link.symbols[s].tls, link.output) BY DEF IInv
  <2>2. s \in moved => "IFUNC" \notin flags[s]
    BY <1>1, <2>1 DEF ValidLink, Symbols, SymbolFlags, Given
  <2>3. flags'[s] = flags[s] \cup m(s) BY <1>2
  <2> HIDE DEF moved
  <2> QED BY <2>1, <2>2, <2>3 DEF SymbolFlags, has_resolution, Given, Needs, TlsFlags
<1>4. DOMAIN flags' = Symbols' BY <1>1, <1>2 DEF Symbols
<1> HIDE DEF m
<1> QED BY <1>1, <1>2, <1>3, <1>4 DEF IInv, Symbols

LEMMA NextFlags == IInv /\ [Next]_vars => IInv'
<1> SUFFICES ASSUME IInv, [Next]_vars PROVE IInv' OBVIOUS
<1>1. ASSUME NEW g \in ObjectGroups, process_relocation(g) PROVE IInv'
  BY <1>1, ScanFlags
<1>2. ASSUME NEW q \in pending, MarkDirect(q) PROVE IInv'
  BY <1>2, RequestFlags DEF MarkDirect
<1>3. ASSUME NEW q \in pending, export_dynamic(q) PROVE IInv'
  BY <1>3, RequestFlags DEF export_dynamic
<1>4. ASSUME NEW q \in pending, copy_relocate_symbol(q) PROVE IInv'
  <2>1. UNCHANGED <<link, flags, pos, phase>> /\ pending' = pending \ {q} /\ q.what = "copy" /\ phase = "scan"
    BY <1>4 DEF copy_relocate_symbol
  <2> QED BY <2>1 DEF IInv, Symbols
<1>5. CASE finalise_copy_relocations
  BY <1>5, CopyFlags
<1>6. ASSUME UNCHANGED <<link, flags, pending>>, pos' \in [Groups -> Nat \ {0}],
             phase \notin {"scan", "failed"} \/ phase' = phase
      PROVE  IInv'
  BY <1>6 DEF IInv, Symbols
<1>7. ASSUME NEW g \in ObjectGroups, apply_relocation(g) PROVE IInv'
  <2>1. pos' \in [Groups -> Nat \ {0}]
    <3>1. g \in Groups BY ObjectsAssumption DEF ObjectGroups, Groups, Epilogue
    <3>2. \E n \in {1, 2} : pos' = [pos EXCEPT ![g] = @ + n]
      BY <1>7 DEF apply_relocation
    <3>3. pos \in [Groups -> Nat \ {0}] BY DEF IInv
    <3> QED BY <3>1, <3>2, <3>3
  <2>2. UNCHANGED <<link, flags, pending>> /\ phase = "files" BY <1>7 DEF apply_relocation
  <2> QED BY <1>6, <2>1, <2>2
<1>8. CASE finalise_sizes \/ finalise_symbol_sizes \/ compute_start_offsets \/ finalise_layout \/ update_dynamic_symbol_resolutions
  <2>1. CASE finalise_sizes \/ finalise_symbol_sizes \/ compute_start_offsets \/ finalise_layout
    BY <1>6, <2>1 DEF finalise_sizes, finalise_symbol_sizes, compute_start_offsets, finalise_layout, IInv
  <2>2. CASE update_dynamic_symbol_resolutions
    <3>1. /\ UNCHANGED <<link, flags, pending>> /\ phase = "layout"
          /\ pos' = [g \in Groups |-> 1]
      BY <2>2 DEF update_dynamic_symbol_resolutions
    <3>2. pos' \in [Groups -> Nat \ {0}] BY <3>1
    <3> QED BY <1>6, <3>1, <3>2
  <2> QED BY <1>8, <2>1, <2>2
<1>9. CASE write_prelude \/ write_copy_relocations \/ write_dynamic_symbol_definitions \/ start_resolutions
  BY <1>6, <1>9 DEF write_prelude, write_copy_relocations, write_dynamic_symbol_definitions, start_resolutions, IInv
<1>10. CASE write_resolution \/ validate_empty
  BY <1>6, <1>10 DEF write_resolution, validate_empty, IInv
<1>11. CASE Done \/ UNCHANGED vars
  BY <1>6, <1>11 DEF Done, vars, IInv
<1> QED BY <1>1, <1>2, <1>3, <1>4, <1>5, <1>7, <1>8, <1>9, <1>10, <1>11 DEF Next

LEMMA IInvImpliesFlagsAgree == IInv => FlagsAgree
<1> SUFFICES ASSUME IInv, NEW s \in Symbols
             PROVE  LET f == flags[s] IN
                    /\ "PLT" \in f => "GOT" \in f
                    /\ "IFUNC_GOT_FOR_ADDRESS" \in f => {"GOT", "PLT", "IFUNC"} \subseteq f /\ ~is_relocatable(link.output)
                    /\ is_tls(f) => f \cap {"GOT", "PLT", "IFUNC", "IFUNC_GOT_FOR_ADDRESS"} = {}
                    /\ "DYNAMIC" \in f => is_interposable(f) /\ "IFUNC" \notin f
                    /\ phase \notin {"scan", "failed"} /\ is_interposable(f) => has_dynamic_symbol(f)
  BY DEF FlagsAgree
<1>1. ValidLink(link) BY Valid DEF IInv
<1>2. SymbolFlags(flags[s], link.symbols[s].flags, link.symbols[s].tls, link.output) BY DEF IInv
<1>3. is_interposable(flags[s]) <=> is_interposable(link.symbols[s].flags)
  BY <1>2 DEF SymbolFlags, is_interposable, Given
<1>4. \A x \in Given : x \in flags[s] <=> x \in link.symbols[s].flags
  <2>1. flags[s] \cap Given = link.symbols[s].flags BY <1>2 DEF SymbolFlags
  <2> QED BY <2>1
<1>5. phase \notin {"scan", "failed"} /\ is_interposable(flags[s]) => has_dynamic_symbol(flags[s])
  BY <1>3, <1>4 DEF IInv, has_dynamic_symbol, Given
<1>6. is_tls(flags[s]) => link.symbols[s].tls
  BY <1>2 DEF SymbolFlags, is_tls, TlsFlags
<1>7. is_tls(flags[s]) => flags[s] \cap {"GOT", "PLT", "IFUNC", "IFUNC_GOT_FOR_ADDRESS"} = {}
  <2> SUFFICES ASSUME is_tls(flags[s]) PROVE flags[s] \cap {"GOT", "PLT", "IFUNC", "IFUNC_GOT_FOR_ADDRESS"} = {}
    OBVIOUS
  <2>1. link.symbols[s].tls BY <1>6
  <2>2. "IFUNC" \notin link.symbols[s].flags BY <1>1, <2>1 DEF ValidLink, Symbols
  <2>3. "IFUNC" \notin flags[s] BY <1>4, <2>2 DEF Given
  <2>4. flags[s] \cap {"GOT", "PLT", "IFUNC_GOT_FOR_ADDRESS"} = {} BY <1>2, <2>1 DEF SymbolFlags
  <2> QED BY <2>3, <2>4
<1>8. "DYNAMIC" \in flags[s] => is_interposable(flags[s]) /\ "IFUNC" \notin flags[s]
  BY <1>1, <1>3, <1>4 DEF ValidLink, Symbols, Given
<1> QED BY <1>2, <1>5, <1>7, <1>8 DEF SymbolFlags

\* The flags that scanning gives to symbols agree with each other at all times,
\* for every link and every order in which groups are scanned.
THEOREM FlagsAlwaysAgree == Spec => []FlagsAgree
<1>1. Init => IInv BY InitFlags
<1>2. IInv /\ [Next]_vars => IInv' BY NextFlags
<1>3. IInv => FlagsAgree BY IInvImpliesFlagsAgree
<1> QED BY <1>1, <1>2, <1>3, PTL DEF Spec

(* For every symbol, once scanning is over and whatever its flags came to be, *)
(* process_resolution takes from each table exactly the entries that          *)
(* allocate_resolution reserved, given a resolution with the addresses that   *)
(* create_resolution gives it: the two functions repeat the same decisions in *)
(* different files and in a different order.                                 *)
THEOREM LayoutAndWriterAgree ==
    Spec => [](phase \notin {"scan", "failed"} =>
                \A s \in Symbols, packed \in BOOLEAN : \A x :
                    x.flags = flags[s] /\ LaidOut(x) =>
                        \A t \in Tables : Taken(process_resolution(x, link.output, packed), <<>>)[t]
                                            = allocate_resolution(flags[s], link.output, packed)[t])
<1> DEFINE Agreement ==
            phase \notin {"scan", "failed"} =>
                \A s \in Symbols, packed \in BOOLEAN : \A x :
                    x.flags = flags[s] /\ LaidOut(x) =>
                        \A t \in Tables : Taken(process_resolution(x, link.output, packed), <<>>)[t]
                                            = allocate_resolution(flags[s], link.output, packed)[t]
<1>1. FlagsAgree => Agreement
  <2> SUFFICES ASSUME FlagsAgree, phase \notin {"scan", "failed"},
                      NEW s \in Symbols, NEW packed \in BOOLEAN, NEW x,
                      x.flags = flags[s], LaidOut(x), NEW t \in Tables
               PROVE  Takes(process_resolution(x, link.output, packed), t)
                        = allocate_resolution(flags[s], link.output, packed)[t]
    BY DEF Takes
  <2>1. Agreed(x.flags, link.output) BY DEF FlagsAgree, Agreed
  <2> QED BY <2>1, ResolutionTakes
<1>2. Spec => []FlagsAgree BY FlagsAlwaysAgree
<1> HIDE DEF Agreement
<1>3. Spec => []Agreement BY <1>1, <1>2, PTL
<1> QED BY <1>3 DEF Agreement

=============================================================================
