--------------------------- MODULE SectionLayout ---------------------------
(***************************************************************************)
(* Sizes and addresses: from the sections that garbage collection loaded to *)
(* the place of every byte in the file and in memory. Groups allocate space *)
(* for their input sections, the sizes are added up, headers are sized,     *)
(* layout_section_parts walks over the output order, relaxation shrinks      *)
(* executable sections and starts the walk again, and the writer cuts the   *)
(* output buffer into one slice per section, part and group.                *)
(*                                                                         *)
(* A part is <<s, k>>: the k-th alignment of section s, largest first.       *)
(* Sections that are not `regular` have one part.                           *)
(***************************************************************************)
EXTENDS Integers, Sequences, FiniteSets, FiniteSetsExt

CONSTANTS
    Links,       \* the links to lay out
    MaxAlignment, \* alignment::MAX
    Alignments,  \* the alignments of the parts of a regular section
    FileHeaderSize,
    Pad,         \* TIER4_PAD
    MaxDelete,   \* bytes one relaxation pass may remove from a section
    MaxPasses,   \* MAX_RELAXATION_ITERATIONS
    Word         \* one more than the largest u64

NoLocation == -1
NoPrimary == ""
RelroPadding == "relro_padding"
FileHeader == "header"
ProgramHeaders == "phdr"
SectionHeaders == "shdr"

Info == [alloc : BOOLEAN, write : BOOLEAN, exec : BOOLEAN, nobits : BOOLEAN, tls : BOOLEAN,
         relro : BOOLEAN, null : BOOLEAN, regular : BOOLEAN, packed : BOOLEAN, forced : BOOLEAN,
         align : 1 .. MaxAlignment, location : Nat \cup {NoLocation}, primary : STRING, priority : Nat]
SegmentDef == [load : BOOLEAN, write : BOOLEAN, exec : BOOLEAN, tls : BOOLEAN, relro : BOOLEAN,
               stack : BOOLEAN]

PartsOf(infos, s) == IF infos[s].regular THEN DOMAIN Alignments ELSE {1}

\* What a link is made of: the output sections, the events of OutputOrder,
\* the segments these refer to, and the input sections each group loads.
IsLink(l) ==
    /\ l.infos \in [DOMAIN l.infos -> Info]
    /\ Len(l.order) \in Nat /\ DOMAIN l.order = 1 .. Len(l.order)
    /\ \A j \in DOMAIN l.order :
        /\ l.order[j].type \in {"start", "end", "section", "location"}
        /\ l.order[j].type \in {"start", "end"} => l.order[j].arg \in DOMAIN l.segments
        /\ l.order[j].type = "section" => l.order[j].arg \in DOMAIN l.infos
        /\ l.order[j].type = "location" =>
            l.order[j].arg \in Nat /\ \E s \in DOMAIN l.infos : l.infos[s].location = l.order[j].arg
    /\ l.segments \in Seq(SegmentDef)
    /\ \A s \in DOMAIN l.infos : l.infos[s].primary \in DOMAIN l.infos \cup {NoPrimary}
    /\ l.groups \in Seq(Seq([sec : DOMAIN l.infos, k : DOMAIN Alignments \cup {1}, size : Nat]))
    /\ l.groups # << >>
    /\ \A g \in DOMAIN l.groups : \A n \in DOMAIN l.groups[g] :
        l.groups[g][n].k \in PartsOf(l.infos, l.groups[g][n].sec)
    /\ {FileHeader, ProgramHeaders, SectionHeaders} \subseteq DOMAIN l.infos
    /\ IsFiniteSet(DOMAIN l.infos)
    /\ l.base \in Nat /\ l.page \in 1 .. MaxAlignment
    /\ l.partial \in BOOLEAN /\ l.pads \in BOOLEAN /\ l.relax \in BOOLEAN
    /\ l.relro \in BOOLEAN
    /\ l.must_keep \subseteq DOMAIN l.infos

ASSUME AlignmentsAssumption == Alignments \in Seq(1 .. MaxAlignment) /\ Alignments # << >>
ASSUME BoundsAssumption == /\ Pad \in Nat \ {0} /\ Word \in Nat \ {0} /\ MaxAlignment \in Nat \ {0}
                           /\ FileHeaderSize \in Nat
                           /\ MaxDelete \in Nat /\ MaxPasses \in Nat
ASSUME LinksAssumption == \A l \in Links : IsLink(l)

VARIABLES
    link,         \* the link
    phase,        \* "allocate", "total", "headers", "layout", "relax", "done" or "failed"
    at,           \* how far each group is with its input sections
    size,         \* the size of each input section
    mem_sizes,    \* CommonGroupState::mem_sizes, by group
    total,        \* section_part_sizes
    next,         \* the next group to add up, then the next event of the order
    k,            \* the next part of the section that is laid out, 0 before it
    file_offset, mem_offset, pending_location,
    own_offsets,  \* nonalloc_mem_offsets and reloc_alloc_mem_offsets
    start_file_offset,
    parts,        \* section_part_layouts: the parts placed so far
    pass,         \* relaxation passes begun
    deleted       \* total_deleted of this pass
vars == <<link, phase, at, size, mem_sizes, total, next, k, file_offset, mem_offset,
          pending_location, own_offsets, start_file_offset, parts, pass, deleted>>

Sections == DOMAIN link.infos
Groups == DOMAIN link.groups
Parts == {p \in Sections \X (DOMAIN Alignments \cup {1}) : p[2] \in PartsOf(link.infos, p[1])}

-----------------------------------------------------------------------------

\* alignment.rs. An alignment is its value.

\* (mutant) Rounds down.
align_up_down(a, v) == v - (v % a)

align_up(a, v) == v + ((-v) % a)

align_modulo(a, ref, v) ==
    LET offset == align_up(a, v)
        adjustment == (ref % a) + a - (offset % a)
    IN  IF offset % a = ref % a THEN offset
        ELSE offset + (IF adjustment > a THEN adjustment - a ELSE adjustment)

Larger(a, b) == IF a < b THEN b ELSE a
Smaller(a, b) == IF a < b THEN a ELSE b

\* PartId::alignment
PartAlignment(p) == IF link.infos[p[1]].regular THEN Alignments[p[2]] ELSE link.infos[p[1]].align

NonEmpty(s) == {j \in PartsOf(link.infos, s) : total[<<s, j>>] # 0}

\* (mutant) The smallest alignment in use.
max_alignment_last(s) ==
    IF NonEmpty(s) = {} THEN link.infos[s].align
    ELSE Larger(PartAlignment(<<s, Max(NonEmpty(s))>>), link.infos[s].align)

max_alignment(s) ==
    IF NonEmpty(s) = {} THEN link.infos[s].align
    ELSE LET first == CHOOSE j \in NonEmpty(s) : \A m \in NonEmpty(s) : j <= m
         IN  Larger(PartAlignment(<<s, first>>), link.infos[s].align)

\* Section::capacity
capacity(p, n) == IF link.infos[p[1]].packed THEN n ELSE align_up(PartAlignment(p), n)

primary_output_section(s) == IF link.infos[s].primary = NoPrimary THEN s ELSE link.infos[s].primary

\* .tbss is given space in the file.
has_data_in_file(s) == ~link.infos[s].nobits \/ link.infos[s].tls

-----------------------------------------------------------------------------

\* Where a section stands in the order and which segments are open there.
Position(type, x) == CHOOSE j \in DOMAIN link.order : link.order[j] = [type |-> type, arg |-> x]
Segments == DOMAIN link.segments
InSegment(seg) ==
    {link.order[j].arg : j \in {j \in DOMAIN link.order :
        /\ Position("start", seg) <= j /\ j <= Position("end", seg)
        /\ link.order[j].type = "section"}}

\* (mutant) Segments are aligned to pages only.
segment_alignment_page(seg) == link.page

\* compute_segment_alignments
segment_alignment(seg) ==
    LET needed == {link.page} \cup {max_alignment(s) : s \in InSegment(seg)}
    IN  CHOOSE a \in needed : \A b \in needed : b <= a

-----------------------------------------------------------------------------

Init ==
    /\ link \in Links
    /\ phase = "allocate"
    /\ at = [g \in Groups |-> 1]
    /\ size = [g \in Groups |-> [n \in DOMAIN link.groups[g] |-> link.groups[g][n].size]]
    /\ mem_sizes = [g \in Groups |-> [p \in Parts |-> 0]]
    /\ total = [p \in Parts |-> 0]
    /\ next = 1 /\ k = 0
    /\ file_offset = 0 /\ mem_offset = link.base /\ pending_location = NoLocation
    /\ own_offsets = [s \in Sections |-> 0]
    /\ start_file_offset = 0
    /\ parts = {}
    /\ pass = 0 /\ deleted = 0

walk == <<k, file_offset, mem_offset, pending_location, own_offsets, start_file_offset, parts>>

InputPart(g, n) == <<link.groups[g][n].sec, link.groups[g][n].k>>

\* CommonGroupState::section_loaded. Groups keep their own sizes, so they take
\* their steps one group after the other here.
Allocate(g) ==
    /\ phase = "allocate" /\ at[g] \in DOMAIN link.groups[g]
    /\ \A h \in Groups : h < g => at[h] \notin DOMAIN link.groups[h]
    /\ LET p == InputPart(g, at[g])
       IN  mem_sizes' = [mem_sizes EXCEPT ![g][p] = @ + capacity(p, size[g][at[g]])]
    /\ at' = [at EXCEPT ![g] = @ + 1]
    /\ UNCHANGED <<link, phase, size, total, next, walk, pass, deleted>>

Allocated ==
    /\ phase = "allocate" /\ \A g \in Groups : at[g] \notin DOMAIN link.groups[g]
    /\ phase' = "total"
    /\ UNCHANGED <<link, at, size, mem_sizes, total, next, walk, pass, deleted>>

\* compute_total_section_part_sizes, one group
MergeGroup ==
    /\ phase = "total" /\ next \in Groups
    /\ total' = [p \in Parts |-> total[p] + mem_sizes[next][p]]
    /\ next' = next + 1
    /\ phase' = IF next = Len(link.groups) THEN "headers" ELSE phase
    /\ UNCHANGED <<link, at, size, mem_sizes, walk, pass, deleted>>

\* The sections that get a header: a secondary section keeps its primary one.
Marked ==
    {s \in Sections : \/ s \in link.must_keep \/ link.infos[s].forced
                      \/ \E j \in PartsOf(link.infos, s) : total[<<s, j>>] > 0}
Kept == {primary_output_section(s) : s \in Marked}
        \ {s \in Sections \ {FileHeader} : link.infos[s].null}

KeptSegments ==
    {seg \in Segments : seg = 1 \/ link.segments[seg].stack \/ InSegment(seg) \cap Kept # {}}
        \ {seg \in Segments : link.segments[seg].relro /\ ~link.relro}

\* allocate_header_sizes, with one unit of the alignment for each entry
header_size(p) ==
    CASE p = <<FileHeader, 1>> -> FileHeaderSize
      [] p = <<ProgramHeaders, 1>> -> Cardinality(KeptSegments) * PartAlignment(p)
      [] p = <<SectionHeaders, 1>> -> Cardinality(Kept) * PartAlignment(p)
      [] OTHER -> 0

\* The prelude's apply_late_size_adjustments. It belongs to the first group.
AllocateHeaders ==
    /\ phase = "headers"
    /\ mem_sizes' = [mem_sizes EXCEPT ![1] = [p \in Parts |-> mem_sizes[1][p] + header_size(p)]]
    /\ total' = [p \in Parts |-> total[p] + header_size(p)]
    /\ phase' = "layout" /\ next' = 1
    /\ UNCHANGED <<link, at, size, walk, pass, deleted>>

-----------------------------------------------------------------------------

\* layout_section_parts
Event == link.order[next]
AtEvent(type) == phase = "layout" /\ next \in DOMAIN link.order /\ Event.type = type
rest == <<link, phase, at, size, mem_sizes, total, pass, deleted>>

LayoutSetLocation ==
    /\ AtEvent("location")
    /\ pending_location' = Event.arg
    /\ next' = next + 1
    /\ UNCHANGED <<rest, k, file_offset, mem_offset, own_offsets, start_file_offset, parts>>

LayoutSegmentStart ==
    /\ AtEvent("start")
    /\ LET a == segment_alignment(Event.arg) IN
        \/ /\ ~link.segments[Event.arg].load
           /\ UNCHANGED <<pending_location, file_offset, mem_offset>>
        \/ /\ link.segments[Event.arg].load /\ pending_location # NoLocation
           /\ mem_offset' = pending_location
           /\ file_offset' = align_modulo(a, pending_location, file_offset)
           /\ pending_location' = NoLocation
        \/ /\ link.segments[Event.arg].load /\ pending_location = NoLocation
           /\ file_offset' = align_up(a, file_offset)
           /\ mem_offset' = align_modulo(a, file_offset', mem_offset)
           /\ UNCHANGED pending_location
    /\ next' = next + 1
    /\ UNCHANGED <<rest, k, own_offsets, start_file_offset, parts>>

LayoutSegmentEnd ==
    /\ AtEvent("end")
    /\ next' = next + 1
    /\ UNCHANGED <<rest, walk>>

BeginSection ==
    /\ AtEvent("section") /\ k = 0
    /\ LET location == link.infos[Event.arg].location
       IN  mem_offset' = IF location # NoLocation THEN location ELSE mem_offset
    /\ start_file_offset' = file_offset
    /\ k' = 1
    /\ UNCHANGED <<rest, next, file_offset, pending_location, own_offsets, parts>>

\* (mutant) RELRO is padded down to a page.
PartSize_down(p) ==
    IF p[1] = RelroPadding THEN align_up(link.page, mem_offset) - link.page - mem_offset
    ELSE total[p]

\* One part of the section: the closure of layout_section_parts.
PartSize(p) ==
    IF p[1] = RelroPadding THEN align_up(link.page, mem_offset) - mem_offset ELSE total[p]

Placed(p, alignment, mem, in_file) ==
    [part |-> p, alignment |-> alignment, file_offset |-> align_up(alignment, file_offset),
     file_size |-> IF in_file THEN PartSize(p) ELSE 0, mem_offset |-> mem, mem_size |-> PartSize(p)]

\* (mutant) The memory of sections without data in the file is not counted.
LayoutAllocPart_nobits(p, alignment) ==
    LET rec == Placed(p, alignment, align_up(alignment, mem_offset),
                      has_data_in_file(primary_output_section(p[1])))
    IN  /\ link.infos[primary_output_section(p[1])].alloc /\ ~link.partial
        /\ parts' = parts \cup {rec}
        /\ file_offset' = rec.file_offset + rec.file_size
        /\ mem_offset' = rec.mem_offset + rec.file_size
        /\ UNCHANGED own_offsets

LayoutAllocPart(p, alignment) ==
    LET rec == Placed(p, alignment, align_up(alignment, mem_offset),
                      has_data_in_file(primary_output_section(p[1])))
    IN  /\ link.infos[primary_output_section(p[1])].alloc /\ ~link.partial
        /\ parts' = parts \cup {rec}
        /\ file_offset' = rec.file_offset + rec.file_size
        /\ mem_offset' = rec.mem_offset + rec.mem_size
        /\ UNCHANGED own_offsets

LayoutRelocatablePart(p, alignment) ==
    LET rec == Placed(p, alignment, align_up(alignment, own_offsets[p[1]]),
                      has_data_in_file(primary_output_section(p[1])))
    IN  /\ link.infos[primary_output_section(p[1])].alloc /\ link.partial
        /\ parts' = parts \cup {rec}
        /\ file_offset' = rec.file_offset + rec.file_size
        /\ own_offsets' = [own_offsets EXCEPT ![p[1]] = rec.mem_offset + rec.mem_size]
        /\ UNCHANGED mem_offset

LayoutNonAllocPart(p, alignment) ==
    LET rec == Placed(p, alignment, align_up(alignment, own_offsets[p[1]]), TRUE)
    IN  /\ ~link.infos[primary_output_section(p[1])].alloc
        /\ parts' = parts \cup {rec}
        /\ file_offset' = rec.file_offset + rec.file_size
        /\ own_offsets' = [own_offsets EXCEPT ![p[1]] = @ + rec.mem_size]
        /\ UNCHANGED mem_offset

LayoutPart ==
    /\ AtEvent("section") /\ k \in PartsOf(link.infos, Event.arg)
    /\ LET p == <<Event.arg, k>>
           alignment == Smaller(PartAlignment(p), max_alignment(p[1]))
       IN  \/ LayoutAllocPart(p, alignment)
           \/ LayoutRelocatablePart(p, alignment)
           \/ LayoutNonAllocPart(p, alignment)
    /\ k' = k + 1
    /\ UNCHANGED <<rest, next, pending_location, start_file_offset>>

\* Links that write the incremental cache pad every allocated section.
PadsSection ==
    /\ link.pads /\ file_offset > start_file_offset
    /\ link.infos[primary_output_section(Event.arg)].alloc /\ ~link.partial

EndSection ==
    /\ AtEvent("section") /\ k > 0 /\ k \notin PartsOf(link.infos, Event.arg)
    /\ file_offset' = IF PadsSection THEN align_up(Pad, file_offset) ELSE file_offset
    /\ mem_offset' = mem_offset + (file_offset' - file_offset)
    /\ k' = 0 /\ next' = next + 1
    /\ UNCHANGED <<rest, pending_location, own_offsets, start_file_offset, parts>>

-----------------------------------------------------------------------------

\* perform_iterative_relaxation. A pass scans sections whose boundaries are
\* close; which ones those are is left open.
LaidOut == phase = "layout" /\ next > Len(link.order)

BeginPass ==
    /\ LaidOut /\ link.relax /\ pass < MaxPasses
    /\ phase' = "relax" /\ pass' = pass + 1 /\ deleted' = 0
    /\ at' = [g \in Groups |-> 1]
    /\ UNCHANGED <<link, size, mem_sizes, total, next, walk>>

\* decrement on a u64
Minus(a, b) == (a - b) % Word

\* (mutant) The totals shrink by the bytes removed, not by the capacity freed.
RelaxSection_bytes(g, d) ==
    /\ phase = "relax" /\ at[g] \in DOMAIN link.groups[g]
    /\ LET n == at[g]
           p == InputPart(g, n)
           reduction == capacity(p, size[g][n]) - capacity(p, size[g][n] - d)
       IN  /\ d > 0 => link.infos[p[1]].exec
           /\ d < size[g][n] \/ d = 0
           /\ size' = [size EXCEPT ![g][n] = @ - d]
           /\ mem_sizes' = [mem_sizes EXCEPT ![g][p] = Minus(@, reduction)]
           /\ total' = [total EXCEPT ![p] = Minus(@, d)]
           /\ deleted' = deleted + d
    /\ at' = [at EXCEPT ![g] = @ + 1]
    /\ UNCHANGED <<link, phase, next, walk, pass>>

\* relaxation_scan_pass, one section. Groups run in parallel; their reductions
\* are subtracted from the totals before anything reads these.
RelaxSection(g, d) ==
    /\ phase = "relax" /\ at[g] \in DOMAIN link.groups[g]
    /\ LET n == at[g]
           p == InputPart(g, n)
           reduction == capacity(p, size[g][n]) - capacity(p, size[g][n] - d)
       IN  /\ d > 0 => link.infos[p[1]].exec
           /\ d < size[g][n] \/ d = 0
           /\ size' = [size EXCEPT ![g][n] = @ - d]
           /\ mem_sizes' = [mem_sizes EXCEPT ![g][p] = Minus(@, reduction)]
           /\ total' = [total EXCEPT ![p] = Minus(@, reduction)]
           /\ deleted' = deleted + reduction
    /\ at' = [at EXCEPT ![g] = @ + 1]
    /\ UNCHANGED <<link, phase, next, walk, pass>>

\* Nothing freed: the layout stands. Otherwise it is computed anew.
EndPass ==
    /\ phase = "relax" /\ \A g \in Groups : at[g] \notin DOMAIN link.groups[g]
    /\ phase' = "layout"
    /\ \/ /\ deleted = 0
          /\ pass' = MaxPasses
          /\ UNCHANGED <<next, walk>>
       \/ /\ deleted # 0
          /\ next' = 1 /\ k' = 0
          /\ file_offset' = 0 /\ mem_offset' = link.base /\ pending_location' = NoLocation
          /\ own_offsets' = [s \in Sections |-> 0] /\ start_file_offset' = 0 /\ parts' = {}
          /\ UNCHANGED pass
    /\ UNCHANGED <<link, at, size, mem_sizes, total, deleted>>

-----------------------------------------------------------------------------

\* The records that later phases derive from the parts.

OfSection(s) == {r \in parts : r.part[1] = s}
Least(S) == CHOOSE x \in S : \A y \in S : x <= y
Greatest(S) == CHOOSE x \in S : \A y \in S : y <= x

\* layout_sections
SectionRecord(s) ==
    LET rs == OfSection(s)
        file_start == Least({r.file_offset : r \in rs})
        mem_start == Least({r.mem_offset : r \in rs})
    IN  [file_offset |-> file_start,
         file_size |-> Greatest({r.file_offset + r.file_size : r \in rs}) - file_start,
         mem_offset |-> mem_start,
         mem_size |-> Greatest({r.mem_offset + r.mem_size : r \in rs}) - mem_start,
         alignment |-> Greatest({link.infos[s].align}
                                \cup {r.alignment : r \in {r \in rs : r.mem_size > 0}})]

\* Sections compute_segment_layout does not skip.
Present(s) == \/ SectionRecord(s).file_size # 0 \/ SectionRecord(s).mem_size # 0
              \/ primary_output_section(s) \in Kept
Listed == {link.order[j].arg : j \in {j \in DOMAIN link.order : link.order[j].type = "section"}}

\* compute_segment_layout, and the alignment write_program_headers gives it
SegmentRecord(seg) ==
    LET rs == {SectionRecord(s) : s \in {s \in InSegment(seg) : Present(s)}}
    IN  [file_start |-> Least({r.file_offset : r \in rs}),
         file_end |-> Greatest({r.file_offset + r.file_size : r \in rs}),
         mem_start |-> Least({r.mem_offset : r \in rs}),
         mem_end |-> Greatest({r.mem_offset + r.mem_size : r \in rs}),
         alignment |-> Greatest({link.page} \cup {r.alignment : r \in rs})]

\* The checks of compute_segment_layout and validate_section.
SegmentError(s) ==
    LET alloc == link.infos[primary_output_section(s)].alloc
        inside == \E seg \in Segments : s \in InSegment(seg)
        address == SectionRecord(s).mem_offset
    IN  IF inside THEN ~alloc \/ (address = 0 /\ s # FileHeader)
                  ELSE alloc \/ address # 0

Finish ==
    /\ LaidOut /\ (link.relax => pass > 0)
    /\ phase' = IF ~link.partial /\ \E s \in Listed : Present(s) /\ SegmentError(s)
                THEN "failed" ELSE "done"
    /\ UNCHANGED <<link, at, size, mem_sizes, total, next, walk, pass, deleted>>

Terminating == phase \in {"done", "failed"} /\ UNCHANGED vars

Next ==
    \/ \E g \in Groups : Allocate(g)
    \/ Allocated \/ MergeGroup \/ AllocateHeaders
    \/ LayoutSetLocation \/ LayoutSegmentStart \/ LayoutSegmentEnd
    \/ BeginSection \/ LayoutPart \/ EndSection
    \/ BeginPass \/ (\E g \in Groups, d \in 0 .. MaxDelete : RelaxSection(g, d)) \/ EndPass
    \/ Finish \/ Terminating

Spec == Init /\ [][Next]_vars

-----------------------------------------------------------------------------

\* What the writer does with the records.

\* compute_file_sizes
file_sizes(g, p) == IF has_data_in_file(p[1]) THEN mem_sizes[g][p] ELSE 0

\* compute_start_offsets_by_group
GroupStart(g, p) ==
    (CHOOSE r \in parts : r.part = p).mem_offset
        + MapThenSumSet(LAMBDA h : mem_sizes[h][p], {h \in Groups : h < g})

\* finalise_layout: the address of an input section
Address(g, n) ==
    LET p == InputPart(g, n)
    IN  GroupStart(g, p) + MapThenSumSet(LAMBDA m : capacity(p, size[g][m]),
                                         {m \in 1 .. n - 1 : InputPart(g, m) = p})

\* split_output_into_sections, split_buffers_by_alignment, split_output_by_group:
\* buffers are cut off one after the other, without gaps inside a section.
PartSlice(p) ==
    SectionRecord(p[1]).file_offset
        + MapThenSumSet(LAMBDA r : r.file_size, {r \in OfSection(p[1]) : r.part[2] < p[2]})
GroupSlice(g, p) ==
    PartSlice(p) + MapThenSumSet(LAMBDA h : file_sizes(h, p), {h \in Groups : h < g})

-----------------------------------------------------------------------------

\* The types of the state.
TypeOK ==
    /\ link \in Links
    /\ phase \in {"allocate", "total", "headers", "layout", "relax", "done", "failed"}
    /\ at \in [Groups -> Nat]
    /\ DOMAIN size = Groups
    /\ \A g \in Groups : size[g] \in [DOMAIN link.groups[g] -> Nat]
    /\ mem_sizes \in [Groups -> [Parts -> Nat]]
    /\ total \in [Parts -> Nat]
    /\ next \in Nat /\ k \in Nat
    /\ file_offset \in Nat /\ mem_offset \in Nat
    /\ pending_location \in Nat \cup {NoLocation}
    /\ own_offsets \in [Sections -> Nat]
    /\ start_file_offset \in Nat
    /\ \A r \in parts : /\ r.part \in Parts /\ r.alignment \in Nat \ {0}
                       /\ r.file_offset \in Nat /\ r.file_size \in Nat
                       /\ r.mem_offset \in Nat /\ r.mem_size \in Nat
    /\ pass \in Nat /\ deleted \in Int

\* layout_section_parts gives no two parts the same bytes of the file, so
\* split_output_into_sections never finds offsets going backward.
FileRangesDisjoint ==
    \A r, q \in parts : \/ r = q
                        \/ r.file_offset + r.file_size <= q.file_offset
                        \/ q.file_offset + q.file_size <= r.file_offset

\* Unless a linker script or an option sets addresses, no two allocated parts
\* of an executable or shared object have an address in common.
HasLocations == \E s \in Sections : link.infos[s].location # NoLocation
Allocates(r) == link.infos[primary_output_section(r.part[1])].alloc
MemoryRangesDisjoint ==
    ~HasLocations /\ ~link.partial =>
        \A r, q \in {r \in parts : Allocates(r)} :
            \/ r = q
            \/ r.mem_offset + r.mem_size <= q.mem_offset
            \/ q.mem_offset + q.mem_size <= r.mem_offset

Loadable == {seg \in KeptSegments : link.segments[seg].load}

\* Every allocated part is inside the one LOAD segment that holds its section,
\* in memory and in the file, other parts are in none, and mapping a LOAD
\* segment as its program header says brings every byte to the address that
\* the layout gave it.
MappedAtAddress ==
    phase = "done" => \A r \in {r \in parts : r.mem_size > 0} :
        LET holders == {seg \in Loadable : r.part[1] \in InSegment(seg)} IN
        /\ ~link.partial => Cardinality(holders) = IF Allocates(r) THEN 1 ELSE 0
        /\ \A seg \in holders :
            LET S == SegmentRecord(seg)
                delta == S.mem_start - S.file_start
            IN  /\ S.mem_start <= r.mem_offset /\ r.mem_offset + r.mem_size <= S.mem_end
                /\ S.file_start <= r.file_offset /\ r.file_offset + r.file_size <= S.file_end
                /\ delta % S.alignment = 0
                /\ r.file_size > 0 => r.mem_offset - r.file_offset = delta

\* The loader can protect the segments one by one.  "This ensures segments
\* don't share pages in the output file" (layout.rs); RELRO ends at a page, and
\* nothing that stays writable has an address in its pages.
SegmentsOwnPages ==
    phase = "done" =>
        /\ \A a, b \in Loadable :
            LET A == SegmentRecord(a)
                B == SegmentRecord(b)
            IN  \/ a = b \/ A.file_start = A.file_end \/ B.file_start = B.file_end
                \/ (A.file_end - 1) \div link.page < B.file_start \div link.page
                \/ (B.file_end - 1) \div link.page < A.file_start \div link.page
        /\ ~HasLocations => \A seg \in KeptSegments : link.segments[seg].relro =>
            LET R == SegmentRecord(seg) IN
            /\ R.mem_end % link.page = 0
            /\ \A r \in parts :
                r.mem_size > 0 /\ Allocates(r) /\ r.part[1] \notin InSegment(seg) =>
                    \/ r.mem_offset + r.mem_size <= (R.mem_start \div link.page) * link.page
                    \/ r.mem_offset >= R.mem_end

\* The slice of the output that a group gets for a part is the one that its
\* addresses point to, and the slices of all groups fit into the part.
WritersMatchLayout ==
    phase = "done" => \A r \in parts, g \in Groups : file_sizes(g, r.part) > 0 =>
        /\ GroupSlice(g, r.part) = r.file_offset + (GroupStart(g, r.part) - r.mem_offset)
        /\ GroupSlice(g, r.part) + file_sizes(g, r.part) <= r.file_offset + r.file_size

\* Input sections have the alignment they ask for, also after other sections
\* shrank, and lie inside their part.
AddressesAligned ==
    phase = "done" => \A g \in Groups : \A n \in DOMAIN link.groups[g] :
        LET p == InputPart(g, n)
            r == CHOOSE r \in parts : r.part = p
        IN  /\ ~link.infos[p[1]].packed => Address(g, n) % PartAlignment(p) = 0
            /\ Address(g, n) + size[g][n] <= r.mem_offset + r.mem_size

=============================================================================
