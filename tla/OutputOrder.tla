---------------------------- MODULE OutputOrder ----------------------------
(***************************************************************************)
(* The order of output sections and where program segments start and end:  *)
(* OutputSections::output_order, OutputOrderBuilder and the order that the *)
(* ELF platform gives it. A pure function from the sections of a link to   *)
(* the events that SectionLayout walks over.                               *)
(*                                                                         *)
(* A section is a name; `infos` gives its SectionOutputInfo. Of the ELF     *)
(* segments those are kept that decide where anything goes or are promised  *)
(* something: the three LOADs, TLS and GNU_RELRO.                           *)
(***************************************************************************)
EXTENDS Integers, Sequences, SequencesExt

NoLocation == -1
NoPrimary == ""

SegmentDefs == <<
    [load |-> TRUE, write |-> FALSE, exec |-> FALSE, tls |-> FALSE, relro |-> FALSE, stack |-> FALSE],
    [load |-> TRUE, write |-> FALSE, exec |-> TRUE, tls |-> FALSE, relro |-> FALSE, stack |-> FALSE],
    [load |-> TRUE, write |-> TRUE, exec |-> FALSE, tls |-> FALSE, relro |-> FALSE, stack |-> FALSE],
    [load |-> FALSE, write |-> FALSE, exec |-> FALSE, tls |-> TRUE, relro |-> FALSE, stack |-> FALSE],
    [load |-> FALSE, write |-> FALSE, exec |-> FALSE, tls |-> FALSE, relro |-> TRUE, stack |-> FALSE] >>
StackDef ==
    [load |-> FALSE, write |-> TRUE, exec |-> FALSE, tls |-> FALSE, relro |-> FALSE, stack |-> TRUE]

Defs == 1 .. Len(SegmentDefs)

ShouldInclude(info, d) ==
    LET def == SegmentDefs[d] IN
    CASE def.load -> info.alloc /\ info.write = def.write /\ info.exec = def.exec
      [] def.tls -> info.tls
      [] def.relro -> info.tls \/ info.relro

SegmentStart(id) == [type |-> "start", arg |-> id]
SegmentEnd(id) == [type |-> "end", arg |-> id]
SectionEvent(s) == [type |-> "section", arg |-> s]
SetLocation(address) == [type |-> "location", arg |-> address]

-----------------------------------------------------------------------------

\* A builder: the events so far, the segments so far, and for each definition
\* the segment that is open, or 0.
NewBuilder == [events |-> << >>, segments |-> << >>, active |-> [d \in Defs |-> 0]]

InOrder(S) == SetToSortSeq(S, <)

\* When the RELRO segment ends, the writable LOAD segment ends too.
EndRwLoadSegment(b, info) ==
    LET relro == \E d \in Defs : b.active[d] # 0 /\ SegmentDefs[d].relro /\ ~ShouldInclude(info, d)
        rw == CHOOSE d \in Defs : SegmentDefs[d].load /\ SegmentDefs[d].write
    IN  IF relro /\ b.active[rw] # 0
        THEN [b EXCEPT !.events = Append(@, SegmentEnd(b.active[rw])), !.active[rw] = 0]
        ELSE b

\* (mutant) A segment goes on over the sections that do not belong to it.
StopSegments_never(b, info) == b

StopSegments(b, info) ==
    LET stop == InOrder({d \in Defs : /\ b.active[d] # 0
                                      /\ info.location # NoLocation \/ ~ShouldInclude(info, d)})
    IN  [b EXCEPT !.events = @ \o [j \in DOMAIN stop |-> SegmentEnd(b.active[stop[j]])],
                  !.active = [d \in Defs |-> IF Contains(stop, d) THEN 0 ELSE b.active[d]]]

StartSegments(b, info) ==
    LET start == InOrder({d \in Defs : b.active[d] = 0 /\ ShouldInclude(info, d)})
        id(d) == Len(b.segments) + (CHOOSE j \in DOMAIN start : start[j] = d)
    IN  [b EXCEPT !.events = @ \o [j \in DOMAIN start |-> SegmentStart(id(start[j]))],
                  !.segments = @ \o [j \in DOMAIN start |-> SegmentDefs[start[j]]],
                  !.active = [d \in Defs |-> IF Contains(start, d) THEN id(d) ELSE b.active[d]]]

Located(b, info) ==
    IF info.location # NoLocation /\ info.alloc
    THEN [b EXCEPT !.events = Append(@, SetLocation(info.location))]
    ELSE b

\* Secondary sections follow their primary one, by priority and otherwise in
\* the order they were created in; they start and end no segments.
Secondaries(ids, infos, s) ==
    LET own == SelectSeq(ids, LAMBDA t : infos[t].primary = s)
        before(j, k) == \/ infos[own[j]].priority < infos[own[k]].priority
                        \/ infos[own[j]].priority = infos[own[k]].priority /\ j < k
        sorted == SetToSortSeq(DOMAIN own, before)
    IN  [j \in DOMAIN sorted |-> SectionEvent(own[sorted[j]])]

AddSection(b, s, ids, infos, partial) ==
    LET info == infos[s]
        cut == EndRwLoadSegment(b, info)
        open == IF partial THEN Located(cut, info)
                ELSE StartSegments(Located(StopSegments(cut, info), info), info)
    IN  [open EXCEPT !.events = Append(@, SectionEvent(s)) \o Secondaries(ids, infos, s)]

Build(b, partial) ==
    LET left == InOrder({d \in Defs : b.active[d] # 0})
        ends == [j \in DOMAIN left |-> SegmentEnd(b.active[left[j]])]
        stack == Len(b.segments) + 1
    IN  IF partial THEN [events |-> b.events \o ends, segments |-> b.segments]
        ELSE [events |-> b.events \o ends \o <<SegmentStart(stack), SegmentEnd(stack)>>,
              segments |-> Append(b.segments, StackDef)]

-----------------------------------------------------------------------------

\* Which list of custom sections a section that is not built in goes to.
CustomList(info) ==
    CASE info.exec -> "exec"
      [] ~info.exec /\ info.tls -> IF info.nobits THEN "tbss" ELSE "tdata"
      [] ~info.exec /\ ~info.tls /\ ~info.write -> IF info.alloc THEN "ro" ELSE "nonalloc"
      [] OTHER -> IF info.nobits THEN "bss" ELSE "data"

\* The order of ELF sections. Of built-in sections with the same attributes
\* one stands for all.
ElfOrder(ids, infos, builtIn) ==
    LET custom(list) == SelectSeq(ids, LAMBDA s : /\ s \notin builtIn
                                                  /\ infos[s].primary = NoPrimary
                                                  /\ CustomList(infos[s]) = list)
    IN  <<"header", "phdr", "shdr", "rodata">> \o custom("ro")
        \o <<"text", "init">> \o custom("exec")
        \o <<"tdata">> \o custom("tdata") \o <<"tbss">> \o custom("tbss")
        \o <<"init_array", "got", "relro_padding">>
        \o <<"data">> \o custom("data") \o <<"bss">> \o custom("bss")
        \o custom("nonalloc") \o <<"comment">>

\* ids: all sections in the order of their ids.
OutputOrderOf(ids, infos, builtIn, partial) ==
    LET order == ElfOrder(ids, infos, builtIn)
        built[n \in 0 .. Len(order)] ==
            IF n = 0 THEN NewBuilder
            ELSE CHOOSE b \in {AddSection(c, order[n], ids, infos, partial) : c \in {built[n - 1]}} : TRUE
    IN  Build(built[Len(order)], partial)

=============================================================================
