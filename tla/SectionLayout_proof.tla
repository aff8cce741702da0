------------------------ MODULE SectionLayout_proof ------------------------
(***************************************************************************)
(* The layout gives no byte of the file and no address to two parts, for    *)
(* every link, whatever its sections, segments, alignments and groups, and  *)
(* whatever relaxation removes.                                             *)
(***************************************************************************)
EXTENDS SectionLayout, TLAPS, WellFoundedInduction, FiniteSetTheorems

\* Rounding up stays at or above the value.
LEMMA AlignUp ==
    ASSUME NEW a \in Nat \ {0}, NEW v \in Nat
    PROVE  align_up(a, v) \in Nat /\ v <= align_up(a, v)
<1>1. (-v) % a \in Nat
    OBVIOUS
<1> QED
    BY <1>1 DEF align_up

\* So does rounding up to a value that agrees with another one.
LEMMA AlignModulo ==
    ASSUME NEW a \in Nat \ {0}, NEW ref \in Nat, NEW v \in Nat
    PROVE  align_modulo(a, ref, v) \in Nat /\ v <= align_modulo(a, ref, v)
<1> DEFINE offset == align_up(a, v)
           adjustment == (ref % a) + a - (offset % a)
<1>1. offset \in Nat /\ v <= offset
    BY AlignUp
<1>2. offset % a \in 0 .. a - 1 /\ ref % a \in 0 .. a - 1
    BY <1>1
<1>3. adjustment \in Nat
    BY <1>2
<1> HIDE DEF offset
<1>4. (IF adjustment > a THEN adjustment - a ELSE adjustment) \in Nat
    BY <1>3
<1> QED
    BY <1>1, <1>4 DEF align_modulo, offset

\* A non-empty set of numbers has a least element.
LEMMA LeastExists ==
    ASSUME NEW T \in SUBSET Nat, T # {}
    PROVE  \E x \in T : \A y \in T : x <= y
<1>1. PICK x \in T : \A y \in T : ~(<<y, x>> \in OpToRel(<, Nat))
    BY NatLessThanWellFounded, WFMin
<1>2. \A y \in T : ~(y < x)
    BY <1>1 DEF OpToRel
<1> QED
    BY <1>2

\* And a greatest one, when it is bounded.
LEMMA GreatestExists ==
    ASSUME NEW M \in Nat, NEW T \in SUBSET (0 .. M), T # {}
    PROVE  \E x \in T : \A y \in T : y <= x
<1> DEFINE U == {M - t : t \in T}
<1>0. \A t \in T : M - t \in Nat
    OBVIOUS
<1>1. U \in SUBSET Nat /\ U # {}
    BY <1>0
<1>2. PICK u \in U : \A y \in U : u <= y
    BY <1>1, LeastExists
<1>3. PICK t \in T : u = M - t
    BY <1>2
<1>4. \A y \in T : y <= t
  <2> TAKE y \in T
  <2>1. M - t <= M - y
    BY <1>2, <1>3
  <2> QED
    BY <2>1
<1> QED
    BY <1>4

-----------------------------------------------------------------------------
(* Alignments and sizes. *)

LEMMA LinkShape ==
    ASSUME TypeOK
    PROVE  /\ IsLink(link)
           /\ Groups = 1 .. Len(link.groups) /\ Len(link.groups) \in Nat /\ 1 \in Groups
           /\ Segments = 1 .. Len(link.segments)
           /\ \A s \in Sections : link.infos[s] \in Info /\ primary_output_section(s) \in Sections
<1>1. IsLink(link)
    BY LinksAssumption DEF TypeOK
<1>2. Groups = 1 .. Len(link.groups) /\ Len(link.groups) \in Nat /\ 1 \in Groups
    BY <1>1 DEF IsLink, Groups
<1>3. Segments = 1 .. Len(link.segments)
    BY <1>1 DEF IsLink, Segments
<1>4. \A s \in Sections : link.infos[s] \in Info
    BY <1>1 DEF IsLink, Sections
<1>5. \A s \in Sections : primary_output_section(s) \in Sections
    BY <1>1 DEF IsLink, Sections, primary_output_section
<1> QED
    BY <1>1, <1>2, <1>3, <1>4, <1>5

LEMMA PartAlignmentType ==
    ASSUME TypeOK, NEW s \in Sections, NEW j \in PartsOf(link.infos, s)
    PROVE  PartAlignment(<<s, j>>) \in 1 .. MaxAlignment
<1>1. link.infos[s] \in Info
    BY LinkShape
<1>2. CASE link.infos[s].regular
  <2>1. j \in DOMAIN Alignments
    BY <1>2 DEF PartsOf
  <2> DEFINE R == 1 .. MaxAlignment
  <2>2. Alignments[j] \in R
    <3>1. Alignments \in Seq(R)
      BY AlignmentsAssumption
    <3> HIDE DEF R
    <3> QED
      BY <2>1, <3>1
  <2> QED
    BY <1>2, <2>2 DEF PartAlignment
<1>3. CASE ~link.infos[s].regular
    BY <1>1, <1>3 DEF PartAlignment, Info
<1> QED
    BY <1>2, <1>3

LEMMA MaxAlignmentType ==
    ASSUME TypeOK, NEW s \in Sections
    PROVE  max_alignment(s) \in 1 .. MaxAlignment
<1>1. link.infos[s].align \in 1 .. MaxAlignment
    BY LinkShape DEF Info
<1>2. CASE NonEmpty(s) = {}
    BY <1>1, <1>2 DEF max_alignment
<1>3. CASE NonEmpty(s) # {}
  <2> DEFINE first == CHOOSE j \in NonEmpty(s) : \A m \in NonEmpty(s) : j <= m
  <2>1. PartsOf(link.infos, s) \in SUBSET Nat
    BY AlignmentsAssumption DEF PartsOf
  <2>2. NonEmpty(s) \in SUBSET Nat
    BY <2>1 DEF NonEmpty
  <2>3. \E j \in NonEmpty(s) : \A m \in NonEmpty(s) : j <= m
    BY <1>3, <2>2, LeastExists
  <2>4. first \in NonEmpty(s)
    BY <2>3
  <2>5. first \in PartsOf(link.infos, s)
    BY <2>4 DEF NonEmpty
  <2> HIDE DEF first
  <2>6. PartAlignment(<<s, first>>) \in 1 .. MaxAlignment
    BY <2>5, PartAlignmentType
  <2>7. Larger(PartAlignment(<<s, first>>), link.infos[s].align) \in 1 .. MaxAlignment
    BY <1>1, <2>6 DEF Larger
  <2> QED
    BY <1>3, <2>7 DEF max_alignment, first
<1> QED
    BY <1>2, <1>3

LEMMA SegmentAlignmentType ==
    ASSUME TypeOK, NEW seg
    PROVE  segment_alignment(seg) \in 1 .. MaxAlignment
<1> DEFINE needed == {link.page} \cup {max_alignment(s) : s \in InSegment(seg)}
<1>1. InSegment(seg) \subseteq Sections
    BY LinkShape DEF InSegment, IsLink, Sections
<1>2. \A s \in InSegment(seg) : max_alignment(s) \in 1 .. MaxAlignment
    BY <1>1, MaxAlignmentType
<1>3. link.page \in 1 .. MaxAlignment
    BY LinkShape DEF IsLink
<1>4. needed \subseteq 1 .. MaxAlignment /\ needed # {}
    BY <1>2, <1>3
<1>5. MaxAlignment \in Nat /\ needed \in SUBSET (0 .. MaxAlignment)
    BY <1>4, BoundsAssumption
<1> HIDE DEF needed
<1>6. \E a \in needed : \A b \in needed : b <= a
    BY <1>4, <1>5, GreatestExists
<1>7. (CHOOSE a \in needed : \A b \in needed : b <= a) \in needed
    BY <1>6
<1> QED
    BY <1>4, <1>7 DEF segment_alignment, needed

LEMMA CapacityType ==
    ASSUME TypeOK, NEW p \in Parts, NEW n \in Nat
    PROVE  capacity(p, n) \in Nat
<1>1. p[1] \in Sections /\ p[2] \in PartsOf(link.infos, p[1]) /\ p = <<p[1], p[2]>>
    BY DEF Parts
<1>2. PartAlignment(p) \in Nat \ {0}
  <2>1. PartAlignment(<<p[1], p[2]>>) \in 1 .. MaxAlignment
    BY <1>1, PartAlignmentType
  <2> QED
    BY <1>1, <2>1, BoundsAssumption
<1> QED
    BY <1>2, AlignUp DEF capacity

LEMMA HeaderSizeType ==
    ASSUME TypeOK, NEW p \in Parts
    PROVE  header_size(p) \in Nat
<1>1. p[1] \in Sections /\ p[2] \in PartsOf(link.infos, p[1]) /\ p = <<p[1], p[2]>>
    BY DEF Parts
<1>2. PartAlignment(p) \in Nat
  <2>1. PartAlignment(<<p[1], p[2]>>) \in 1 .. MaxAlignment
    BY <1>1, PartAlignmentType
  <2> QED
    BY <1>1, <2>1, BoundsAssumption
<1>3. Cardinality(KeptSegments) \in Nat
  <2>1. IsFiniteSet(Segments)
    BY LinkShape, FS_Interval DEF IsLink
  <2>2. KeptSegments \subseteq Segments
    BY DEF KeptSegments
  <2> QED
    BY <2>1, <2>2, FS_Subset, FS_CardinalityType
<1>4. Cardinality(Kept) \in Nat
  <2>1. IsFiniteSet(Sections)
    BY LinkShape DEF IsLink, Sections
  <2>2. Kept \subseteq Sections
    BY LinkShape DEF Kept, Marked
  <2> QED
    BY <2>1, <2>2, FS_Subset, FS_CardinalityType
<1>5. Cardinality(KeptSegments) * PartAlignment(p) \in Nat /\ Cardinality(Kept) * PartAlignment(p) \in Nat
    BY <1>2, <1>3, <1>4
<1> QED
    BY <1>5, BoundsAssumption DEF header_size

-----------------------------------------------------------------------------
(* Types. *)

\* What the sections, groups and parts are depends on the link only.
LEMMA LinkStays ==
    ASSUME link' = link
    PROVE  Sections' = Sections /\ Groups' = Groups /\ Parts' = Parts
BY DEF Sections, Groups, Parts

LEMMA InputPartType ==
    ASSUME TypeOK, NEW g \in Groups, NEW n \in DOMAIN link.groups[g]
    PROVE  InputPart(g, n) \in Parts
<1> DEFINE R == [sec : DOMAIN link.infos, k : DOMAIN Alignments \cup {1}, size : Nat]
<1>1. link.groups \in Seq(Seq(R)) /\ link.groups[g][n].k \in PartsOf(link.infos, link.groups[g][n].sec)
    BY LinkShape DEF IsLink, Groups
<1> HIDE DEF R
<1>2. link.groups[g] \in Seq(R)
    BY <1>1 DEF Groups
<1>3. link.groups[g][n] \in R
    BY <1>2
<1> QED
    BY <1>1, <1>3 DEF R, InputPart, Parts, Sections

LEMMA TypeInit ==
    ASSUME Init
    PROVE  TypeOK
<1>1. IsLink(link)
    BY LinksAssumption DEF Init
<1>2. \A g \in Groups : size[g] \in [DOMAIN link.groups[g] -> Nat]
  <2> TAKE g \in Groups
  <2> DEFINE R == [sec : DOMAIN link.infos, k : DOMAIN Alignments \cup {1}, size : Nat]
  <2>1. link.groups \in Seq(Seq(R))
    BY <1>1 DEF IsLink
  <2> HIDE DEF R
  <2>2. link.groups[g] \in Seq(R)
    BY <2>1 DEF Groups
  <2>3. \A n \in DOMAIN link.groups[g] : link.groups[g][n] \in R
    BY <2>2
  <2>4. \A n \in DOMAIN link.groups[g] : link.groups[g][n].size \in Nat
    BY <2>3 DEF R
  <2> QED
    BY <2>4 DEF Init
<1>3. link.base \in Nat
    BY <1>1 DEF IsLink
<1> QED
    BY <1>2, <1>3 DEF Init, TypeOK

\* One part: its record is well typed, and starts at or above the offsets.
LEMMA PlacedType ==
    ASSUME TypeOK, NEW p \in Parts, NEW alignment \in Nat \ {0}, NEW mem \in Nat,
           NEW in_file \in BOOLEAN
    PROVE  LET r == Placed(p, alignment, mem, in_file) IN
           /\ r.part = p /\ r.alignment = alignment
           /\ r.mem_offset = mem /\ r.mem_size \in Nat
           /\ r.file_offset \in Nat /\ r.file_size \in Nat
           /\ file_offset <= r.file_offset
<1>1. PartSize(p) \in Nat
  <2>1. link.page \in Nat \ {0}
    BY LinkShape, BoundsAssumption DEF IsLink
  <2>2. align_up(link.page, mem_offset) - mem_offset \in Nat
    <3>1. mem_offset \in Nat
      BY DEF TypeOK
    <3>2. align_up(link.page, mem_offset) \in Nat /\ mem_offset <= align_up(link.page, mem_offset)
      BY <2>1, <3>1, AlignUp
    <3> QED
      BY <3>1, <3>2
  <2>3. total[p] \in Nat
    BY DEF TypeOK
  <2> QED
    BY <2>2, <2>3 DEF PartSize
<1>2. align_up(alignment, file_offset) \in Nat /\ file_offset <= align_up(alignment, file_offset)
    BY AlignUp DEF TypeOK
<1> QED
    BY <1>1, <1>2 DEF Placed

\* What the three ways to place a part have in common.
LEMMA PartStep ==
    ASSUME TypeOK, LayoutPart
    PROVE  \E r :
           /\ parts' = parts \cup {r}
           /\ r.part = <<Event.arg, k>> /\ r.part \in Parts /\ r.alignment \in Nat \ {0}
           /\ r.file_offset \in Nat /\ r.file_size \in Nat
           /\ r.mem_offset \in Nat /\ r.mem_size \in Nat
           /\ file_offset <= r.file_offset
           /\ file_offset' = r.file_offset + r.file_size
           /\ mem_offset' \in Nat /\ mem_offset <= mem_offset'
           /\ Allocates(r) /\ ~link.partial => /\ mem_offset <= r.mem_offset
                                               /\ mem_offset' = r.mem_offset + r.mem_size
           /\ own_offsets' \in [Sections -> Nat]
<1> DEFINE p == <<Event.arg, k>>
           alignment == Smaller(PartAlignment(p), max_alignment(p[1]))
           primary == primary_output_section(p[1])
<1>1. Event.arg \in Sections /\ k \in PartsOf(link.infos, Event.arg)
    BY LinkShape DEF LayoutPart, AtEvent, IsLink, Sections, Event
<1>2. p \in Parts /\ p[1] = Event.arg
    BY <1>1 DEF Parts, PartsOf
<1>3. alignment \in Nat \ {0}
  <2>1. PartAlignment(p) \in 1 .. MaxAlignment /\ max_alignment(Event.arg) \in 1 .. MaxAlignment
    BY <1>1, PartAlignmentType, MaxAlignmentType
  <2> QED
    BY <2>1, BoundsAssumption DEF Smaller
<1>4. link.infos[primary] \in Info
    BY <1>1, LinkShape
<1>5. has_data_in_file(primary) \in BOOLEAN
    BY <1>4 DEF has_data_in_file, Info
<1>6. own_offsets[p[1]] \in Nat
    BY <1>1 DEF TypeOK
<1>7. LayoutAllocPart(p, alignment) \/ LayoutRelocatablePart(p, alignment) \/ LayoutNonAllocPart(p, alignment)
    BY DEF LayoutPart
<1> HIDE DEF alignment, p
<1>8. CASE LayoutAllocPart(p, alignment)
  <2> DEFINE r == Placed(p, alignment, align_up(alignment, mem_offset), has_data_in_file(primary))
  <2>1. align_up(alignment, mem_offset) \in Nat /\ mem_offset <= align_up(alignment, mem_offset)
    BY <1>3, AlignUp DEF TypeOK
  <2>2. /\ r.part = p /\ r.alignment = alignment
        /\ r.mem_offset = align_up(alignment, mem_offset) /\ r.mem_size \in Nat
        /\ r.file_offset \in Nat /\ r.file_size \in Nat
        /\ file_offset <= r.file_offset
    BY <1>2, <1>3, <1>5, <2>1, PlacedType
  <2>3. /\ parts' = parts \cup {r}
        /\ file_offset' = r.file_offset + r.file_size
        /\ mem_offset' = r.mem_offset + r.mem_size
        /\ own_offsets' = own_offsets
    BY <1>8 DEF LayoutAllocPart
  <2>4. own_offsets \in [Sections -> Nat] /\ mem_offset \in Nat
    BY DEF TypeOK
  <2> HIDE DEF r
  <2>5. mem_offset' \in Nat /\ mem_offset <= mem_offset' /\ mem_offset <= r.mem_offset
    BY <2>1, <2>2, <2>3, <2>4
  <2> WITNESS r
  <2> QED
    BY <1>2, <1>3, <2>1, <2>2, <2>3, <2>4, <2>5 DEF p
<1>9. CASE LayoutRelocatablePart(p, alignment)
  <2> DEFINE r == Placed(p, alignment, align_up(alignment, own_offsets[p[1]]), has_data_in_file(primary))
  <2>1. align_up(alignment, own_offsets[p[1]]) \in Nat
    BY <1>3, <1>6, AlignUp
  <2>2. /\ r.part = p /\ r.alignment = alignment
        /\ r.mem_offset = align_up(alignment, own_offsets[p[1]]) /\ r.mem_size \in Nat
        /\ r.file_offset \in Nat /\ r.file_size \in Nat
        /\ file_offset <= r.file_offset
    <3>1. PICK mem \in Nat, f \in BOOLEAN : mem = align_up(alignment, own_offsets[p[1]]) /\ f = has_data_in_file(primary)
      BY <1>5, <2>1
    <3>2. r = Placed(p, alignment, mem, f)
      BY <3>1
    <3> HIDE DEF r
    <3> QED
      BY <1>2, <1>3, <3>1, <3>2, PlacedType
  <2>3. /\ parts' = parts \cup {r} /\ link.partial
        /\ file_offset' = r.file_offset + r.file_size
        /\ mem_offset' = mem_offset
        /\ own_offsets' = [own_offsets EXCEPT ![p[1]] = r.mem_offset + r.mem_size]
    BY <1>9 DEF LayoutRelocatablePart
  <2>4. own_offsets \in [Sections -> Nat] /\ mem_offset \in Nat
    BY DEF TypeOK
  <2> HIDE DEF r
  <2>5. own_offsets' \in [Sections -> Nat]
    <3>1. r.mem_offset + r.mem_size \in Nat
      BY <2>1, <2>2
    <3> QED
      BY <2>3, <2>4, <3>1
  <2> WITNESS r
  <2> QED
    BY <1>2, <1>3, <2>1, <2>2, <2>3, <2>4, <2>5 DEF p
<1>10. CASE LayoutNonAllocPart(p, alignment)
  <2> DEFINE r == Placed(p, alignment, align_up(alignment, own_offsets[p[1]]), TRUE)
  <2>1. align_up(alignment, own_offsets[p[1]]) \in Nat
    BY <1>3, <1>6, AlignUp
  <2>2. /\ r.part = p /\ r.alignment = alignment
        /\ r.mem_offset = align_up(alignment, own_offsets[p[1]]) /\ r.mem_size \in Nat
        /\ r.file_offset \in Nat /\ r.file_size \in Nat
        /\ file_offset <= r.file_offset
    BY <1>2, <1>3, <2>1, PlacedType
  <2>3. /\ parts' = parts \cup {r} /\ ~link.infos[primary].alloc
        /\ file_offset' = r.file_offset + r.file_size
        /\ mem_offset' = mem_offset
        /\ own_offsets' = [own_offsets EXCEPT ![p[1]] = own_offsets[p[1]] + r.mem_size]
    BY <1>10 DEF LayoutNonAllocPart
  <2>4. own_offsets \in [Sections -> Nat] /\ mem_offset \in Nat
    BY DEF TypeOK
  <2> HIDE DEF r
  <2>5. own_offsets' \in [Sections -> Nat]
    <3>1. own_offsets[p[1]] + r.mem_size \in Nat
      BY <1>6, <2>2
    <3> QED
      BY <2>3, <2>4, <3>1
  <2>6. ~Allocates(r)
    BY <2>2, <2>3 DEF Allocates
  <2> WITNESS r
  <2> QED
    BY <1>2, <1>3, <2>1, <2>2, <2>3, <2>4, <2>5, <2>6 DEF p
<1> QED
    BY <1>7, <1>8, <1>9, <1>10

-----------------------------------------------------------------------------
(* The invariant. *)

\* The walk never goes back in the file, and not in memory unless it is told
\* to by an address.
Behind ==
    /\ \A r \in parts : r.file_offset + r.file_size <= file_offset
    /\ ~HasLocations /\ ~link.partial =>
        /\ pending_location = NoLocation
        /\ \A r \in parts : Allocates(r) => r.mem_offset + r.mem_size <= mem_offset

IInv == TypeOK /\ Behind /\ FileRangesDisjoint /\ MemoryRangesDisjoint

\* What the invariant says of the parts stays true when the offsets grow and
\* no part is added.
LEMMA OffsetsGrow ==
    ASSUME IInv, link' = link, parts' = parts,
           file_offset' \in Nat, file_offset <= file_offset',
           mem_offset' \in Nat,
           ~HasLocations /\ ~link.partial =>
               mem_offset <= mem_offset' /\ pending_location' = NoLocation
    PROVE  Behind' /\ FileRangesDisjoint' /\ MemoryRangesDisjoint'
<1>1. HasLocations' = HasLocations /\ \A r : Allocates(r)' = Allocates(r)
    BY DEF HasLocations, Allocates, Sections, primary_output_section
<1>2. FileRangesDisjoint' /\ MemoryRangesDisjoint'
    BY <1>1 DEF IInv, FileRangesDisjoint, MemoryRangesDisjoint
<1>3. \A r \in parts : r.file_offset + r.file_size <= file_offset'
  <2> TAKE r \in parts
  <2>1. r.file_offset + r.file_size <= file_offset /\ r.file_offset \in Nat /\ r.file_size \in Nat
    BY DEF IInv, Behind, TypeOK
  <2> QED
    BY <2>1 DEF IInv, TypeOK
<1>4. ASSUME ~HasLocations, ~link.partial, NEW r \in parts, Allocates(r)
      PROVE  r.mem_offset + r.mem_size <= mem_offset'
  <2>1. r.mem_offset + r.mem_size <= mem_offset /\ r.mem_offset \in Nat /\ r.mem_size \in Nat
    BY <1>4 DEF IInv, Behind, TypeOK
  <2> QED
    BY <1>4, <2>1 DEF IInv, TypeOK
<1> QED
    BY <1>1, <1>2, <1>3, <1>4 DEF Behind

\* Steps outside of the walk.
LEMMA WalkStays ==
    ASSUME IInv, link' = link, walk' = walk
    PROVE  Behind' /\ FileRangesDisjoint' /\ MemoryRangesDisjoint'
<1>1. /\ parts' = parts /\ file_offset' = file_offset /\ mem_offset' = mem_offset
      /\ pending_location' = pending_location
    BY DEF walk
<1>2. file_offset \in Nat /\ mem_offset \in Nat
    BY DEF IInv, TypeOK
<1>3. ~HasLocations /\ ~link.partial => pending_location' = NoLocation
    BY <1>1 DEF IInv, Behind
<1> QED
    BY <1>1, <1>2, <1>3, OffsetsGrow

LEMMA PartPreserves ==
    ASSUME IInv, LayoutPart
    PROVE  IInv'
<1> USE DEF IInv
<1>1. PICK r :
           /\ parts' = parts \cup {r}
           /\ r.part = <<Event.arg, k>> /\ r.part \in Parts /\ r.alignment \in Nat \ {0}
           /\ r.file_offset \in Nat /\ r.file_size \in Nat
           /\ r.mem_offset \in Nat /\ r.mem_size \in Nat
           /\ file_offset <= r.file_offset
           /\ file_offset' = r.file_offset + r.file_size
           /\ mem_offset' \in Nat /\ mem_offset <= mem_offset'
           /\ Allocates(r) /\ ~link.partial => /\ mem_offset <= r.mem_offset
                                               /\ mem_offset' = r.mem_offset + r.mem_size
           /\ own_offsets' \in [Sections -> Nat]
    BY PartStep
<1>2. /\ link' = link /\ phase' = phase /\ at' = at /\ size' = size /\ mem_sizes' = mem_sizes
      /\ total' = total /\ pass' = pass /\ deleted' = deleted /\ next' = next /\ k' = k + 1
      /\ pending_location' = pending_location /\ start_file_offset' = start_file_offset
    BY DEF LayoutPart, rest
<1>3. Sections' = Sections /\ Groups' = Groups /\ Parts' = Parts
    BY <1>2, LinkStays
<1>4. HasLocations' = HasLocations /\ \A q : Allocates(q)' = Allocates(q)
    BY <1>2, <1>3 DEF HasLocations, Allocates, primary_output_section
<1>5. \A q \in parts : /\ q.file_offset \in Nat /\ q.file_size \in Nat
                       /\ q.mem_offset \in Nat /\ q.mem_size \in Nat
    BY DEF TypeOK
<1>6. file_offset \in Nat /\ mem_offset \in Nat /\ file_offset' \in Nat
    BY <1>1 DEF TypeOK
<1>7. TypeOK'
  <2>1. \A q \in parts' : /\ q.part \in Parts /\ q.alignment \in Nat \ {0}
                           /\ q.file_offset \in Nat /\ q.file_size \in Nat
                           /\ q.mem_offset \in Nat /\ q.mem_size \in Nat
    BY <1>1 DEF TypeOK
  <2>2. k' \in Nat
    BY <1>2 DEF TypeOK
  <2>3. \A g \in Groups : size[g] \in [DOMAIN link.groups[g] -> Nat]
    BY DEF TypeOK
  <2> QED
    BY <1>1, <1>2, <1>3, <1>6, <2>1, <2>2, <2>3 DEF TypeOK
<1>8. \A q \in parts : q.file_offset + q.file_size <= r.file_offset
    BY <1>1, <1>5, <1>6 DEF Behind
<1>9. FileRangesDisjoint'
    BY <1>1, <1>8 DEF FileRangesDisjoint
<1>10. \A q \in parts' : q.file_offset + q.file_size <= file_offset'
    BY <1>1, <1>5, <1>6, <1>8
<1>11. ASSUME ~HasLocations, ~link.partial
       PROVE  /\ pending_location' = NoLocation
              /\ \A q \in parts' : Allocates(q) => q.mem_offset + q.mem_size <= mem_offset'
  <2>1. \A q \in parts : Allocates(q) => q.mem_offset + q.mem_size <= mem_offset
    BY <1>11 DEF Behind
  <2>2. \A q \in parts : Allocates(q) => q.mem_offset + q.mem_size <= mem_offset'
    BY <2>1, <1>1, <1>5, <1>6
  <2>3. Allocates(r) => r.mem_offset + r.mem_size <= mem_offset'
    BY <1>1, <1>11
  <2> QED
    BY <1>1, <1>2, <1>11, <2>2, <2>3 DEF Behind
<1>12. Behind'
    BY <1>2, <1>4, <1>10, <1>11 DEF Behind
<1>13. ASSUME ~HasLocations, ~link.partial
       PROVE  \A q \in parts : Allocates(q) /\ Allocates(r) => q.mem_offset + q.mem_size <= r.mem_offset
    BY <1>1, <1>5, <1>6, <1>13 DEF Behind
<1>14. MemoryRangesDisjoint'
  <2> SUFFICES ASSUME ~HasLocations, ~link.partial, NEW x \in parts', NEW q \in parts',
                      Allocates(x), Allocates(q)
               PROVE  \/ x = q
                      \/ x.mem_offset + x.mem_size <= q.mem_offset
                      \/ q.mem_offset + q.mem_size <= x.mem_offset
    BY <1>2, <1>4 DEF MemoryRangesDisjoint
  <2>1. CASE x \in parts /\ q \in parts
    BY <2>1 DEF MemoryRangesDisjoint
  <2>2. CASE x = r \/ q = r
    BY <2>2, <1>1, <1>13
  <2> QED
    BY <1>1, <2>1, <2>2
<1> QED
    BY <1>7, <1>9, <1>12, <1>14

\* A segment starts at or above the offsets, unless an address is pending.
LEMMA SegmentStartStep ==
    ASSUME TypeOK, LayoutSegmentStart
    PROVE  /\ file_offset' \in Nat /\ file_offset <= file_offset' /\ mem_offset' \in Nat
           /\ pending_location = NoLocation => mem_offset <= mem_offset' /\ pending_location' = NoLocation
           /\ pending_location' \in Nat \cup {NoLocation}
<1> DEFINE a == segment_alignment(Event.arg)
<1>1. a \in Nat \ {0}
    BY SegmentAlignmentType, BoundsAssumption
<1>2. file_offset \in Nat /\ mem_offset \in Nat /\ pending_location \in Nat \cup {NoLocation}
    BY DEF TypeOK
<1> HIDE DEF a
<1>3. CASE ~link.segments[Event.arg].load
    BY <1>2, <1>3 DEF LayoutSegmentStart
<1>4. CASE link.segments[Event.arg].load /\ pending_location # NoLocation
  <2>1. /\ mem_offset' = pending_location /\ pending_location' = NoLocation
        /\ file_offset' = align_modulo(a, pending_location, file_offset)
    BY <1>4 DEF LayoutSegmentStart, a
  <2>2. file_offset' \in Nat /\ file_offset <= file_offset'
    BY <1>1, <1>2, <1>4, <2>1, AlignModulo
  <2> QED
    BY <1>2, <1>4, <2>1, <2>2
<1>5. CASE link.segments[Event.arg].load /\ pending_location = NoLocation
  <2>1. /\ file_offset' = align_up(a, file_offset) /\ pending_location' = pending_location
        /\ mem_offset' = align_modulo(a, file_offset', mem_offset)
    BY <1>5 DEF LayoutSegmentStart, a
  <2>2. file_offset' \in Nat /\ file_offset <= file_offset'
    BY <1>1, <1>2, <2>1, AlignUp
  <2>3. mem_offset' \in Nat /\ mem_offset <= mem_offset'
    BY <1>1, <1>2, <2>1, <2>2, AlignModulo
  <2> QED
    BY <1>2, <1>5, <2>1, <2>2, <2>3
<1> QED
    BY <1>3, <1>4, <1>5

\* Padding moves both offsets forward.
LEMMA EndSectionStep ==
    ASSUME TypeOK, EndSection
    PROVE  /\ file_offset' \in Nat /\ file_offset <= file_offset'
           /\ mem_offset' \in Nat /\ mem_offset <= mem_offset'
<1>1. file_offset \in Nat /\ mem_offset \in Nat
    BY DEF TypeOK
<1>2. file_offset' \in Nat /\ file_offset <= file_offset'
  <2>1. align_up(Pad, file_offset) \in Nat /\ file_offset <= align_up(Pad, file_offset)
    BY <1>1, AlignUp, BoundsAssumption
  <2> QED
    BY <1>1, <2>1 DEF EndSection
<1>3. mem_offset' = mem_offset + (file_offset' - file_offset)
    BY DEF EndSection
<1>4. ASSUME NEW f \in Nat, file_offset <= f
      PROVE  /\ mem_offset + (f - file_offset) \in Nat
             /\ mem_offset <= mem_offset + (f - file_offset)
    BY <1>1, <1>4
<1> QED
    BY <1>2, <1>3, <1>4

LEMMA RelaxType ==
    ASSUME TypeOK, NEW g \in Groups, NEW d \in 0 .. MaxDelete, RelaxSection(g, d)
    PROVE  TypeOK'
<1>1. Sections' = Sections /\ Groups' = Groups /\ Parts' = Parts /\ link' = link
    BY LinkStays DEF RelaxSection
<1> DEFINE n == at[g]
           p == InputPart(g, n)
           reduction == capacity(p, size[g][n]) - capacity(p, size[g][n] - d)
<1>2. n \in DOMAIN link.groups[g] /\ p \in Parts
    BY InputPartType DEF RelaxSection
<1>3. size[g] \in [DOMAIN link.groups[g] -> Nat] /\ size[g][n] \in Nat
    BY <1>2 DEF TypeOK
<1>4. d \in Nat /\ size[g][n] - d \in Nat
  <2>1. d \in Nat
    BY BoundsAssumption
  <2>2. d < size[g][n] \/ d = 0
    BY DEF RelaxSection
  <2> HIDE DEF n
  <2> QED
    BY <1>3, <2>1, <2>2
<1>5. reduction \in Int
  <2>1. capacity(p, size[g][n]) \in Nat
    BY <1>2, <1>3, CapacityType
  <2>2. capacity(p, size[g][n] - d) \in Nat
    BY <1>2, <1>4, CapacityType
  <2> HIDE DEF p, n
  <2> QED
    BY <2>1, <2>2
<1>6. /\ size' = [size EXCEPT ![g] = [size[g] EXCEPT ![n] = size[g][n] - d]]
      /\ mem_sizes' = [mem_sizes EXCEPT ![g] = [mem_sizes[g] EXCEPT ![p] = Minus(mem_sizes[g][p], reduction)]]
      /\ total' = [total EXCEPT ![p] = Minus(total[p], reduction)]
      /\ deleted' = deleted + reduction
      /\ at' = [at EXCEPT ![g] = at[g] + 1]
    BY <1>2 DEF RelaxSection, TypeOK
<1>7. mem_sizes[g] \in [Parts -> Nat] /\ total \in [Parts -> Nat]
    BY DEF TypeOK
<1>8. mem_sizes[g][p] \in Nat /\ total[p] \in Nat
    BY <1>2, <1>7
<1> HIDE DEF reduction, p, n
<1>9. Minus(mem_sizes[g][p], reduction) \in Nat /\ Minus(total[p], reduction) \in Nat
    BY <1>5, <1>8, BoundsAssumption DEF Minus
<1>10. total' \in [Parts -> Nat]
    BY <1>2, <1>6, <1>7, <1>9
<1>11. [mem_sizes[g] EXCEPT ![p] = Minus(mem_sizes[g][p], reduction)] \in [Parts -> Nat]
    BY <1>2, <1>7, <1>9
<1>12. mem_sizes' \in [Groups -> [Parts -> Nat]]
    BY <1>6, <1>11 DEF TypeOK
<1>13. [size[g] EXCEPT ![n] = size[g][n] - d] \in [DOMAIN link.groups[g] -> Nat]
    BY <1>2, <1>3, <1>4
<1>14. DOMAIN size' = Groups /\ \A h \in Groups : size'[h] \in [DOMAIN link.groups[h] -> Nat]
    BY <1>6, <1>13 DEF TypeOK
<1>15. at' \in [Groups -> Nat] /\ deleted' \in Int
    BY <1>5, <1>6 DEF TypeOK
<1> QED
    BY <1>1, <1>10, <1>12, <1>14, <1>15 DEF RelaxSection, walk, TypeOK

\* The other steps keep the types.
LEMMA TypeStep ==
    ASSUME TypeOK, [Next]_vars, ~LayoutPart
    PROVE  TypeOK'
<1>1. Sections' = Sections /\ Groups' = Groups /\ Parts' = Parts /\ link' = link
  <2>1. link' = link
    BY DEF Next, vars, Allocate, Allocated, MergeGroup, AllocateHeaders, LayoutSetLocation,
           LayoutSegmentStart, LayoutSegmentEnd, BeginSection, EndSection, BeginPass,
           RelaxSection, EndPass, Finish, Terminating, rest
  <2> QED
    BY <2>1, LinkStays
<1>2. IsLink(link)
    BY LinkShape
<1>3. ASSUME NEW g \in Groups, Allocate(g)
      PROVE  TypeOK'
  <2> DEFINE p == InputPart(g, at[g])
  <2>1. p \in Parts
    BY <1>3, InputPartType DEF Allocate
  <2>2. capacity(p, size[g][at[g]]) \in Nat
    <3>1. size[g][at[g]] \in Nat
      BY <1>3 DEF Allocate, TypeOK
    <3> QED
      BY <2>1, <3>1, CapacityType
  <2>3. mem_sizes[g] \in [Parts -> Nat] /\ mem_sizes[g][p] \in Nat
    BY <2>1 DEF TypeOK
  <2> HIDE DEF p
  <2>4. mem_sizes' = [mem_sizes EXCEPT ![g] = [mem_sizes[g] EXCEPT ![p] = mem_sizes[g][p] + capacity(p, size[g][at[g]])]]
    BY <1>3 DEF Allocate, p, TypeOK
  <2>5. [mem_sizes[g] EXCEPT ![p] = mem_sizes[g][p] + capacity(p, size[g][at[g]])] \in [Parts -> Nat]
    BY <2>1, <2>2, <2>3
  <2>6. mem_sizes' \in [Groups -> [Parts -> Nat]]
    BY <2>4, <2>5 DEF TypeOK
  <2>7. at' \in [Groups -> Nat]
    <3>1. at' = [at EXCEPT ![g] = @ + 1]
      BY <1>3 DEF Allocate
    <3>2. at \in [Groups -> Nat]
      BY DEF TypeOK
    <3> QED
      BY <3>1, <3>2
  <2> QED
    BY <1>1, <1>3, <2>6, <2>7 DEF Allocate, walk, TypeOK
<1>4. CASE Allocated
    BY <1>1, <1>4 DEF Allocated, walk, TypeOK
<1>5. CASE MergeGroup
  <2>1. \A p \in Parts : total[p] + mem_sizes[next][p] \in Nat
    <3> TAKE p \in Parts
    <3>1. next \in Groups
      BY <1>5 DEF MergeGroup
    <3>2. mem_sizes[next] \in [Parts -> Nat]
      BY <3>1 DEF TypeOK
    <3>3. total[p] \in Nat /\ mem_sizes[next][p] \in Nat
      BY <3>2 DEF TypeOK
    <3> QED
      BY <3>3
  <2>2. total' \in [Parts -> Nat]
    BY <1>5, <2>1 DEF MergeGroup
  <2>3. next' \in Nat
    <3>1. next' = next + 1 /\ next \in Nat
      BY <1>5 DEF MergeGroup, TypeOK
    <3> QED
      BY <3>1
  <2> QED
    BY <1>1, <1>5, <2>2, <2>3 DEF MergeGroup, walk, TypeOK
<1>6. CASE AllocateHeaders
  <2>1. \A p \in Parts : header_size(p) \in Nat
    BY HeaderSizeType
  <2>a. \A p \in Parts : total[p] \in Nat
    BY DEF TypeOK
  <2>2. \A p \in Parts : total[p] + header_size(p) \in Nat
    BY <2>1, <2>a
  <2>3. total' \in [Parts -> Nat]
    BY <1>6, <2>2 DEF AllocateHeaders
  <2>4. mem_sizes[1] \in [Parts -> Nat]
    BY LinkShape DEF TypeOK
  <2>5. \A p \in Parts : mem_sizes[1][p] + header_size(p) \in Nat
    BY <2>1, <2>4
  <2>6. [p \in Parts |-> mem_sizes[1][p] + header_size(p)] \in [Parts -> Nat]
    BY <2>5
  <2>7. mem_sizes' \in [Groups -> [Parts -> Nat]]
    BY <1>6, <2>6 DEF AllocateHeaders, TypeOK
  <2> QED
    BY <1>1, <1>6, <2>3, <2>7 DEF AllocateHeaders, walk, TypeOK
<1>7. CASE LayoutSetLocation
  <2>1. pending_location' \in Nat
    BY <1>2, <1>7 DEF LayoutSetLocation, AtEvent, Event, IsLink
  <2>a. next' = next + 1 BY <1>7 DEF LayoutSetLocation
  <2>b. next \in Nat BY DEF TypeOK
  <2>2. next' \in Nat BY <2>a, <2>b
  <2> QED
    BY <1>1, <1>7, <2>1, <2>2 DEF LayoutSetLocation, rest, TypeOK
<1>8. CASE LayoutSegmentStart
  <2>1. file_offset' \in Nat /\ mem_offset' \in Nat /\ pending_location' \in Nat \cup {NoLocation}
    BY <1>8, SegmentStartStep
  <2>a. next' = next + 1 BY <1>8 DEF LayoutSegmentStart
  <2>b. next \in Nat BY DEF TypeOK
  <2>2. next' \in Nat BY <2>a, <2>b
  <2> QED
    BY <1>1, <1>8, <2>1, <2>2 DEF LayoutSegmentStart, rest, TypeOK
<1>9. CASE LayoutSegmentEnd
  <2>1. next' \in Nat
    BY <1>9 DEF LayoutSegmentEnd, TypeOK
  <2> QED
    BY <1>1, <1>9, <2>1 DEF LayoutSegmentEnd, rest, walk, TypeOK
<1>10. CASE BeginSection
  <2>1. link.infos[Event.arg] \in Info
    BY <1>10, <1>2, LinkShape DEF BeginSection, AtEvent, Event, IsLink, Sections
  <2>2. link.infos[Event.arg].location \in Nat \cup {NoLocation}
    BY <2>1 DEF Info
  <2>3. mem_offset' \in Nat
    BY <1>10, <2>2 DEF BeginSection, TypeOK
  <2> QED
    BY <1>1, <1>10, <2>3 DEF BeginSection, rest, TypeOK
<1>11. CASE EndSection
  <2>1. file_offset' \in Nat /\ mem_offset' \in Nat
    BY <1>11, EndSectionStep
  <2>2. next' \in Nat /\ k' \in Nat
    <3>1. next' = next + 1 /\ k' = 0
      BY <1>11 DEF EndSection
    <3>2. next \in Nat
      BY DEF TypeOK
    <3> QED
      BY <3>1, <3>2
  <2> QED
    BY <1>1, <1>11, <2>1, <2>2 DEF EndSection, rest, TypeOK
<1>12. CASE BeginPass
  <2>1. pass' \in Nat /\ at' \in [Groups -> Nat] /\ deleted' \in Int
    BY <1>12 DEF BeginPass, TypeOK
  <2> QED
    BY <1>1, <1>12, <2>1 DEF BeginPass, walk, TypeOK
<1>13. ASSUME NEW g \in Groups, NEW d \in 0 .. MaxDelete, RelaxSection(g, d)
       PROVE  TypeOK'
    BY <1>1, <1>13, RelaxType
<1>14. CASE EndPass
  <2>1. link.base \in Nat
    BY <1>2 DEF IsLink
  <2>2. CASE deleted = 0
    BY <1>1, <1>14, <2>2, BoundsAssumption DEF EndPass, walk, TypeOK
  <2>3. CASE deleted # 0
    <3>1. own_offsets' \in [Sections -> Nat]
      BY <1>14, <2>3 DEF EndPass
    <3> QED
      <4>1. /\ next' = 1 /\ k' = 0 /\ file_offset' = 0 /\ mem_offset' = link.base
            /\ pending_location' = NoLocation /\ start_file_offset' = 0 /\ parts' = {}
            /\ phase' = "layout" /\ UNCHANGED <<link, at, size, mem_sizes, total, pass, deleted>>
        BY <1>14, <2>3 DEF EndPass
      <4> QED
        BY <1>1, <2>1, <3>1, <4>1 DEF TypeOK
  <2> QED
    BY <2>2, <2>3
<1>15. CASE Finish
    BY <1>1, <1>15 DEF Finish, walk, TypeOK
<1>16. CASE Terminating \/ UNCHANGED vars
    BY <1>1, <1>16 DEF Terminating, vars, TypeOK
<1> QED
    BY <1>3, <1>4, <1>5, <1>6, <1>7, <1>8, <1>9, <1>10, <1>11, <1>12, <1>13, <1>14, <1>15, <1>16
    DEF Next

LEMMA InvInit ==
    ASSUME Init
    PROVE  IInv
BY TypeInit DEF Init, IInv, Behind, FileRangesDisjoint, MemoryRangesDisjoint

LEMMA InvStep ==
    ASSUME IInv, [Next]_vars
    PROVE  IInv'
<1>1. CASE LayoutPart
    BY <1>1, PartPreserves
<1>2. CASE ~LayoutPart
  <2>1. TypeOK'
    BY <1>2, TypeStep DEF IInv
  <2> SUFFICES Behind' /\ FileRangesDisjoint' /\ MemoryRangesDisjoint'
    BY <2>1 DEF IInv
  <2>2. file_offset \in Nat /\ mem_offset \in Nat
    BY DEF IInv, TypeOK
  <2>3. ~HasLocations /\ ~link.partial => pending_location = NoLocation
    BY DEF IInv, Behind
  <2>4. IsLink(link)
    BY LinkShape DEF IInv
  <2>5. CASE LayoutSetLocation
    <3>1. HasLocations
      <4>1. \E s \in Sections : link.infos[s].location = Event.arg /\ Event.arg \in Nat
        BY <2>4, <2>5 DEF LayoutSetLocation, AtEvent, Event, IsLink, Sections
      <4> QED
        BY <4>1 DEF HasLocations, NoLocation
    <3>2. /\ link' = link /\ parts' = parts /\ file_offset' = file_offset
          /\ mem_offset' = mem_offset
      BY <2>5 DEF LayoutSetLocation, rest
    <3> QED
      BY <2>2, <3>1, <3>2, OffsetsGrow
  <2>6. CASE LayoutSegmentStart
    <3>1. /\ file_offset' \in Nat /\ file_offset <= file_offset' /\ mem_offset' \in Nat
          /\ pending_location = NoLocation => mem_offset <= mem_offset' /\ pending_location' = NoLocation
      BY <2>6, SegmentStartStep DEF IInv
    <3>2. link' = link /\ parts' = parts
      BY <2>6 DEF LayoutSegmentStart, rest
    <3> QED
      BY <2>3, <3>1, <3>2, OffsetsGrow
  <2>7. CASE BeginSection
    <3>1. Event.arg \in Sections
      BY <2>4, <2>7 DEF BeginSection, AtEvent, Event, IsLink, Sections
    <3>2. ~HasLocations => mem_offset' = mem_offset
      BY <2>7, <3>1 DEF BeginSection, HasLocations
    <3>3. /\ link' = link /\ parts' = parts /\ file_offset' = file_offset
          /\ pending_location' = pending_location
      BY <2>7 DEF BeginSection, rest
    <3>4. mem_offset' \in Nat
      BY <2>1 DEF TypeOK
    <3> QED
      <4>1. file_offset' \in Nat /\ file_offset <= file_offset' /\ mem_offset \in Nat
        BY <2>2, <3>3 DEF IInv, TypeOK
      <4>2. ~HasLocations => mem_offset <= mem_offset'
        BY <3>2, <4>1
      <4> QED
        BY <2>2, <2>3, <3>3, <3>4, <4>1, <4>2, OffsetsGrow
  <2>8. CASE EndSection
    <3>1. /\ file_offset' \in Nat /\ file_offset <= file_offset'
          /\ mem_offset' \in Nat /\ mem_offset <= mem_offset'
      BY <2>8, EndSectionStep DEF IInv
    <3>2. link' = link /\ parts' = parts /\ pending_location' = pending_location
      BY <2>8 DEF EndSection, rest
    <3> QED
      BY <2>3, <3>1, <3>2, OffsetsGrow
  <2>9. CASE EndPass /\ deleted # 0
    <3>1. link' = link /\ parts' = {} /\ pending_location' = NoLocation
      BY <2>9 DEF EndPass
    <3> QED
      BY <3>1 DEF Behind, FileRangesDisjoint, MemoryRangesDisjoint
  <2>10. CASE link' = link /\ walk' = walk
    BY <2>10, WalkStays
  <2>11. ~LayoutSetLocation /\ ~LayoutSegmentStart /\ ~BeginSection /\ ~EndSection
           /\ ~(EndPass /\ deleted # 0) => link' = link /\ walk' = walk
    <3>1. ASSUME NEW g \in Groups, Allocate(g) \/ \E d \in 0 .. MaxDelete : RelaxSection(g, d)
          PROVE  link' = link /\ walk' = walk
      BY <3>1 DEF Allocate, RelaxSection
    <3>2. CASE Allocated \/ MergeGroup \/ AllocateHeaders \/ LayoutSegmentEnd
      BY <3>2 DEF Allocated, MergeGroup, AllocateHeaders, LayoutSegmentEnd, rest
    <3>3. CASE BeginPass \/ Finish \/ (EndPass /\ deleted = 0)
      BY <3>3 DEF BeginPass, Finish, EndPass
    <3>4. CASE Terminating \/ UNCHANGED vars
      BY <3>4 DEF Terminating, vars, walk
    <3> QED
      BY <1>2, <3>1, <3>2, <3>3, <3>4 DEF Next
  <2> QED
    BY <2>5, <2>6, <2>7, <2>8, <2>9, <2>10, <2>11
<1> QED
    BY <1>1, <1>2

LEMMA Invariance == Spec => []IInv
<1>1. Init => IInv
    BY InvInit
<1>2. IInv /\ [Next]_vars => IInv'
    BY InvStep
<1> QED
    BY <1>1, <1>2, PTL DEF Spec

-----------------------------------------------------------------------------
(* The theorems. *)

\* The state of the layout is well typed; in particular RELRO padding and the
\* sizes that relaxation leaves are never negative.
THEOREM TypeCorrect == Spec => []TypeOK
<1>1. IInv => TypeOK
    BY DEF IInv
<1> QED
    BY <1>1, Invariance, PTL

\* No two parts share a byte of the file, with any alignments, segments,
\* addresses, padding and relaxation: the slices that
\* split_output_into_sections cuts off never overlap.
THEOREM FileBytesHaveOneOwner == Spec => []FileRangesDisjoint
<1>1. IInv => FileRangesDisjoint
    BY DEF IInv
<1> QED
    BY <1>1, Invariance, PTL

\* No two allocated parts share an address when no section is given one.
THEOREM AddressesHaveOneOwner == Spec => []MemoryRangesDisjoint
<1>1. IInv => MemoryRangesDisjoint
    BY DEF IInv
<1> QED
    BY <1>1, Invariance, PTL
=============================================================================
