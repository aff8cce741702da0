----------------------- MODULE SymbolResolution_proof -----------------------
(***************************************************************************)
(* Archive selection, proved for any link: each file is loaded once, and   *)
(* the loaded files are the least set closed under what its files need,    *)
(* whatever the schedule of the jobs.                                      *)
(***************************************************************************)
EXTENDS SymbolResolution, FiniteSetTheorems, WellFoundedInduction, TLAPS

-----------------------------------------------------------------------------
(* The inductive invariant. *)

\* What the lookup of symbol i finds, by resolve_symbol or load_prelude.
Found(i) == IF Sym(i).kind = "force" THEN name_to_id(Sym(i).name, NoVersion)
            ELSE get(Sym(i).name, Sym(i).version, Sym(i).vis = "Default")

\* The file, if any, that symbol i makes the link load.
Asks(i) ==
    {g \in Files : /\ Found(i) # 0 /\ g = Sym(Found(i)).file
                   /\ \/ Sym(i).kind = "force"
                      \/ /\ Sym(i).kind = "undefined"
                         /\ ~(IsDynamic(Sym(i).file) /\ (Sym(i).vis = "Hidden" \/ IsDynamic(g)))}

EntryAsks ==
    {g \in Files : LET p == name_to_id(link.entry, NoVersion) IN p # 0 /\ g = Sym(p).file}

\* A file that is loaded, or that a job is about to load.
Wanted(g) == g \in taken \/ \E j \in jobs : j.want = g

\* Symbol i is still ahead of a job of its file.
Ahead(i) == \E j \in jobs : j.file = Sym(i).file /\ j.at <= i /\ i <= j.end

LoadedInv ==
    /\ link \in Links
    /\ taken \subseteq Files /\ {f \in Files : ~link.files[f].optional} \subseteq taken
    /\ loaded \in Seq(Files)
    /\ \A i, j \in DOMAIN loaded : loaded[i] = loaded[j] => i = j
    /\ \A f \in Files : f \in taken /\ IsObject(f) <=> \E i \in DOMAIN loaded : loaded[i] = f

JobInv ==
    \A j \in jobs :
        /\ j \in Job /\ j.file \in taken /\ j.want \in Files \cup {0}
        /\ j.at .. j.end \subseteq SymbolsOf(j.file)

\* Only references are undefined; one that was looked up has asked for its file.
DefsInv ==
    phase = "resolve" =>
        /\ defs \in [Indices -> Nat]
        /\ \A i \in Indices :
            IF defs[i] = 0 THEN ~Defined(i) /\ Sym(i).file # Prelude
            ELSE Sym(i).kind = "undefined" => \A g \in Asks(i) : Wanted(g)

\* A shared object is resolved from its first symbol on.
StartInv ==
    \A j \in jobs : IsDynamic(j.file) /\ Busy(j) => j.start = First(SymbolsOf(j.file)) /\ j.start <= j.at

\* Nothing is loaded that is not needed.
Sound ==
    \A F \in SUBSET Files :
        Closed(F) => taken \subseteq F /\ \A j \in jobs : j.want # 0 => j.want \in F

\* Nothing that is needed is forgotten.
Complete ==
    phase = "resolve" /\ ~errors =>
        /\ \A g \in EntryAsks : Wanted(g)
        /\ \A i \in Indices : Sym(i).file \in taken => Ahead(i) \/ \A g \in Asks(i) : Wanted(g)

\* What remains once the jobs are over.
Exact == /\ phase = "resolve" => result = "none"
         /\ phase \in {"alternatives", "canonicalise"} \/ result = "Ok" => Closed(taken)

\* No shared object has more symbols than a work item: otherwise versions are
\* read at the index within the chunk (version_name).
DynamicsFitOneChunk ==
    \A l \in Links : \A i, k \in DOMAIN l.syms :
        l.syms[i].file = l.syms[k].file /\ l.files[l.syms[i].file].kind = "dynamic"
            => k < i + ChunkSize

IInv == LoadedInv /\ JobInv /\ DefsInv /\ StartInv /\ Sound /\ Complete /\ Exact

-----------------------------------------------------------------------------
(* The operators. *)

\* A set of naturals that is not empty has a least member, and First is it.
LEMMA FirstIsLeast ==
    ASSUME NEW S \in SUBSET Nat, S # {}
    PROVE  First(S) \in S /\ \A i \in S : First(S) <= i
<1> DEFINE R == {ss \in Nat \X Nat : ss[1] < ss[2]}
<1>1. R = OpToRel(<, Nat)
  BY Zenon DEF OpToRel
<1>2. IsWellFoundedOn(R, Nat)
  BY <1>1, NatLessThanWellFounded, Zenon
<1>3. PICK m \in S : \A y \in S : ~(<<y, m>> \in R)
  <2> HIDE DEF R
  <2> QED
    BY <1>2, WFMin, Zenon
<1>4. ASSUME NEW y \in S PROVE m <= y
  <2>1. m \in Nat /\ y \in Nat
    OBVIOUS
  <2>2. <<y, m>> \in Nat \X Nat /\ <<y, m>>[1] = y /\ <<y, m>>[2] = m
    BY <2>1
  <2>3. ~(y < m)
    BY <1>3, <2>2
  <2> QED
    BY <2>1, <2>3
<1> QED
  BY <1>4 DEF First

\* The same for the greatest member of a bounded set.
LEMMA LastIsGreatest ==
    ASSUME NEW n \in Nat, NEW S \in SUBSET (1 .. n), S # {}
    PROVE  Last(S) \in S /\ \A i \in S : i <= Last(S)
<1> DEFINE T == {x \in Nat : n - x \in S}
<1>1. T \in SUBSET Nat /\ T # {}
  <2>1. PICK i \in S : TRUE
    OBVIOUS
  <2>2. n - i \in Nat /\ n - (n - i) = i
    BY <2>1
  <2> QED
    BY <2>1, <2>2
<1>2. First(T) \in T /\ \A x \in T : First(T) <= x
  <2> HIDE DEF T
  <2> QED
    BY <1>1, FirstIsLeast
<1>3. PICK m \in S : m = n - First(T)
  BY <1>2
<1>4. ASSUME NEW i \in S PROVE i <= m
  <2>1. i \in Nat /\ n - i \in Nat /\ n - (n - i) = i
    OBVIOUS
  <2>2. First(T) <= n - i
    BY <1>2, <2>1
  <2>3. First(T) \in Nat /\ m \in Nat
    BY <1>2, <1>3
  <2> QED
    BY <1>3, <2>1, <2>2, <2>3
<1> QED
  BY <1>4 DEF Last

\* Chunks: cutting from a on in pieces of c, i is in the piece that begins at i - (i - a) % c.
LEMMA PieceOf ==
    ASSUME NEW x \in Nat, NEW c \in Nat \ {0}
    PROVE  /\ (x % c) \in 0 .. c - 1 /\ (x % c) <= x
           /\ (x - (x % c)) % c = 0
<1>1. (x % c) \in 0 .. c - 1 /\ (x % c) <= x
  OBVIOUS
<1>2. x = c * (x \div c) + (x % c) /\ x \div c \in Nat
  OBVIOUS
<1>3. ASSUME NEW q \in Nat PROVE (c * q) % c = 0
  OBVIOUS
<1>4. x - (x % c) = c * (x \div c)
  BY <1>1, <1>2
<1> QED
  BY <1>1, <1>2, <1>3, <1>4

LEMMA SmallModulus ==
    ASSUME NEW c \in Nat \ {0}, NEW x \in 0 .. c - 1, x % c = 0
    PROVE  x = 0
OBVIOUS

\* The input of a link never changes, and with it what is computed from it alone.
LEMMA LinkFixed ==
    ASSUME link' = link
    PROVE  /\ Indices' = Indices /\ Files' = Files /\ EntryAsks' = EntryAsks
           /\ \A x : /\ Sym(x)' = Sym(x) /\ IsDynamic(x)' = IsDynamic(x) /\ IsObject(x)' = IsObject(x)
                     /\ SymbolsOf(x)' = SymbolsOf(x) /\ Defined(x)' = Defined(x) /\ Needs(x)' = Needs(x)
                     /\ Asks(x)' = Asks(x) /\ Closed(x)' = Closed(x)
<1>1. Indices' = Indices /\ Files' = Files
  BY DEF Indices, Files
<1>2. \A x : Sym(x)' = Sym(x) /\ IsDynamic(x)' = IsDynamic(x) /\ IsObject(x)' = IsObject(x)
  BY DEF Sym, IsDynamic, IsObject
<1>3. \A x : SymbolsOf(x)' = SymbolsOf(x) /\ Defined(x)' = Defined(x)
  BY <1>1, <1>2 DEF SymbolsOf, Defined
<1>4. \A n, v : Candidates(n, v)' = Candidates(n, v)
  BY <1>1, <1>2, <1>3 DEF Candidates
<1>5. \A n, v : name_to_id(n, v)' = name_to_id(n, v)
  BY <1>4 DEF name_to_id
<1>6. \A K : best(K)' = best(K)
  BY <1>2 DEF best
<1>7. \A p, n, v : get_non_dynamic(p, n, v)' = get_non_dynamic(p, n, v)
  BY <1>2, <1>4, <1>5, <1>6 DEF get_non_dynamic
<1>8. \A n, v, a : get(n, v, a)' = get(n, v, a)
  BY <1>2, <1>5, <1>7 DEF get
<1>9. \A x : Needs(x)' = Needs(x)
  BY <1>2, <1>3, <1>5, <1>8 DEF Needs, References
<1>10. \A x : Found(x)' = Found(x)
  BY <1>2, <1>5, <1>8 DEF Found
<1>11. EntryAsks' = EntryAsks /\ \A x : Asks(x)' = Asks(x)
  BY <1>1, <1>2, <1>5, <1>10 DEF EntryAsks, Asks
<1>12. \A x : Closed(x)' = Closed(x)
  BY <1>1, <1>9 DEF Closed
<1> QED
  BY <1>1, <1>2, <1>3, <1>9, <1>11, <1>12

\* What the assumptions on links say of the current one.
LEMMA LinkFacts ==
    ASSUME link \in Links
    PROVE  /\ Len(link.syms) \in Nat /\ Indices \subseteq Nat \ {0} /\ Files \subseteq Nat \ {0}
           /\ IsFiniteSet(Files) /\ IsFiniteSet(Indices)
           /\ Prelude \in Files /\ ~IsDynamic(Prelude) /\ ~IsObject(Prelude)
           /\ \A f \in Files : IsDynamic(f) => IsObject(f)
           /\ \A f \in Files : ~IsObject(f) => ~link.files[f].optional
           /\ \A i \in Indices :
                /\ Sym(i) \in Symbol /\ Sym(i).file \in Files
                /\ \A k \in Indices : i <= k => Sym(i).file <= Sym(k).file
                /\ Sym(i).kind \in {"force", "internal"} <=> ~IsObject(Sym(i).file)
                /\ Sym(i).kind = "force" => Sym(i).file = Prelude
<1>1. link.files \in Seq(File) /\ link.syms \in Seq(Symbol)
  BY ResolutionAssumption DEF Link
<1>2. /\ Len(link.syms) \in Nat /\ Len(link.files) \in Nat
      /\ Indices = DOMAIN link.syms /\ Files = DOMAIN link.files
  BY <1>1 DEF Indices, Files
<1>3. /\ Indices \subseteq Nat \ {0} /\ Files \subseteq Nat \ {0}
      /\ IsFiniteSet(Files) /\ IsFiniteSet(Indices)
  <2>1. 1 \in Int /\ Len(link.syms) \in Int /\ Len(link.files) \in Int
    BY <1>2
  <2>2. IsFiniteSet(1..Len(link.syms)) /\ IsFiniteSet(1..Len(link.files))
    BY <2>1, FS_Interval
  <2> QED
    BY <1>2, <2>2 DEF Indices, Files
<1>4. \A i \in Indices : Sym(i) \in Symbol /\ Sym(i) = link.syms[i]
  BY <1>1, <1>2 DEF Sym
<1>5. Prelude \in Files /\ link.files[Prelude].kind = "prelude"
  <2>1. link.files # << >> /\ link.files[Prelude].kind = "prelude"
    BY LinkAssumption
  <2>2. Len(link.files) >= 1
    BY <1>1, <2>1
  <2> QED
    BY <1>2, <2>1, <2>2 DEF Files, Prelude
<1>6. \A f \in Files : /\ link.files[f] \in File /\ (link.files[f].kind = "prelude" => f = Prelude)
                       /\ (link.files[f].optional => link.files[f].kind \in {"object", "dynamic"})
  BY <1>1, <1>2, LinkAssumption
<1>7. \A i \in Indices :
        /\ Sym(i).file \in Files
        /\ \A k \in Indices : i <= k => Sym(i).file <= Sym(k).file
        /\ Sym(i).kind \in {"force", "internal"} <=> link.files[Sym(i).file].kind \in {"prelude", "script"}
        /\ Sym(i).kind = "force" => Sym(i).file = Prelude
  BY <1>2, <1>4, LinkAssumption
<1>8. \A f \in Files : /\ link.files[f].kind \in {"prelude", "script"} <=> ~IsObject(f)
                       /\ IsDynamic(f) => IsObject(f)
                       /\ ~IsObject(f) => ~link.files[f].optional
  BY <1>6 DEF IsObject, IsDynamic, File
<1>9. ~IsDynamic(Prelude) /\ ~IsObject(Prelude)
  BY <1>5 DEF IsObject, IsDynamic
<1> QED
  BY <1>2, <1>3, <1>4, <1>5, <1>7, <1>8, <1>9

\* A lookup finds a symbol of the link, or nothing.
LEMMA LookupInRange ==
    ASSUME link \in Links
    PROVE  /\ \A n, v : name_to_id(n, v) \in Indices \cup {0}
           /\ \A n, v, a : get(n, v, a) \in Indices \cup {0}
           /\ \A i : Found(i) \in Indices \cup {0}
<1>0. Indices \subseteq Nat
  BY LinkFacts
<1>1. \A n, v : name_to_id(n, v) \in Indices \cup {0}
  <2>1. \A n, v : Candidates(n, v) \subseteq Indices
    BY DEF Candidates
  <2> QED
    BY <1>0, <2>1, FirstIsLeast DEF name_to_id
<1>2. ASSUME NEW K \in SUBSET Indices PROVE best(K) \in Indices \cup {0}
  <2>1. \A S \in SUBSET K : S # {} => First(S) \in Indices
    BY <1>0, FirstIsLeast
  <2> DEFINE Of(kinds) == {i \in K : Sym(i).kind \in kinds}
             largest == {i \in Of({"Common"}) : \A j \in Of({"Common"}) : Sym(j).size <= Sym(i).size}
  <2>2. largest \in SUBSET K /\ \A kinds : Of(kinds) \in SUBSET K
    OBVIOUS
  <2>3. best(K) = CASE Of({"Strong"}) # {} -> First(Of({"Strong"}))
          [] Of({"Strong"}) = {} /\ largest # {} -> First(largest)
          [] Of({"Strong", "Common"}) = {} /\ Of({"Weak", "GnuUnique"}) # {} ->
                First(Of({"Weak", "GnuUnique"}))
          [] OTHER -> 0
    BY DEF best
  <2> HIDE DEF Of, largest
  <2> QED
    BY <2>1, <2>2, <2>3
<1>3. \A p, n, v : get_non_dynamic(p, n, v) \in Indices \cup {0}
  <2>1. \A p, n, v : {i \in Candidates(n, v) \ {p} : ~IsDynamic(Sym(i).file)} \in SUBSET Indices
    BY DEF Candidates
  <2> QED
    BY <1>2, <2>1 DEF get_non_dynamic
<1>4. \A n, v, a : get(n, v, a) \in Indices \cup {0}
  BY <1>1, <1>3 DEF get
<1> QED
  BY <1>1, <1>4 DEF Found

\* The files a file needs are those its symbols ask for, and the entry point's.
LEMMA NeedsAreAsked ==
    ASSUME link \in Links, NEW f \in Files, NEW g
    PROVE  g \in Needs(f) <=> \/ \E i \in SymbolsOf(f) : g \in Asks(i)
                              \/ f = Prelude /\ g \in EntryAsks
<1> DEFINE strong == {i \in References(f) : Sym(i).kind = "undefined"}
           forced == {h \in SymbolsOf(f) : Sym(h).kind = "force"}
           force == {name_to_id(n, NoVersion) : n \in {Sym(i).name : i \in forced}
                                                         \cup (IF f = Prelude THEN {link.entry} ELSE {})}
           found == force \cup {get(Sym(i).name, Sym(i).version, Sym(i).vis = "Default") : i \in strong}
           entry == name_to_id(link.entry, NoVersion)
<1>1. Needs(f) = {x \in {Sym(d).file : d \in found \ {0}} : ~(IsDynamic(f) /\ IsDynamic(x))}
  BY DEF Needs
<1>2. \A i \in SymbolsOf(f) : i \in Indices /\ Sym(i).file = f
  BY DEF SymbolsOf
<1>3. \A d : d \in found <=> \/ \E i \in forced : d = Found(i)
                             \/ f = Prelude /\ d = entry
                             \/ \E i \in strong : d = Found(i)
  <2>1. \A i \in forced : Found(i) = name_to_id(Sym(i).name, NoVersion)
    BY DEF Found
  <2>2. \A i \in strong : Found(i) = get(Sym(i).name, Sym(i).version, Sym(i).vis = "Default")
    BY DEF Found
  <2>3. \A d : d \in force <=> (\E i \in forced : d = Found(i)) \/ (f = Prelude /\ d = entry)
    <3> HIDE DEF forced
    <3> QED
      BY <2>1
  <2> HIDE DEF forced, strong, force
  <2> QED
    BY <2>2, <2>3
<1>4. \A d \in found \ {0} : Sym(d).file \in Files
  BY <1>3, LookupInRange, LinkFacts
<1>5. \A i \in forced : ~IsDynamic(f) /\ f = Prelude
  BY <1>2, LinkFacts
<1>6. f = Prelude => ~IsDynamic(f)
  BY LinkFacts
<1>7. \A i \in SymbolsOf(f) : g \in Asks(i) <=>
        /\ g \in Files /\ Found(i) # 0 /\ g = Sym(Found(i)).file
        /\ i \in forced \/ (i \in strong /\ ~(IsDynamic(f) /\ IsDynamic(g)))
  BY <1>2 DEF Asks, References
<1>8. g \in EntryAsks <=> g \in Files /\ entry # 0 /\ g = Sym(entry).file
  BY DEF EntryAsks
<1>9. forced \subseteq SymbolsOf(f) /\ strong \subseteq SymbolsOf(f)
  BY DEF References
<1> HIDE DEF strong, forced, force, found, entry
<1> QED
  BY <1>1, <1>3, <1>4, <1>5, <1>6, <1>7, <1>8, <1>9

\* The symbols of a file are consecutive.
LEMMA Consecutive ==
    ASSUME link \in Links, NEW f \in Files, NEW a \in SymbolsOf(f), NEW c \in SymbolsOf(f)
    PROVE  a .. c \subseteq SymbolsOf(f)
<1> SUFFICES ASSUME NEW i \in a .. c PROVE i \in SymbolsOf(f)
  OBVIOUS
<1>1. /\ a \in Indices /\ c \in Indices /\ Sym(a).file = f /\ Sym(c).file = f
  BY DEF SymbolsOf
<1>2. i \in Indices /\ a <= i /\ i <= c
  BY <1>1 DEF Indices
<1>3. Sym(a).file <= Sym(i).file /\ Sym(i).file <= Sym(c).file
  BY <1>1, <1>2, LinkFacts
<1>4. Sym(i).file \in Nat /\ f \in Nat
  BY <1>2, LinkFacts
<1>5. Sym(i).file = f
  BY <1>1, <1>3, <1>4
<1> QED
  BY <1>2, <1>5 DEF SymbolsOf

\* The work items of a file cover its symbols and nothing else.
LEMMA WorkItems ==
    ASSUME link \in Links, NEW f \in Files, NEW want \in Nat
    PROVE  /\ \A w \in work_items(f, want) :
                /\ w \in Job /\ w.file = f /\ w.want = want /\ w.at = w.start
                /\ w.at .. w.end \subseteq SymbolsOf(f)
           /\ work_items(f, want) # {}
           /\ \A i \in SymbolsOf(f) : \E w \in work_items(f, want) : w.at <= i /\ i <= w.end
           /\ DynamicsFitOneChunk /\ IsDynamic(f) =>
                \A w \in work_items(f, want) : Busy(w) => w.start = First(SymbolsOf(f))
<1> DEFINE S == SymbolsOf(f)
           chunk == IF IsObject(f) THEN ChunkSize ELSE Cardinality(S)
           Starts == {b \in S : (b - First(S)) % chunk = 0}
           End(a) == IF a + chunk - 1 > Last(S) THEN Last(S) ELSE a + chunk - 1
           Item(a) == [file |-> f, start |-> a, at |-> a, end |-> End(a), want |-> want]
<1>0. f \in Nat /\ S \subseteq Indices /\ Indices \subseteq Nat /\ IsFiniteSet(S)
  <2>1. S \subseteq Indices
    BY DEF SymbolsOf
  <2> QED
    BY <2>1, LinkFacts, FS_Subset
<1>1. CASE S = {}
  <2>1. work_items(f, want) = {[file |-> f, start |-> 1, at |-> 1, end |-> 0, want |-> want]}
    BY <1>1 DEF work_items
  <2> QED
    BY <1>0, <1>1, <2>1 DEF Job, Busy
<1>2. CASE S # {}
  <2>1. work_items(f, want) = {Item(a) : a \in Starts}
    <3>1. work_items(f, want) =
            {[[file |-> f, start |-> a, at |-> a, end |-> a + chunk - 1, want |-> want]
                 EXCEPT !.end = IF @ > Last(S) THEN Last(S) ELSE @] : a \in Starts}
      BY <1>2 DEF work_items
    <3>2. ASSUME NEW a
          PROVE  [[file |-> f, start |-> a, at |-> a, end |-> a + chunk - 1, want |-> want]
                    EXCEPT !.end = IF @ > Last(S) THEN Last(S) ELSE @] = Item(a)
      <4> HIDE DEF chunk, S
      <4> QED
        OBVIOUS
    <3> HIDE DEF S, chunk, Starts, Item
    <3> QED
      BY <3>1, <3>2
  <2>2. /\ First(S) \in S /\ First(S) \in Nat /\ \A i \in S : First(S) <= i
        /\ Last(S) \in S /\ Last(S) \in Nat /\ \A i \in S : i <= Last(S)
    <3>1. S \in SUBSET (1 .. Len(link.syms)) /\ Len(link.syms) \in Nat
      BY <1>0, LinkFacts DEF Indices
    <3> HIDE DEF S
    <3> QED
      BY <1>0, <1>2, <3>1, FirstIsLeast, LastIsGreatest
  <2>3. chunk \in Nat \ {0}
    <3>1. Cardinality(S) \in Nat /\ Cardinality(S) # 0
      BY <1>0, <1>2, FS_CardinalityType, FS_EmptySet
    <3> QED
      BY <3>1, ResolutionAssumption
  <2>4. \A a \in S : a \in Nat /\ a .. Last(S) \subseteq S
    BY <1>0, <2>2, Consecutive
  <2>5. \A a \in S : End(a) \in Nat /\ End(a) <= Last(S)
    <3> HIDE DEF chunk, S
    <3> QED
      BY <2>2, <2>3, <2>4
  <2>6. \A a \in Starts : a \in S /\ Item(a) \in Job /\ Item(a).at .. Item(a).end \subseteq S
    <3>1. \A a \in S : a .. End(a) \subseteq a .. Last(S)
      <4> HIDE DEF S, End
      <4> QED
        BY <2>2, <2>4, <2>5
    <3>2. \A a \in S : Item(a) \in Job
      <4> HIDE DEF S, End
      <4> QED
        BY <1>0, <2>4, <2>5 DEF Job
    <3>3. \A a \in Starts : a \in S
      OBVIOUS
    <3> HIDE DEF S, End, Starts
    <3> QED
      BY <2>4, <3>1, <3>2, <3>3
  <2>7. ASSUME NEW i \in S PROVE \E a \in Starts : a <= i /\ i <= End(a)
    <3> DEFINE x == i - First(S)
               m == x % chunk
               a == i - m
    <3>1. x \in Nat /\ i \in Nat /\ x = i - First(S)
      <4>1. i \in Nat /\ First(S) \in Nat /\ First(S) <= i
        BY <1>0, <2>2
      <4> HIDE DEF S
      <4> QED
        BY <4>1
    <3>2. m \in 0 .. chunk - 1 /\ m <= x /\ (x - m) % chunk = 0
      <4> HIDE DEF x, chunk
      <4> QED
        BY <2>3, <3>1, PieceOf
    <3> HIDE DEF x, m, S, chunk
    <3>3. a \in Nat /\ a - First(S) = x - m /\ First(S) <= a /\ a <= i /\ i <= a + chunk - 1
      BY <2>2, <2>3, <3>1, <3>2
    <3>4. a \in S
      BY <2>2, <2>4, <3>1, <3>3
    <3>5. i <= End(a)
      BY <2>2, <3>3
    <3> QED
      BY <3>2, <3>3, <3>4, <3>5
  <2>8. DynamicsFitOneChunk /\ IsDynamic(f) => \A a \in Starts : a = First(S)
    <3> SUFFICES ASSUME DynamicsFitOneChunk, IsDynamic(f), NEW a \in Starts PROVE a = First(S)
      OBVIOUS
    <3>1. a \in S /\ a \in Indices /\ First(S) \in Indices /\ (a - First(S)) % chunk = 0
      <4>1. a \in S /\ (a - First(S)) % chunk = 0
        OBVIOUS
      <4> HIDE DEF S, chunk
      <4> QED
        BY <1>0, <2>2, <4>1
    <3>2. chunk = ChunkSize
      BY LinkFacts
    <3>3. Sym(a).file = f /\ Sym(First(S)).file = f /\ link.files[f].kind = "dynamic"
      BY <2>2, <3>1 DEF SymbolsOf, IsDynamic
    <3>4. a < First(S) + ChunkSize
      <4>1. Indices = DOMAIN link.syms
        BY ResolutionAssumption DEF Link, Indices
      <4> QED
        BY <3>1, <3>3, <4>1 DEF DynamicsFitOneChunk, Sym
    <3>5. a - First(S) \in 0 .. ChunkSize - 1
      <4> HIDE DEF S
      <4> QED
        BY <2>2, <2>3, <2>4, <3>1, <3>2, <3>4
    <3>6. a - First(S) = 0
      BY <2>3, <3>1, <3>2, <3>5, SmallModulus
    <3> QED
      BY <1>0, <2>2, <3>1, <3>6
  <2> HIDE DEF S, chunk, Starts, End
  <2>9. \A w \in work_items(f, want) : \E a \in Starts : w = Item(a)
    BY <2>1
  <2>10. \A a \in Starts : Item(a) \in work_items(f, want)
    BY <2>1
  <2>11. \A a : /\ Item(a).file = f /\ Item(a).want = want /\ Item(a).at = a /\ Item(a).start = a
                /\ Item(a).end = End(a)
    OBVIOUS
  <2> HIDE DEF Item
  <2>12. \A i \in S : \E w \in work_items(f, want) : w.at <= i /\ i <= w.end
    BY <2>7, <2>10, <2>11
  <2>13. \A w \in work_items(f, want) : /\ w \in Job /\ w.file = f /\ w.want = want /\ w.at = w.start
                                        /\ w.at .. w.end \subseteq S
    BY <2>6, <2>9, <2>11
  <2>14. DynamicsFitOneChunk /\ IsDynamic(f) => \A w \in work_items(f, want) : w.start = First(S)
    BY <2>8, <2>9, <2>11
  <2>15. work_items(f, want) # {}
    BY <1>2, <2>12
  <2> QED
    BY <2>12, <2>13, <2>14, <2>15 DEF S
<1> QED
  BY <1>1, <1>2

-----------------------------------------------------------------------------
(* Each file is loaded once. *)

\* A job moves on from symbol j.at, having asked for file w or, for w = 0, none.
Scan(j, w) ==
    /\ phase = "resolve" /\ j.want = 0 /\ Busy(j) /\ w \in Files \cup {0}
    /\ jobs' = (jobs \ {j}) \cup {[j EXCEPT !.at = @ + 1, !.want = w]}
    /\ UNCHANGED <<link, taken, loaded, errors, phase, result>>

LEMMA MovedJob ==
    ASSUME NEW j \in Job, j.at + 1 \in Nat, NEW w \in Nat
    PROVE  LET k == [j EXCEPT !.at = @ + 1, !.want = w]
           IN  k \in Job /\ k.file = j.file /\ k.want = w /\ k.at = j.at + 1 /\ k.end = j.end /\ k.start = j.start
<1> DEFINE k == [j EXCEPT !.at = @ + 1, !.want = w]
<1>1. j.file \in Nat /\ j.start \in Nat /\ j.at \in Nat /\ j.end \in Nat /\ j.want \in Nat
  BY DEF Job
<1>2. k.file = j.file /\ k.want = w /\ k.at = j.at + 1 /\ k.end = j.end /\ k.start = j.start
  BY DEF Job
<1>3. k \in Job
  BY DEF Job
<1> QED
  BY <1>2, <1>3

LEMMA InitLoaded == Init => LoadedInv /\ JobInv
<1> SUFFICES ASSUME Init PROVE LoadedInv /\ JobInv
  OBVIOUS
<1> DEFINE T == {f \in taken : IsObject(f)}
           n == Cardinality(T)
<1>1. link \in Links /\ taken = {f \in Files : ~link.files[f].optional}
  BY DEF Init
<1>2. taken \subseteq Files /\ IsFiniteSet(T) /\ n \in Nat
  <2>1. T \in SUBSET Files /\ IsFiniteSet(Files)
    BY <1>1, LinkFacts
  <2>2. IsFiniteSet(T)
    BY <2>1, FS_Subset
  <2> QED
    BY <1>1, <2>2, FS_CardinalityType
<1>3. loaded \in [1 .. n -> taken] /\ \A i, j \in DOMAIN loaded : IsObject(loaded[i]) /\ (i < j => loaded[i] < loaded[j])
  BY DEF Init
<1>4. \A i, j \in 1 .. n : loaded[i] = loaded[j] => i = j
  <2>1. \A i \in 1 .. n : loaded[i] \in Nat
    BY <1>1, <1>2, <1>3, LinkFacts
  <2> SUFFICES ASSUME NEW i \in 1 .. n, NEW j \in 1 .. n, loaded[i] = loaded[j] PROVE i = j
    OBVIOUS
  <2>2. ~(loaded[i] < loaded[j]) /\ ~(loaded[j] < loaded[i])
    BY <2>1
  <2>3. ~(i < j) /\ ~(j < i)
    BY <1>3, <2>2
  <2>4. i \in Nat /\ j \in Nat
    BY <1>2
  <2> QED
    BY <2>3, <2>4
<1>5. \A f \in T : \E i \in 1 .. n : loaded[i] = f
  <2> HIDE DEF n
  <2>1. loaded \in [1 .. n -> T]
    BY <1>3
  <2> HIDE DEF T
  <2>2. loaded \in Injection(1 .. n, T)
    BY <1>4, <2>1 DEF Injection, IsInjective
  <2>3. Cardinality(1 .. n) = n
    BY <1>2, FS_Interval
  <2>4. loaded \in Surjection(1 .. n, T)
    BY <1>2, <2>2, <2>3, FS_Injection DEF n
  <2> QED
    BY <2>4 DEF Surjection
<1>6. LoadedInv
  <2>1. loaded \in Seq(Files) /\ DOMAIN loaded = 1 .. n
    BY <1>2, <1>3
  <2>2. \A f \in Files : f \in taken /\ IsObject(f) <=> \E i \in DOMAIN loaded : loaded[i] = f
    BY <1>3, <1>5, <2>1
  <2> HIDE DEF n, T
  <2> QED
    BY <1>1, <1>2, <1>4, <2>1, <2>2 DEF LoadedInv
<1>7. JobInv
  <2> DEFINE e == name_to_id(link.entry, NoVersion)
             w == IF e = 0 THEN 0 ELSE Sym(e).file
  <2>1. jobs = work_items(Prelude, w) \cup UNION {work_items(f, 0) : f \in {h \in taken : IsObject(h)}}
    BY DEF Init
  <2>2. w \in Files \cup {0} /\ Files \subseteq Nat /\ Prelude \in Files
    BY <1>1, LinkFacts, LookupInRange
  <2>3. Prelude \in taken
    BY <1>1, LinkFacts
  <2> HIDE DEF w
  <2>4. \A j \in work_items(Prelude, w) : /\ j \in Job /\ j.file \in taken /\ j.want \in Files \cup {0}
                                          /\ j.at .. j.end \subseteq SymbolsOf(j.file)
    BY <1>1, <2>2, <2>3, WorkItems
  <2>5. \A f \in taken : \A j \in work_items(f, 0) : /\ j \in Job /\ j.file \in taken /\ j.want \in Files \cup {0}
                                                     /\ j.at .. j.end \subseteq SymbolsOf(j.file)
    BY <1>1, <1>2, WorkItems
  <2> QED
    BY <2>1, <2>4, <2>5 DEF JobInv
<1> QED
  BY <1>6, <1>7

\* The three ways of going past a symbol.
LEMMA JobScans ==
    ASSUME LoadedInv, JobInv, NEW j \in jobs, SkipSymbol(j) \/ ForceUndefined(j) \/ ResolveSymbol(j)
    PROVE  \E w : Scan(j, w)
<1>1. link \in Links /\ taken \subseteq Files
  BY DEF LoadedInv
<1>2. \A d \in Indices : Request(Sym(d).file) \in Files \cup {0}
  BY <1>1, LinkFacts DEF Request
<1>3. CASE SkipSymbol(j)
  BY <1>3 DEF SkipSymbol, Scan, Runs, Advance
<1>4. CASE ForceUndefined(j)
  <2> DEFINE p == name_to_id(Sym(j.at).name, NoVersion)
             w == IF p = 0 THEN 0 ELSE Request(Sym(p).file)
  <2>1. w \in Files \cup {0}
    BY <1>1, <1>2, LookupInRange
  <2>2. Runs(j) /\ Advance(j, w) /\ UNCHANGED <<link, taken, loaded, errors, phase, result>>
    BY <1>4 DEF ForceUndefined
  <2> HIDE DEF w
  <2> QED
    BY <2>1, <2>2 DEF Scan, Runs, Advance
<1>5. CASE ResolveSymbol(j)
  <2> DEFINE s == Sym(j.at)
             d == get(s.name, version_name(j), s.vis = "Default")
             other == d # 0 /\ Sym(d).file # j.file /\ s.kind # "weakref"
             w == IF other /\ ~(IsDynamic(j.file) /\ IsDynamic(Sym(d).file)) THEN Request(Sym(d).file) ELSE 0
  <2>1. w \in Files \cup {0}
    <3>1. d \in Indices \cup {0}
      BY <1>1, LookupInRange
    <3> HIDE DEF d
    <3> QED
      BY <1>2, <3>1
  <2>2. Runs(j) /\ Advance(j, w) /\ UNCHANGED <<link, taken, loaded, errors, phase, result>>
    BY <1>5 DEF ResolveSymbol
  <2> HIDE DEF w
  <2> QED
    BY <2>1, <2>2 DEF Scan, Runs, Advance
<1> QED
  BY <1>3, <1>4, <1>5

LEMMA LoadedStep ==
    ASSUME LoadedInv, JobInv, [Next]_vars
    PROVE  LoadedInv' /\ JobInv'
<1>0. link \in Links /\ taken \subseteq Files /\ Files \subseteq Nat \ {0}
  BY LinkFacts DEF LoadedInv
<1>1. ASSUME UNCHANGED <<link, taken, loaded>> PROVE LoadedInv'
  BY <1>1, LinkFixed DEF LoadedInv
<1>2. ASSUME NEW j \in jobs, NEW w, Scan(j, w) PROVE LoadedInv' /\ JobInv'
  <2> DEFINE k == [j EXCEPT !.at = @ + 1, !.want = w]
  <2>1. UNCHANGED <<link, taken, loaded>> /\ jobs' = (jobs \ {j}) \cup {k} /\ w \in Files \cup {0}
    BY <1>2 DEF Scan
  <2>2. j \in Job /\ j.file \in taken /\ j.at .. j.end \subseteq SymbolsOf(j.file)
    BY DEF JobInv
  <2>3. k \in Job /\ k.file = j.file /\ k.want = w /\ k.at = j.at + 1 /\ k.end = j.end
    <3>1. w \in Nat /\ j.at + 1 \in Nat
      BY <1>0, <2>1, <2>2 DEF Job
    <3> QED
      BY <2>2, <3>1, MovedJob
  <2>4. k.at .. k.end \subseteq SymbolsOf(k.file)
    <3>1. j.at \in Nat /\ j.end \in Nat
      BY <2>2 DEF Job
    <3>2. j.at + 1 .. j.end \subseteq j.at .. j.end
      BY <3>1
    <3> QED
      BY <2>2, <2>3, <3>2
  <2> HIDE DEF k
  <2>5. JobInv'
    BY <2>1, <2>2, <2>3, <2>4, LinkFixed DEF JobInv
  <2> QED
    BY <1>1, <2>1, <2>5
<1>3. ASSUME NEW j \in jobs, TakeFile(j) PROVE LoadedInv' /\ JobInv'
  <2> DEFINE k == [j EXCEPT !.want = 0]
  <2>1. j \in Job /\ j.file \in taken /\ j.at .. j.end \subseteq SymbolsOf(j.file) /\ j.want \in Files
    BY <1>3 DEF JobInv, TakeFile
  <2>2. k \in Job /\ k.file = j.file /\ k.want = 0 /\ k.at = j.at /\ k.end = j.end
    BY <2>1 DEF Job
  <2>3. link' = link
    BY <1>3 DEF TakeFile
  <2>4. CASE j.want \in taken
    <3>1. jobs' = (jobs \ {j}) \cup {k} /\ UNCHANGED <<taken, loaded>>
      BY <1>3, <2>4 DEF TakeFile, Takes
    <3> HIDE DEF k
    <3>2. JobInv'
      BY <2>1, <2>2, <2>3, <3>1, LinkFixed DEF JobInv
    <3> QED
      BY <1>1, <2>3, <3>1, <3>2
  <2>5. CASE j.want \notin taken
    <3>1. /\ taken' = taken \cup {j.want} /\ loaded' = Append(loaded, j.want)
          /\ jobs' = (jobs \ {j}) \cup {k} \cup work_items(j.want, 0)
      BY <1>3, <2>5 DEF TakeFile, Takes
    <3> HIDE DEF k
    <3>2. \A x \in work_items(j.want, 0) : /\ x \in Job /\ x.file = j.want /\ x.want = 0
                                           /\ x.at .. x.end \subseteq SymbolsOf(x.file)
      <4>1. link \in Links /\ j.want \in Files /\ 0 \in Nat
        BY <1>0, <2>1
      <4>2. \A f \in Files : \A x \in work_items(f, 0) : /\ x \in Job /\ x.file = f /\ x.want = 0
                                                         /\ x.at .. x.end \subseteq SymbolsOf(f)
        BY <4>1, WorkItems
      <4> QED
        BY <4>1, <4>2
    <3>3. JobInv'
      <4> SUFFICES ASSUME NEW x \in jobs'
                   PROVE  /\ x \in Job /\ x.file \in taken' /\ x.want \in Files \cup {0}
                          /\ x.at .. x.end \subseteq SymbolsOf(x.file)
        BY <2>3, LinkFixed DEF JobInv
      <4>1. CASE x \in jobs
        BY <3>1, <4>1 DEF JobInv
      <4>2. CASE x = k
        BY <2>1, <2>2, <3>1, <4>2
      <4>3. CASE x \in work_items(j.want, 0)
        BY <3>1, <3>2, <4>3
      <4> QED
        BY <3>1, <4>1, <4>2, <4>3
    <3>4. IsObject(j.want)
      BY <1>0, <2>1, <2>5, LinkFacts DEF LoadedInv
    <3>5. loaded \in Seq(Files)
      BY DEF LoadedInv
    <3>6. /\ loaded' \in Seq(Files) /\ Len(loaded) \in Nat /\ DOMAIN loaded = 1 .. Len(loaded)
          /\ DOMAIN loaded' = 1 .. Len(loaded) + 1 /\ loaded'[Len(loaded) + 1] = j.want
          /\ \A i \in DOMAIN loaded : i \in DOMAIN loaded' /\ loaded'[i] = loaded[i]
      BY <2>1, <3>1, <3>5
    <3>7. \A i \in DOMAIN loaded' : i \in DOMAIN loaded \/ i = Len(loaded) + 1
      BY <3>6
    <3>8. \A i \in DOMAIN loaded : loaded[i] \in taken
      BY <3>5 DEF LoadedInv
    <3>9. \A h, i \in DOMAIN loaded' : loaded'[h] = loaded'[i] => h = i
      BY <2>5, <3>6, <3>7, <3>8 DEF LoadedInv
    <3>10. \A f \in Files : f \in taken' /\ IsObject(f) <=> \E i \in DOMAIN loaded' : loaded'[i] = f
      <4> SUFFICES ASSUME NEW f \in Files
                   PROVE  f \in taken' /\ IsObject(f) <=> \E i \in DOMAIN loaded' : loaded'[i] = f
        OBVIOUS
      <4>1. f \in taken /\ IsObject(f) <=> \E i \in DOMAIN loaded : loaded[i] = f
        BY DEF LoadedInv
      <4>2. Len(loaded) + 1 \in DOMAIN loaded'
        BY <3>6
      <4>3. (\E i \in DOMAIN loaded' : loaded'[i] = f) <=> f = j.want \/ \E i \in DOMAIN loaded : loaded[i] = f
        BY <3>6, <3>7, <4>2
      <4> QED
        BY <3>1, <3>4, <4>1, <4>3
    <3>11. taken' \subseteq Files /\ {f \in Files : ~link.files[f].optional} \subseteq taken'
      BY <2>1, <3>1 DEF LoadedInv
    <3>12. LoadedInv'
      BY <1>0, <2>3, <3>6, <3>9, <3>10, <3>11, LinkFixed DEF LoadedInv
    <3> QED
      BY <3>3, <3>12
  <2> QED
    BY <2>4, <2>5
<1>4. ASSUME NEW j \in jobs, SymbolFails(j) PROVE LoadedInv' /\ JobInv'
  <2>1. UNCHANGED <<link, taken, loaded>> /\ jobs' \subseteq jobs
    BY <1>4 DEF SymbolFails
  <2>2. JobInv'
    BY <2>1, LinkFixed DEF JobInv
  <2> QED
    BY <1>1, <2>1, <2>2
<1>5. ASSUME UNCHANGED <<link, taken, loaded, jobs>> PROVE LoadedInv' /\ JobInv'
  <2>1. JobInv'
    BY <1>5, LinkFixed DEF JobInv
  <2> QED
    BY <1>1, <1>5, <2>1
<1>6. ASSUME NEW b \in Buckets, ProcessAlternatives(b) \/ UpdateDefinition(b) PROVE UNCHANGED <<link, taken, loaded, jobs>>
  BY <1>6 DEF ProcessAlternatives, UpdateDefinition
<1>7. CASE FinishResolve \/ FinishAlternatives \/ Canonicalise \/ FinishCanonicalise \/ Returned \/ UNCHANGED vars
  BY <1>5, <1>7 DEF FinishResolve, FinishAlternatives, Canonicalise, FinishCanonicalise, Returned, vars
<1> QED
  BY <1>2, <1>3, <1>4, <1>5, <1>6, <1>7, JobScans DEF Next

LEMMA LoadedAlways == Spec => [](LoadedInv /\ JobInv)
BY InitLoaded, LoadedStep, PTL DEF Spec

\* Each file is loaded once, whatever the number of jobs that request it between
\* the test of is_taken and take, and the queue of loaded files never overflows.
THEOREM EachFileLoadedOnce == Spec => []LoadedOnce
<1>1. ASSUME LoadedInv PROVE LoadedOnce
  <2> DEFINE T == {f \in Files : IsObject(f)}
             n == Len(loaded)
  <2>1. loaded \in Seq(Files) /\ n \in Nat /\ DOMAIN loaded = 1 .. n /\ link \in Links
    BY <1>1 DEF LoadedInv
  <2>2. \A i, j \in DOMAIN loaded : loaded[i] = loaded[j] => i = j
    BY <1>1 DEF LoadedInv
  <2>3. \A i \in 1 .. n : loaded[i] \in T
    BY <1>1, <2>1 DEF LoadedInv
  <2>4. IsFiniteSet(T)
    <3>1. T \in SUBSET Files /\ IsFiniteSet(Files)
      BY <2>1, LinkFacts
    <3> QED
      BY <3>1, FS_Subset
  <2>5. loaded \in [1 .. n -> T]
    BY <2>1, <2>3
  <2>6. Cardinality(1 .. n) = n
    BY <2>1, FS_Interval
  <2> HIDE DEF T, n
  <2>7. loaded \in Injection(1 .. n, T)
    BY <2>1, <2>2, <2>5 DEF Injection, IsInjective
  <2>8. Cardinality(1 .. n) <= Cardinality(T)
    BY <2>4, <2>7, FS_Injection
  <2> QED
    BY <2>2, <2>6, <2>8 DEF LoadedOnce, T, n
<1> QED
  BY <1>1, LoadedAlways, PTL

-----------------------------------------------------------------------------
(* The loaded files are exactly those that are needed. *)

\* A closed set that has a file has what its symbols ask for.
LEMMA ClosedHasAsked ==
    ASSUME link \in Links, NEW F \in SUBSET Files, Closed(F)
    PROVE  /\ EntryAsks \subseteq F
           /\ \A i \in Indices : Sym(i).file \in F => Asks(i) \subseteq F
<1>1. \A f \in Files : (~link.files[f].optional => f \in F) /\ (f \in F => Needs(f) \subseteq F)
  BY DEF Closed
<1>2. Prelude \in Files /\ Prelude \in F
  BY <1>1, LinkFacts
<1>3. EntryAsks \subseteq Needs(Prelude)
  BY <1>2, NeedsAreAsked
<1>4. ASSUME NEW i \in Indices, Sym(i).file \in F PROVE Asks(i) \subseteq Needs(Sym(i).file)
  <2>1. i \in SymbolsOf(Sym(i).file) /\ Sym(i).file \in Files
    BY <1>4 DEF SymbolsOf
  <2> QED
    BY <2>1, NeedsAreAsked
<1> QED
  BY <1>1, <1>2, <1>3, <1>4

\* Going past symbol j.at: the file it asks for, if it is not there yet, is requested.
ScanAsks(j, w) ==
    /\ Scan(j, w)
    /\ w # 0 => w \in Asks(j.at)
    /\ \A g \in Asks(j.at) : g = w \/ Wanted(g)
    /\ defs' \in [Indices -> Nat]
    /\ \A i \in Indices : i # j.at => defs'[i] = defs[i]
    /\ defs'[j.at] = 0 => defs[j.at] = 0

\* An unresolved symbol is a reference of an object.
LEMMA UnresolvedIsReference ==
    ASSUME LoadedInv, DefsInv, phase = "resolve", NEW i \in Indices, ~Resolved(i)
    PROVE  Sym(i).kind \in {"undefined", "weakref"}
<1>1. defs[i] = 0 /\ ~(IsDynamic(Sym(i).file) /\ Sym(i).vis = "Hidden")
  BY DEF Resolved
<1>2. ~Defined(i) /\ Sym(i).file # Prelude
  BY <1>1 DEF DefsInv
<1>3. Sym(i).kind \in {"undefined", "weakref", "force"}
  BY <1>1, <1>2 DEF Defined
<1>4. Sym(i).kind # "force"
  BY <1>2, LinkFacts DEF LoadedInv
<1> QED
  BY <1>3, <1>4

LEMMA JobAsks ==
    ASSUME LoadedInv, JobInv, DefsInv, StartInv, NEW j \in jobs,
           SkipSymbol(j) \/ ForceUndefined(j) \/ ResolveSymbol(j)
    PROVE  \E w : ScanAsks(j, w)
<1>1. link \in Links /\ taken \subseteq Files /\ Files \subseteq Nat \ {0} /\ Indices \subseteq Nat \ {0}
  BY LinkFacts DEF LoadedInv
<1>2. phase = "resolve" /\ j.want = 0 /\ Busy(j) /\ Runs(j)
  BY DEF SkipSymbol, ForceUndefined, ResolveSymbol, Runs
<1>3. j \in Job /\ j.file \in taken /\ j.at \in Indices /\ Sym(j.at).file = j.file
  <2>1. j \in Job /\ j.file \in taken /\ j.at .. j.end \subseteq SymbolsOf(j.file)
    BY DEF JobInv
  <2>2. j.at \in j.at .. j.end
    BY <1>2, <2>1 DEF Job, Busy
  <2> QED
    BY <2>1, <2>2 DEF SymbolsOf
<1>4. defs \in [Indices -> Nat]
  BY <1>2 DEF DefsInv
<1>5. CASE SkipSymbol(j)
  <2>1. Scan(j, 0) /\ defs' = defs
    BY <1>5 DEF SkipSymbol, Scan, Runs, Advance
  <2>2. Resolved(j.at) /\ Sym(j.at).kind # "force"
    BY <1>5 DEF SkipSymbol
  <2>3. \A g \in Asks(j.at) : Wanted(g)
    <3>1. CASE defs[j.at] # 0
      BY <1>2, <1>3, <2>2, <3>1 DEF DefsInv, Asks
    <3>2. CASE IsDynamic(Sym(j.at).file) /\ Sym(j.at).vis = "Hidden"
      BY <2>2, <3>2 DEF Asks
    <3> QED
      BY <2>2, <3>1, <3>2 DEF Resolved
  <2>4. ScanAsks(j, 0)
    BY <1>4, <2>1, <2>3 DEF ScanAsks
  <2> QED
    BY <2>4
<1>6. CASE ForceUndefined(j)
  <2> DEFINE p == Found(j.at)
             w == IF p = 0 THEN 0 ELSE Request(Sym(p).file)
  <2>1. /\ Sym(j.at).kind = "force" /\ p = name_to_id(Sym(j.at).name, NoVersion) /\ p \in Indices \cup {0}
    BY <1>1, <1>6, LookupInRange DEF ForceUndefined, Found
  <2>2. /\ defs' = IF p = 0 THEN defs ELSE [defs EXCEPT ![j.at] = p]
        /\ Advance(j, w) /\ UNCHANGED <<link, taken, loaded, errors, phase, result>>
    BY <1>6, <2>1 DEF ForceUndefined
  <2>3. p # 0 => Sym(p).file \in Files
    BY <1>1, <2>1, LinkFacts
  <2> HIDE DEF p
  <2>4. w \in Files \cup {0} /\ (w # 0 => p # 0 /\ w = Sym(p).file) /\ (p # 0 => w = Sym(p).file \/ Sym(p).file \in taken)
    BY <2>3 DEF Request
  <2>5. Asks(j.at) = {g \in Files : p # 0 /\ g = Sym(p).file}
    BY <2>1 DEF Asks, p
  <2>6. /\ defs' \in [Indices -> Nat] /\ (defs'[j.at] = 0 => defs[j.at] = 0)
        /\ \A i \in Indices : i # j.at => defs'[i] = defs[i]
    BY <1>1, <1>3, <1>4, <2>1, <2>2
  <2> HIDE DEF w
  <2>7. Scan(j, w)
    BY <1>2, <2>2, <2>4 DEF Scan, Advance
  <2>8. ScanAsks(j, w)
    BY <2>4, <2>5, <2>6, <2>7 DEF ScanAsks, Wanted
  <2> QED
    BY <2>8
<1>7. CASE ResolveSymbol(j)
  <2> DEFINE s == Sym(j.at)
             d == Found(j.at)
             other == d # 0 /\ Sym(d).file # j.file /\ s.kind # "weakref"
             w == IF other /\ ~(IsDynamic(j.file) /\ IsDynamic(Sym(d).file)) THEN Request(Sym(d).file) ELSE 0
  <2>1. ~Resolved(j.at) /\ s.kind \in {"undefined", "weakref"}
    BY <1>2, <1>3, <1>7, UnresolvedIsReference DEF ResolveSymbol
  <2>2. version_name(j) = s.version
    <3>1. CASE ~IsDynamic(j.file)
      BY <3>1 DEF version_name
    <3>2. CASE IsDynamic(j.file)
      <4>1. j.start = First(SymbolsOf(j.file)) /\ j.start <= j.at /\ j.start \in Nat /\ j.at \in Nat
        BY <1>2, <1>3, <3>2 DEF StartInv, Job
      <4>2. First(SymbolsOf(j.file)) + (j.at - j.start) = j.at
        BY <4>1
      <4> QED
        BY <2>1, <3>2, <4>2 DEF version_name
    <3> QED
      BY <3>1, <3>2
  <2>3. d = get(s.name, version_name(j), s.vis = "Default") /\ d \in Indices \cup {0}
    BY <1>1, <2>1, <2>2, LookupInRange DEF Found
  <2>4. /\ defs' = [defs EXCEPT ![j.at] = d] /\ Advance(j, w)
        /\ UNCHANGED <<link, taken, loaded, errors, phase, result>>
    BY <1>7, <2>3 DEF ResolveSymbol
  <2>5. d # 0 => Sym(d).file \in Files
    BY <1>1, <2>3, LinkFacts
  <2>6. ~(IsDynamic(j.file) /\ s.vis = "Hidden") /\ defs[j.at] = 0
    BY <1>3, <2>1 DEF Resolved
  <2>7. Asks(j.at) = {g \in Files : /\ d # 0 /\ g = Sym(d).file /\ s.kind = "undefined"
                                    /\ ~(IsDynamic(j.file) /\ IsDynamic(g))}
    BY <1>3, <2>1, <2>6 DEF Asks
  <2> HIDE DEF d
  <2>8. w \in Files \cup {0} /\ (w # 0 => w \in Asks(j.at))
    BY <2>1, <2>5, <2>7 DEF Request
  <2>9. \A g \in Asks(j.at) : g = w \/ g \in taken
    BY <1>3, <2>7 DEF Request
  <2>10. /\ defs' \in [Indices -> Nat] /\ \A i \in Indices : i # j.at => defs'[i] = defs[i]
    BY <1>1, <1>3, <1>4, <2>3, <2>4
  <2> HIDE DEF w
  <2>11. Scan(j, w)
    BY <1>2, <2>4, <2>8 DEF Scan, Advance
  <2>12. ScanAsks(j, w)
    BY <2>6, <2>8, <2>9, <2>10, <2>11 DEF ScanAsks, Wanted
  <2> QED
    BY <2>12
<1> QED
  BY <1>5, <1>6, <1>7

LEMMA InitExact ==
    ASSUME DynamicsFitOneChunk, Init
    PROVE  DefsInv /\ StartInv /\ Sound /\ Complete /\ Exact
<1> DEFINE e == name_to_id(link.entry, NoVersion)
           w == IF e = 0 THEN 0 ELSE Sym(e).file
<1>1. /\ link \in Links /\ taken = {f \in Files : ~link.files[f].optional} /\ phase = "resolve" /\ result = "none"
      /\ jobs = work_items(Prelude, w) \cup UNION {work_items(f, 0) : f \in {h \in taken : IsObject(h)}}
      /\ defs = [i \in Indices |-> IF Defined(i) \/ Sym(i).file = Prelude THEN i ELSE 0]
  BY DEF Init
<1>2. /\ w \in Nat /\ Prelude \in Files /\ 0 \in Nat /\ Prelude \in taken /\ taken \subseteq Files
      /\ Files \subseteq Nat \ {0} /\ Indices \subseteq Nat \ {0}
  BY <1>1, LinkFacts, LookupInRange
<1>3. \A g : g \in EntryAsks <=> w # 0 /\ g = w
  <2>1. e # 0 => Sym(e).file \in Files
    BY <1>1, LinkFacts, LookupInRange
  <2> QED
    BY <1>2, <2>1 DEF EntryAsks
<1> HIDE DEF e, w
<1>4. /\ \A x \in work_items(Prelude, w) : x.file = Prelude /\ x.want = w
      /\ work_items(Prelude, w) # {}
      /\ \A i \in SymbolsOf(Prelude) : \E x \in work_items(Prelude, w) : x.at <= i /\ i <= x.end
  BY <1>1, <1>2, WorkItems
<1>5. ASSUME NEW f \in taken
      PROVE  /\ \A x \in work_items(f, 0) : x.file = f /\ x.want = 0 /\ x.at = x.start /\ x \in Job
             /\ \A i \in SymbolsOf(f) : \E x \in work_items(f, 0) : x.at <= i /\ i <= x.end
             /\ IsDynamic(f) => \A x \in work_items(f, 0) : Busy(x) => x.start = First(SymbolsOf(f))
  BY <1>1, <1>2, WorkItems
<1>6. ASSUME NEW x \in jobs PROVE x \in work_items(Prelude, w) \/ \E f \in taken : IsObject(f) /\ x \in work_items(f, 0)
  BY <1>1
<1>7. DefsInv
  <2>1. defs \in [Indices -> Nat]
    BY <1>1, <1>2
  <2>2. ASSUME NEW i \in Indices
        PROVE  IF defs[i] = 0 THEN ~Defined(i) /\ Sym(i).file # Prelude ELSE Sym(i).kind # "undefined"
    <3>1. Sym(i).file = Prelude => Sym(i).kind # "undefined"
      BY <1>1, LinkFacts
    <3> QED
      BY <1>1, <1>2, <3>1 DEF Defined
  <2> QED
    BY <2>1, <2>2 DEF DefsInv
<1>8. StartInv
  <2> SUFFICES ASSUME NEW x \in jobs, IsDynamic(x.file), Busy(x)
               PROVE  x.start = First(SymbolsOf(x.file)) /\ x.start <= x.at
    BY DEF StartInv
  <2>1. x \notin work_items(Prelude, w)
    BY <1>1, <1>4, LinkFacts
  <2>2. PICK f \in taken : x \in work_items(f, 0)
    BY <1>6, <2>1
  <2>3. x.file = f /\ x.at = x.start /\ x \in Job /\ x.start = First(SymbolsOf(f))
    BY <1>5, <2>2
  <2> QED
    BY <2>3 DEF Job
<1>9. Sound
  <2> SUFFICES ASSUME NEW F \in SUBSET Files, Closed(F)
               PROVE  taken \subseteq F /\ \A x \in jobs : x.want # 0 => x.want \in F
    BY DEF Sound
  <2>1. taken \subseteq F
    BY <1>1 DEF Closed
  <2>2. EntryAsks \subseteq F
    BY <1>1, ClosedHasAsked
  <2>3. \A x \in jobs : x.want # 0 => x.want = w
    BY <1>4, <1>5, <1>6
  <2> QED
    BY <1>3, <2>1, <2>2, <2>3
<1>10. Complete
  <2>1. \A g \in EntryAsks : Wanted(g)
    BY <1>1, <1>3, <1>4 DEF Wanted
  <2>2. ASSUME NEW i \in Indices, Sym(i).file \in taken PROVE Ahead(i) \/ \A g \in Asks(i) : Wanted(g)
    <3>1. i \in SymbolsOf(Sym(i).file)
      BY DEF SymbolsOf
    <3>2. CASE Sym(i).file = Prelude
      BY <1>1, <1>4, <3>1, <3>2 DEF Ahead
    <3>3. CASE IsObject(Sym(i).file)
      <4>1. PICK x \in work_items(Sym(i).file, 0) : x.at <= i /\ i <= x.end /\ x.file = Sym(i).file
        BY <1>5, <2>2, <3>1
      <4>2. x \in jobs
        BY <1>1, <2>2, <3>3
      <4> QED
        BY <4>1, <4>2 DEF Ahead
    <3>4. CASE Sym(i).file # Prelude /\ ~IsObject(Sym(i).file)
      <4>1. Sym(i).kind = "internal"
        BY <1>1, <3>4, LinkFacts
      <4> QED
        BY <4>1 DEF Asks
    <3> QED
      BY <3>2, <3>3, <3>4
  <2> QED
    BY <2>1, <2>2 DEF Complete
<1>11. Exact
  BY <1>1 DEF Exact
<1> QED
  BY <1>7, <1>8, <1>9, <1>10, <1>11

\* What is wanted stays wanted, and so do the invariants that only speak of it.
LEMMA WantedGrows ==
    ASSUME DefsInv, phase' = "resolve" => phase = "resolve", UNCHANGED <<link, defs>>,
           \A g \in Files : Wanted(g) => Wanted(g)'
    PROVE  DefsInv'
<1>1. \A i : Asks(i) \subseteq Files
  BY DEF Asks
<1> QED
  BY <1>1, LinkFixed DEF DefsInv

LEMMA ScanExact ==
    ASSUME LoadedInv, JobInv, DefsInv, StartInv, Sound, Complete, Exact,
           NEW j \in jobs, NEW w, ScanAsks(j, w)
    PROVE  DefsInv' /\ StartInv' /\ Sound' /\ Complete' /\ Exact'
<1> DEFINE k == [j EXCEPT !.at = @ + 1, !.want = w]
<1>1. /\ phase = "resolve" /\ j.want = 0 /\ Busy(j) /\ w \in Files \cup {0}
      /\ jobs' = (jobs \ {j}) \cup {k} /\ UNCHANGED <<link, taken, errors, phase, result>>
  BY DEF ScanAsks, Scan
<1>2. /\ link \in Links /\ taken \subseteq Files /\ Files \subseteq Nat \ {0} /\ Indices \subseteq Nat \ {0}
      /\ \A i : Asks(i) \subseteq Files
  BY LinkFacts DEF LoadedInv, Asks
<1>3. /\ j \in Job /\ j.file \in taken /\ j.at \in Nat /\ j.end \in Nat
  BY DEF JobInv, Job
<1>4. k.file = j.file /\ k.want = w /\ k.at = j.at + 1 /\ k.end = j.end /\ k.start = j.start
  <2>1. w \in Nat /\ j.at + 1 \in Nat
    BY <1>1, <1>2, <1>3
  <2> QED
    BY <1>3, <2>1, MovedJob
<1>5. j.at \in Indices /\ Sym(j.at).file = j.file
  <2>1. j.at \in j.at .. j.end
    BY <1>1, <1>3 DEF Busy
  <2> QED
    BY <2>1 DEF JobInv, SymbolsOf
<1> HIDE DEF k
<1>6. \A g \in Files : Wanted(g) => Wanted(g)'
  BY <1>1, <1>2, <1>4 DEF Wanted
<1>7. \A g \in Asks(j.at) : Wanted(g)'
  <2>1. \A g \in Asks(j.at) : g = w \/ Wanted(g)
    BY DEF ScanAsks
  <2>2. Wanted(w)'
    BY <1>1, <1>4 DEF Wanted
  <2> QED
    BY <1>2, <1>6, <2>1, <2>2
<1>8. DefsInv'
  <2>1. defs' \in [Indices -> Nat]
    BY DEF ScanAsks
  <2>2. ASSUME NEW i \in Indices
        PROVE  IF defs'[i] = 0 THEN ~Defined(i) /\ Sym(i).file # Prelude
               ELSE Sym(i).kind = "undefined" => \A g \in Asks(i) : Wanted(g)'
    <3>1. CASE i = j.at
      BY <1>1, <1>7, <3>1 DEF ScanAsks, DefsInv
    <3>2. CASE i # j.at
      <4>1. defs'[i] = defs[i]
        BY <3>2 DEF ScanAsks
      <4> QED
        BY <1>1, <1>2, <1>6, <4>1 DEF DefsInv
    <3> QED
      BY <3>1, <3>2
  <2> QED
    BY <1>1, <2>1, <2>2, LinkFixed DEF DefsInv
<1>9. StartInv'
  <2> SUFFICES ASSUME NEW x \in jobs', IsDynamic(x.file), Busy(x)
               PROVE  x.start = First(SymbolsOf(x.file)) /\ x.start <= x.at
    BY <1>1, LinkFixed DEF StartInv, Busy
  <2>1. CASE x = k
    <3>1. j.start = First(SymbolsOf(j.file)) /\ j.start <= j.at /\ j.start \in Nat
      BY <1>1, <1>3, <1>4, <2>1 DEF StartInv, Job
    <3> QED
      <4>1. j.start <= j.at + 1
        BY <1>3, <3>1
      <4> QED
        BY <1>4, <2>1, <3>1, <4>1
  <2>2. CASE x \in jobs
    BY <2>2 DEF StartInv
  <2> QED
    BY <1>1, <2>1, <2>2
<1>10. Sound'
  <2> SUFFICES ASSUME NEW F \in SUBSET Files, Closed(F)
               PROVE  taken \subseteq F /\ \A x \in jobs' : x.want # 0 => x.want \in F
    BY <1>1, LinkFixed DEF Sound
  <2>1. taken \subseteq F /\ \A x \in jobs : x.want # 0 => x.want \in F
    BY DEF Sound
  <2>2. w # 0 => w \in F
    BY <1>2, <1>3, <1>5, <2>1, ClosedHasAsked DEF ScanAsks
  <2> QED
    BY <1>1, <1>4, <2>1, <2>2
<1>11. Complete'
  <2> SUFFICES ASSUME ~errors
               PROVE  /\ \A g \in EntryAsks : Wanted(g)'
                      /\ \A i \in Indices : Sym(i).file \in taken => Ahead(i)' \/ \A g \in Asks(i) : Wanted(g)'
    BY <1>1, LinkFixed DEF Complete
  <2>1. \A g \in EntryAsks : Wanted(g)'
    BY <1>1, <1>6 DEF Complete, EntryAsks
  <2>2. ASSUME NEW i \in Indices, Sym(i).file \in taken PROVE Ahead(i)' \/ \A g \in Asks(i) : Wanted(g)'
    <3>1. CASE \A g \in Asks(i) : Wanted(g)
      BY <1>2, <1>6, <3>1
    <3>2. CASE Ahead(i)
      <4>1. PICK x \in jobs : x.file = Sym(i).file /\ x.at <= i /\ i <= x.end
        BY <3>2 DEF Ahead
      <4>2. CASE i = j.at
        BY <1>7, <4>2
      <4>3. CASE x # j
        BY <1>1, <4>1, <4>3, LinkFixed DEF Ahead
      <4>4. CASE x = j /\ i # j.at
        <5>1. k.at <= i /\ i <= k.end /\ k.file = Sym(i).file
          <6>1. i \in Nat /\ j.at \in Nat /\ j.at <= i /\ i # j.at
            BY <1>2, <1>3, <4>1, <4>4
          <6>2. j.at + 1 <= i
            BY <6>1
          <6> QED
            BY <1>4, <4>1, <4>4, <6>2
        <5> QED
          BY <1>1, <5>1, LinkFixed DEF Ahead
      <4> QED
        BY <4>2, <4>3, <4>4
    <3> QED
      BY <1>1, <2>2, <3>1, <3>2 DEF Complete
  <2> QED
    BY <2>1, <2>2
<1>12. Exact'
  BY <1>1 DEF Exact
<1> QED
  BY <1>8, <1>9, <1>10, <1>11, <1>12

LEMMA TakeExact ==
    ASSUME DynamicsFitOneChunk, LoadedInv, JobInv, DefsInv, StartInv, Sound, Complete, Exact,
           NEW j \in jobs, TakeFile(j)
    PROVE  DefsInv' /\ StartInv' /\ Sound' /\ Complete' /\ Exact'
<1> DEFINE k == [j EXCEPT !.want = 0]
           new == IF j.want \in taken THEN {} ELSE work_items(j.want, 0)
<1>1. /\ phase = "resolve" /\ j.want # 0 /\ UNCHANGED <<link, defs, errors, phase, result>>
      /\ jobs' = (jobs \ {j}) \cup {k} \cup new /\ taken' = taken \cup {j.want}
  BY DEF TakeFile, Takes
<1>2. /\ link \in Links /\ taken \subseteq Files /\ Files \subseteq Nat \ {0} /\ Indices \subseteq Nat \ {0}
      /\ \A i : Asks(i) \subseteq Files
  BY LinkFacts DEF LoadedInv, Asks
<1>3. j \in Job /\ j.file \in taken /\ j.want \in Files
  BY <1>1 DEF JobInv
<1>4. k.file = j.file /\ k.want = 0 /\ k.at = j.at /\ k.end = j.end /\ k.start = j.start
  BY <1>3 DEF Job
<1>5. \A x \in new : /\ x.file = j.want /\ x.want = 0 /\ x.at = x.start /\ x \in Job
                     /\ IsDynamic(j.want) /\ Busy(x) => x.start = First(SymbolsOf(j.want))
  <2>1. \A f \in Files : \A x \in work_items(f, 0) :
            /\ x.file = f /\ x.want = 0 /\ x.at = x.start /\ x \in Job
            /\ IsDynamic(f) /\ Busy(x) => x.start = First(SymbolsOf(f))
    BY <1>2, WorkItems
  <2> QED
    BY <1>3, <2>1
<1>6. j.want \notin taken => \A i \in SymbolsOf(j.want) : \E x \in new : x.at <= i /\ i <= x.end
  <2>1. \A f \in Files : \A i \in SymbolsOf(f) : \E x \in work_items(f, 0) : x.at <= i /\ i <= x.end
    BY <1>2, WorkItems
  <2> QED
    BY <1>3, <2>1
<1> HIDE DEF k, new
<1>7. \A g \in Files : Wanted(g) => Wanted(g)'
  BY <1>1 DEF Wanted
<1>8. DefsInv'
  BY <1>1, <1>7, WantedGrows
<1>9. StartInv'
  <2> SUFFICES ASSUME NEW x \in jobs', IsDynamic(x.file), Busy(x)
               PROVE  x.start = First(SymbolsOf(x.file)) /\ x.start <= x.at
    BY <1>1, LinkFixed DEF StartInv, Busy
  <2>1. CASE x = k
    BY <1>4, <2>1 DEF StartInv, Busy
  <2>2. CASE x \in jobs
    BY <2>2 DEF StartInv
  <2>3. CASE x \in new
    BY <1>5, <2>3 DEF Job
  <2> QED
    BY <1>1, <2>1, <2>2, <2>3
<1>10. Sound'
  <2> SUFFICES ASSUME NEW F \in SUBSET Files, Closed(F)
               PROVE  taken' \subseteq F /\ \A x \in jobs' : x.want # 0 => x.want \in F
    BY <1>1, LinkFixed DEF Sound
  <2>1. taken \subseteq F /\ \A x \in jobs : x.want # 0 => x.want \in F
    BY DEF Sound
  <2> QED
    BY <1>1, <1>4, <1>5, <2>1
<1>11. Complete'
  <2> SUFFICES ASSUME ~errors
               PROVE  /\ \A g \in EntryAsks : Wanted(g)'
                      /\ \A i \in Indices : Sym(i).file \in taken' => Ahead(i)' \/ \A g \in Asks(i) : Wanted(g)'
    BY <1>1, LinkFixed DEF Complete
  <2>1. \A g \in EntryAsks : Wanted(g)'
    BY <1>1, <1>7 DEF Complete, EntryAsks
  <2>2. ASSUME NEW i \in Indices, Sym(i).file \in taken' PROVE Ahead(i)' \/ \A g \in Asks(i) : Wanted(g)'
    <3>1. CASE Sym(i).file \notin taken
      <4>1. Sym(i).file = j.want /\ i \in SymbolsOf(j.want)
        BY <1>1, <2>2, <3>1 DEF SymbolsOf
      <4>2. PICK x \in new : x.at <= i /\ i <= x.end
        BY <1>6, <3>1, <4>1
      <4> QED
        BY <1>1, <1>5, <4>1, <4>2, LinkFixed DEF Ahead
    <3>2. CASE \A g \in Asks(i) : Wanted(g)
      BY <1>2, <1>7, <3>2
    <3>3. CASE Ahead(i)
      <4>1. PICK x \in jobs : x.file = Sym(i).file /\ x.at <= i /\ i <= x.end
        BY <3>3 DEF Ahead
      <4>2. CASE x = j
        BY <1>1, <1>4, <4>1, <4>2, LinkFixed DEF Ahead
      <4>3. CASE x # j
        BY <1>1, <4>1, <4>3, LinkFixed DEF Ahead
      <4> QED
        BY <4>2, <4>3
    <3> QED
      BY <1>1, <2>2, <3>1, <3>2, <3>3 DEF Complete
  <2> QED
    BY <2>1, <2>2
<1>12. Exact'
  BY <1>1 DEF Exact
<1> QED
  BY <1>8, <1>9, <1>10, <1>11, <1>12

\* When the last job is done, what was taken is closed.
LEMMA TakenIsClosed ==
    ASSUME LoadedInv, JobInv, Complete, phase = "resolve", ~errors, \A j \in jobs : j.want = 0 /\ ~Busy(j)
    PROVE  Closed(taken)
<1>1. link \in Links /\ taken \subseteq Files /\ \A f \in Files : ~link.files[f].optional => f \in taken
  BY DEF LoadedInv
<1>2. \A g \in Files : Wanted(g) => g \in taken
  BY <1>1, LinkFacts DEF Wanted
<1>3. \A i \in Indices : ~Ahead(i)
  <2> SUFFICES ASSUME NEW i \in Indices, NEW j \in jobs, j.at <= i, i <= j.end PROVE FALSE
    BY DEF Ahead
  <2>1. j.at \in Nat /\ j.end \in Nat /\ i \in Nat
    BY <1>1, LinkFacts DEF JobInv, Job
  <2> QED
    BY <2>1 DEF Busy
<1>4. ASSUME NEW f \in taken, NEW g \in Needs(f) PROVE g \in taken
  <2>1. CASE f = Prelude /\ g \in EntryAsks
    BY <1>2, <2>1 DEF Complete, EntryAsks
  <2>2. CASE \E i \in SymbolsOf(f) : g \in Asks(i)
    <3>1. PICK i \in SymbolsOf(f) : g \in Asks(i)
      BY <2>2
    <3>2. i \in Indices /\ Sym(i).file = f /\ g \in Files
      BY <3>1 DEF SymbolsOf, Asks
    <3>3. Wanted(g)
      BY <1>3, <3>1, <3>2 DEF Complete
    <3> QED
      BY <1>2, <3>2, <3>3
  <2> QED
    BY <1>1, <2>1, <2>2, NeedsAreAsked
<1> QED
  BY <1>1, <1>4 DEF Closed

LEMMA ExactStep ==
    ASSUME DynamicsFitOneChunk, IInv, [Next]_vars
    PROVE  IInv'
<1>0. LoadedInv /\ JobInv /\ DefsInv /\ StartInv /\ Sound /\ Complete /\ Exact
  BY DEF IInv
<1>1. LoadedInv' /\ JobInv'
  BY <1>0, LoadedStep
<1>2. ASSUME NEW j \in jobs, SkipSymbol(j) \/ ForceUndefined(j) \/ ResolveSymbol(j)
      PROVE  DefsInv' /\ StartInv' /\ Sound' /\ Complete' /\ Exact'
  BY <1>0, <1>2, JobAsks, ScanExact
<1>3. ASSUME NEW j \in jobs, TakeFile(j) PROVE DefsInv' /\ StartInv' /\ Sound' /\ Complete' /\ Exact'
  BY <1>0, <1>3, TakeExact
<1>4. ASSUME UNCHANGED <<link, taken>>, jobs' \subseteq jobs PROVE StartInv' /\ Sound'
  <2>1. StartInv'
    BY <1>0, <1>4, LinkFixed DEF StartInv, Busy
  <2>2. Sound'
    BY <1>0, <1>4, LinkFixed DEF Sound
  <2> QED
    BY <2>1, <2>2
<1>5. ASSUME NEW j \in jobs, SymbolFails(j) PROVE DefsInv' /\ StartInv' /\ Sound' /\ Complete' /\ Exact'
  <2>1. /\ UNCHANGED <<link, defs, taken, phase, result>> /\ jobs' = jobs \ {j} /\ errors' = TRUE
        /\ j.want = 0 /\ phase = "resolve"
    BY <1>5 DEF SymbolFails, Runs, handle_result
  <2>2. Files \subseteq Nat \ {0}
    BY <1>0, LinkFacts DEF LoadedInv
  <2>3. \A g \in Files : Wanted(g) => Wanted(g)'
    BY <2>1, <2>2 DEF Wanted
  <2>4. DefsInv'
    BY <1>0, <2>1, <2>3, WantedGrows
  <2>5. Complete' /\ Exact'
    BY <1>0, <2>1 DEF Complete, Exact
  <2> QED
    BY <1>4, <2>1, <2>4, <2>5
<1>6. ASSUME FinishResolve PROVE DefsInv' /\ StartInv' /\ Sound' /\ Complete' /\ Exact'
  <2>1. UNCHANGED <<link, taken, jobs>> /\ phase = "resolve" /\ \A j \in jobs : j.want = 0 /\ ~Busy(j)
    BY <1>6 DEF FinishResolve
  <2>2. \/ errors /\ phase' = "done" /\ result' = "Err"
        \/ ~errors /\ phase' = "alternatives"
    BY <1>6 DEF FinishResolve
  <2>3. ~errors => Closed(taken)
    BY <1>0, <2>1, TakenIsClosed
  <2>4. Exact'
    BY <2>1, <2>2, <2>3, LinkFixed DEF Exact
  <2>5. DefsInv' /\ Complete'
    BY <2>2 DEF DefsInv, Complete
  <2> QED
    BY <1>4, <2>1, <2>4, <2>5
<1>7. ASSUME UNCHANGED <<link, taken, jobs>>, phase # "resolve", phase' # "resolve",
             phase' \in {"alternatives", "canonicalise"} \/ result' = "Ok"
                => phase \in {"alternatives", "canonicalise"} \/ result = "Ok"
      PROVE  DefsInv' /\ StartInv' /\ Sound' /\ Complete' /\ Exact'
  <2>1. Exact'
    BY <1>0, <1>7, LinkFixed DEF Exact
  <2>2. DefsInv' /\ Complete'
    BY <1>7 DEF DefsInv, Complete
  <2> QED
    BY <1>4, <1>7, <2>1, <2>2
<1>8. ASSUME NEW b \in Buckets, ProcessAlternatives(b) \/ UpdateDefinition(b)
      PROVE  DefsInv' /\ StartInv' /\ Sound' /\ Complete' /\ Exact'
  BY <1>7, <1>8 DEF ProcessAlternatives, UpdateDefinition
<1>9. ASSUME FinishAlternatives \/ Canonicalise \/ FinishCanonicalise
      PROVE  DefsInv' /\ StartInv' /\ Sound' /\ Complete' /\ Exact'
  BY <1>7, <1>9 DEF FinishAlternatives, Canonicalise, FinishCanonicalise
<1>10. ASSUME Returned \/ UNCHANGED vars PROVE DefsInv' /\ StartInv' /\ Sound' /\ Complete' /\ Exact'
  <2>1. UNCHANGED <<link, defs, taken, jobs, errors, phase, result>>
    BY <1>10 DEF Returned, vars
  <2>2. \A g : Wanted(g)' = Wanted(g)
    BY <2>1 DEF Wanted
  <2>3. DefsInv'
    BY <1>0, <2>1, <2>2, WantedGrows
  <2>4. Complete'
    <3>1. \A i : Sym(i)' = Sym(i)
      BY <2>1, LinkFixed
    <3>2. \A i : Ahead(i)' = Ahead(i)
      BY <2>1, <3>1 DEF Ahead
    <3> QED
      BY <1>0, <2>1, <2>2, <3>1, <3>2, LinkFixed DEF Complete
  <2>5. Exact'
    BY <1>0, <2>1, LinkFixed DEF Exact
  <2> QED
    BY <1>4, <2>1, <2>3, <2>4, <2>5
<1> QED
  BY <1>1, <1>2, <1>3, <1>5, <1>6, <1>8, <1>9, <1>10 DEF Next, IInv

\* Archive selection is exact, whatever the schedule: once the jobs are over and
\* none has failed, the loaded files are the least set that has the files of the
\* command line and, with a file, the definitions of its strong references.
\* For links in which no shared object has more symbols than a work item.
THEOREM SelectionIsExact == DynamicsFitOneChunk => (Spec => []ArchiveClosure)
<1> SUFFICES ASSUME DynamicsFitOneChunk PROVE Spec => []ArchiveClosure
  OBVIOUS
<1>1. Init => IInv
  BY InitLoaded, InitExact DEF IInv
<1>2. IInv /\ [Next]_vars => IInv'
  BY ExactStep
<1>3. IInv => ArchiveClosure
  <2> SUFFICES ASSUME LoadedInv, Sound, Exact, phase \in {"alternatives", "canonicalise"} \/ result = "Ok",
                      NEW f \in Files
               PROVE  f \in LoadedFiles <=> \A F \in SUBSET Files : Closed(F) => f \in F
    BY DEF IInv, ArchiveClosure
  <2>1. Closed(taken) /\ taken \in SUBSET Files
    BY DEF Exact, LoadedInv
  <2>2. f \in LoadedFiles <=> f \in taken
    <3>1. ~IsObject(f) => f \in taken
      BY LinkFacts DEF LoadedInv
    <3>2. f \in taken /\ IsObject(f) <=> \E i \in DOMAIN loaded : loaded[i] = f
      BY DEF LoadedInv
    <3> QED
      BY <3>1, <3>2 DEF LoadedFiles
  <2> QED
    BY <2>1, <2>2 DEF Sound
<1> QED
  BY <1>1, <1>2, <1>3, PTL DEF Spec
=============================================================================
