------------------------- MODULE ElfResolution_proof -------------------------
(***************************************************************************)
(* Proofs about what is decided from the flags of one symbol: the flags that *)
(* a relocation adds keep a symbol's flags in order, and the writer takes     *)
(* from each table what layout reserved for the symbol.                       *)
(***************************************************************************)
EXTENDS ElfResolution, FiniteSetTheorems, FunctionTheorems, TLAPS

PlainKinds == {"Absolute", "Relative", "PltRelative", "GotRelative"}
TlsFlags == {"GOT_TLS_OFFSET", "GOT_TLS_MODULE", "GOT_TLS_DESCRIPTOR"}

\* What a symbol's flags f may be when its given flags are g.
SymbolFlags(f, g, tls, o) ==
    /\ f \in SUBSET (Given \cup Needs) /\ f \cap Given = g
    /\ IF tls THEN f \cap {"GOT", "PLT", "IFUNC_GOT_FOR_ADDRESS"} = {} ELSE f \cap TlsFlags = {}
    /\ "PLT" \in f => "GOT" \in f
    /\ "IFUNC_GOT_FOR_ADDRESS" \in f => {"GOT", "PLT", "IFUNC"} \subseteq f /\ ~is_relocatable(o)
    /\ "IFUNC" \in f /\ is_static_executable(o) /\ has_resolution(f) => {"GOT", "PLT"} \subseteq f

\* A relocation keeps on the side of thread-local ones, or off it, when it is
\* relaxed.
LEMMA RelaxedKind ==
    ASSUME NEW r, NEW f, NEW o, NEW relax, r.type \in DOMAIN KindOf \ {"NONE"}
    PROVE  LET kind == Relaxed(r, f, o, relax).kind
           IN  IF KindOf[r.type] \in TlsKinds THEN kind \in TlsKinds \cup {"None"}
               ELSE kind \in PlainKinds
<1> DEFINE K == KindOf[r.type]
           R == {"R_32", "PC32", "PLT32", "TPOFF32", "GOTTPOFF", "NONE"}
<1>1. \A x \in new_relaxation(r, f, o) : x.type \in DOMAIN KindOf /\
        IF K \in TlsKinds THEN x.type \in {"TPOFF32", "GOTTPOFF", "NONE"} ELSE x.type \in {"R_32", "PC32", "PLT32"}
  <2>1. CASE K \in TlsKinds
    BY <2>1 DEF new_relaxation, tls_relaxation, got_relaxation, Relaxation, KindOf, TlsKinds
  <2>2. CASE K \notin TlsKinds
    BY <2>2 DEF new_relaxation, tls_relaxation, got_relaxation, Relaxation, KindOf, TlsKinds
  <2> QED BY <2>1, <2>2
<1>2. CASE {x \in new_relaxation(r, f, o) : relax \/ x.mandatory} = {}
  BY <1>2 DEF Relaxed, KindOf, TlsKinds, PlainKinds
<1>3. CASE {x \in new_relaxation(r, f, o) : relax \/ x.mandatory} # {}
  <2> DEFINE A == {x \in new_relaxation(r, f, o) : relax \/ x.mandatory}
             x == CHOOSE x \in A : TRUE
  <2>1. x \in new_relaxation(r, f, o) BY <1>3
  <2>2. Relaxed(r, f, o, relax).kind = KindOf[x.type] BY <1>3 DEF Relaxed
  <2> HIDE DEF x
  <2> QED BY <2>1, <2>2, <1>1 DEF KindOf, TlsKinds, PlainKinds
<1> QED BY <1>2, <1>3

Added(r, kind, f, o) == FlagsToAdd(r, kind, f, o) \cup FirstReference(f, o)

\* What a relocation adds to the flags of its symbol.
LEMMA AddedFlags ==
    ASSUME NEW r, NEW f \in SUBSET (Given \cup Needs), NEW o, NEW kind,
           kind \in TlsKinds \cup {"None"} \cup PlainKinds,
           kind \in PlainKinds \/ "IFUNC" \notin f
    PROVE  LET add == Added(r, kind, f, o)
           IN  /\ add \subseteq Needs
               /\ kind \notin PlainKinds => add \subseteq TlsFlags \cup {"DIRECT"}
               /\ kind \in PlainKinds => add \cap TlsFlags = {}
               /\ "PLT" \in add => "GOT" \in add
               /\ "IFUNC_GOT_FOR_ADDRESS" \in add => "IFUNC" \in f /\ ~is_relocatable(o)
               /\ "IFUNC" \in f => \/ {"GOT", "PLT"} \subseteq add
                                   \/ is_static_executable(o) /\ has_resolution(f)
<1>1. CASE kind \notin PlainKinds
  <2>1. "IFUNC" \notin f BY <1>1
  <2>2. ~ViaPlt(r, kind, f) /\ ~NeedsCopy(r, kind, f) BY <1>1 DEF ViaPlt, NeedsCopy, Direct, resolution_flags
  <2>3. Added(r, kind, f, o) = resolution_flags(kind) BY <2>1, <2>2 DEF Added, FlagsToAdd, FirstReference
  <2>4. resolution_flags(kind) \subseteq TlsFlags \cup {"DIRECT"}
    BY <1>1 DEF resolution_flags, TlsKinds, PlainKinds, TlsFlags
  <2>5. TlsFlags \cup {"DIRECT"} \subseteq Needs /\ {"GOT", "PLT", "IFUNC_GOT_FOR_ADDRESS"} \cap (TlsFlags \cup {"DIRECT"}) = {}
    BY DEF TlsFlags, Needs
  <2> QED BY <1>1, <2>1, <2>3, <2>4, <2>5
<1>2. CASE kind \in PlainKinds
  <2>1. resolution_flags(kind) \in {{"PLT", "GOT"}, {"GOT"}, {"DIRECT"}}
    BY <1>2 DEF resolution_flags, PlainKinds
  <2> QED BY <1>2, <2>1 DEF Added, FlagsToAdd, FirstReference, TlsFlags, Needs, has_resolution
<1> QED BY <1>1, <1>2

\* Added flags keep the flags of a symbol in order.
LEMMA FlagsGrow ==
    ASSUME NEW f, NEW given, NEW tls \in BOOLEAN, NEW o, NEW add \in SUBSET Needs,
           SymbolFlags(f, given, tls, o),
           IF tls THEN add \subseteq TlsFlags \cup {"DIRECT", "EXPORT_DYNAMIC", "COPY_RELOCATION"}
           ELSE add \cap TlsFlags = {},
           "PLT" \in add => "GOT" \in add,
           "IFUNC_GOT_FOR_ADDRESS" \in add => {"GOT", "PLT"} \subseteq f \cup add /\ "IFUNC" \in f /\ ~is_relocatable(o),
           "IFUNC" \in f /\ is_static_executable(o) => {"GOT", "PLT"} \subseteq f \cup add
    PROVE  SymbolFlags(f \cup add, given, tls, o)
BY DEF SymbolFlags, Given, Needs, TlsFlags, has_resolution

-----------------------------------------------------------------------------
(* Counting the relocations of a table in a sequence of relocations.        *)

Tally(rela, t) == Cardinality({i \in DOMAIN rela : rela[i].table = t})

LEMMA TallyConcat ==
    ASSUME NEW S, NEW a \in Seq(S), NEW b \in Seq(S), NEW t
    PROVE  /\ Tally(a \o b, t) = Tally(a, t) + Tally(b, t)
           /\ Tally(a, t) \in Nat /\ Tally(b, t) \in Nat
<1> DEFINE A == {i \in DOMAIN a : a[i].table = t}
           B == {i \in DOMAIN b : b[i].table = t}
           C == {i \in DOMAIN (a \o b) : (a \o b)[i].table = t}
           m == Len(a)
           D == {i \in C : i > m}
           shift == [i \in B |-> m + i]
<1>1. IsFiniteSet(A) /\ IsFiniteSet(B) /\ IsFiniteSet(C)
  <2>1. IsFiniteSet(1 .. Len(a)) /\ IsFiniteSet(1 .. Len(b)) /\ IsFiniteSet(1 .. Len(a \o b))
    BY FS_Interval
  <2>2. A \in SUBSET (1 .. Len(a)) /\ B \in SUBSET (1 .. Len(b)) /\ C \in SUBSET (1 .. Len(a \o b))
    OBVIOUS
  <2> QED BY <2>1, <2>2, FS_Subset
<1>2. shift \in Bijection(B, D)
  <2>1. \A i \in B : m + i \in D OBVIOUS
  <2>2. \A j \in D : j - m \in B /\ m + (j - m) = j OBVIOUS
  <2>3. \A i, j \in B : shift[i] = shift[j] => i = j OBVIOUS
  <2> HIDE DEF D, B, m
  <2>4. shift \in [B -> D] BY <2>1
  <2>5. \A j \in D : \E i \in B : shift[i] = j BY <2>2
  <2> HIDE DEF shift
  <2> QED BY <2>3, <2>4, <2>5, Fun_IsBij
<1>3. IsFiniteSet(D) /\ Cardinality(D) = Cardinality(B)
  <2>1. ExistsBijection(B, D) BY <1>2 DEF ExistsBijection
  <2> QED BY <1>1, <2>1, FS_Bijection
<1>4. C = A \cup D /\ A \cap D = {} OBVIOUS
<1>5. Cardinality(C) = Cardinality(A) + Cardinality(D)
  <2> HIDE DEF A, C, D
  <2>1. Cardinality(A \cup D) = Cardinality(A) + Cardinality(D) - Cardinality(A \cap D)
    BY <1>1, <1>3, FS_Union
  <2>2. Cardinality(A \cap D) = 0 BY <1>4, FS_EmptySet
  <2>3. Cardinality(A) \in Nat /\ Cardinality(D) \in Nat BY <1>1, <1>3, FS_CardinalityType
  <2> QED BY <1>4, <2>1, <2>2, <2>3
<1>6. Cardinality(A) \in Nat /\ Cardinality(B) \in Nat BY <1>1, FS_CardinalityType
<1> QED BY <1>3, <1>5, <1>6 DEF Tally

LEMMA TallyShort ==
    /\ \A t : Tally(<<>>, t) = 0
    /\ \A x, t : Tally(<<x>>, t) = IF x.table = t THEN 1 ELSE 0
<1>1. ASSUME NEW t PROVE Tally(<<>>, t) = 0
  <2>1. {i \in DOMAIN <<>> : <<>>[i].table = t} = {} OBVIOUS
  <2> QED BY <2>1, FS_EmptySet DEF Tally
<1>2. ASSUME NEW x, NEW t PROVE Tally(<<x>>, t) = IF x.table = t THEN 1 ELSE 0
  <2>1. {i \in DOMAIN <<x>> : <<x>>[i].table = t} = IF x.table = t THEN {1} ELSE {} OBVIOUS
  <2> QED BY <2>1, FS_EmptySet, FS_Singleton DEF Tally
<1> QED BY <1>1, <1>2

IsSequence(a) == \E S : a \in Seq(S)

LEMMA ShortSequences ==
    /\ IsSequence(<<>>) /\ Len(<<>>) = 0
    /\ \A x : IsSequence(<<x>>) /\ Len(<<x>>) = 1
    /\ \A x, y : IsSequence(<<x, y>>) /\ Len(<<x, y>>) = 2
<1>1. <<>> \in Seq({}) /\ Len(<<>>) = 0 OBVIOUS
<1>2. \A x : <<x>> \in Seq({x}) /\ Len(<<x>>) = 1 OBVIOUS
<1>3. \A x, y : <<x, y>> \in Seq({x, y}) /\ Len(<<x, y>>) = 2 OBVIOUS
<1> QED BY <1>1, <1>2, <1>3 DEF IsSequence

LEMMA Concat ==
    ASSUME NEW a, NEW b, IsSequence(a), IsSequence(b)
    PROVE  /\ IsSequence(a \o b)
           /\ Len(a) \in Nat /\ Len(b) \in Nat /\ Len(a \o b) = Len(a) + Len(b)
           /\ \A t : /\ Tally(a, t) \in Nat /\ Tally(b, t) \in Nat
                     /\ Tally(a \o b, t) = Tally(a, t) + Tally(b, t)
<1>1. PICK S : a \in Seq(S) BY DEF IsSequence
<1>2. PICK T : b \in Seq(T) BY DEF IsSequence
<1>3. a \in Seq(S \cup T) /\ b \in Seq(S \cup T) BY <1>1, <1>2
<1>4. a \o b \in Seq(S \cup T) BY <1>3
<1> QED BY <1>3, <1>4, TallyConcat DEF IsSequence

(* What a step of the writer takes from a table, when it writes no symbols.  *)
Takes(e, t) == Taken(e, <<>>)[t]
IsEntries(e) ==
    /\ e = Entries(e.words, e.stubs, e.rela, e.failure)
    /\ IsSequence(e.words) /\ IsSequence(e.stubs) /\ IsSequence(e.rela)
RelaTables == {"RELA_PLT", "GENERAL", "RELATIVE", "RELR"}

LEMMA TakenParts ==
    ASSUME NEW words, NEW stubs, NEW rela, NEW failure
    PROVE  LET e == Entries(words, stubs, rela, failure)
           IN  /\ Takes(e, "GOT") = Len(words) /\ Takes(e, "PLT_GOT") = Len(stubs)
               /\ Takes(e, "DYNSYM") = 0
               /\ \A t \in RelaTables : Takes(e, t) = Tally(rela, t)
BY ShortSequences DEF Takes, Taken, Tables, Entries, RelaTables, Tally

LEMMA TakenTogether ==
    ASSUME NEW a, NEW b, IsEntries(a), IsEntries(b)
    PROVE  /\ IsEntries(Together(a, b))
           /\ \A t \in Tables : Takes(Together(a, b), t) = Takes(a, t) + Takes(b, t)
<1> DEFINE c == Together(a, b)
<1>1. PICK failure : c = Entries(a.words \o b.words, a.stubs \o b.stubs, a.rela \o b.rela, failure)
  BY DEF Together
<1> HIDE DEF c
<1>2. IsEntries(c) BY <1>1, Concat DEF IsEntries, Entries
<1>a. /\ Takes(a, "GOT") = Len(a.words) /\ Takes(b, "GOT") = Len(b.words)
      /\ Takes(a, "PLT_GOT") = Len(a.stubs) /\ Takes(b, "PLT_GOT") = Len(b.stubs)
  BY TakenParts DEF IsEntries
<1>c. Takes(c, "GOT") = Len(a.words \o b.words) /\ Takes(c, "PLT_GOT") = Len(a.stubs \o b.stubs)
  <2> DEFINE w == a.words \o b.words
             s == a.stubs \o b.stubs
             x == a.rela \o b.rela
  <2>1. c = Entries(w, s, x, failure) BY <1>1
  <2> HIDE DEF w, s, x
  <2>2. Takes(c, "GOT") = Len(w) /\ Takes(c, "PLT_GOT") = Len(s) BY <2>1, TakenParts
  <2> QED BY <2>2 DEF w, s
<1>l. Len(a.words \o b.words) = Len(a.words) + Len(b.words) BY Concat DEF IsEntries
<1>s. Len(a.stubs \o b.stubs) = Len(a.stubs) + Len(b.stubs) BY Concat DEF IsEntries
<1>5. Takes(c, "DYNSYM") = Takes(a, "DYNSYM") + Takes(b, "DYNSYM")
  <2>1. Takes(c, "DYNSYM") = 0 BY <1>1, TakenParts
  <2>2. Takes(a, "DYNSYM") = 0 /\ Takes(b, "DYNSYM") = 0 BY TakenParts DEF IsEntries
  <2> QED BY <2>1, <2>2
<1>6. \A t \in RelaTables : Takes(c, t) = Takes(a, t) + Takes(b, t)
  <2>1. \A t \in RelaTables : Takes(c, t) = Tally(a.rela \o b.rela, t) BY <1>1, TakenParts
  <2>2. \A t \in RelaTables : Takes(a, t) = Tally(a.rela, t) /\ Takes(b, t) = Tally(b.rela, t)
    BY TakenParts DEF IsEntries
  <2>3. \A t : Tally(a.rela \o b.rela, t) = Tally(a.rela, t) + Tally(b.rela, t) BY Concat DEF IsEntries
  <2> QED BY <2>1, <2>2, <2>3
<1>7. \A t \in Tables : t \in {"GOT", "PLT_GOT", "DYNSYM"} \cup RelaTables BY DEF Tables, RelaTables
<1>8. \A t \in {"GOT", "PLT_GOT"} : Takes(c, t) = Takes(a, t) + Takes(b, t) BY <1>a, <1>c, <1>l, <1>s
<1>9. \A t \in Tables : Takes(c, t) = Takes(a, t) + Takes(b, t) BY <1>5, <1>6, <1>7, <1>8
<1> QED BY <1>2, <1>9 DEF c

LEMMA TakenByNothing == IsEntries(Nothing) /\ \A t \in Tables : Takes(Nothing, t) = 0
<1>1. IsEntries(Nothing) BY ShortSequences DEF Nothing, IsEntries, Entries
<1>2. Takes(Nothing, "GOT") = 0 /\ Takes(Nothing, "PLT_GOT") = 0 /\ Takes(Nothing, "DYNSYM") = 0
  BY TakenParts, ShortSequences DEF Nothing
<1>3. \A t \in RelaTables : Takes(Nothing, t) = 0 BY TakenParts, TallyShort DEF Nothing
<1> QED BY <1>1, <1>2, <1>3 DEF Tables, RelaTables

(* What a record of entries takes, with at most one relocation.             *)
LEMMA TakenPlain ==
    ASSUME NEW words, IsSequence(words), NEW failure
    PROVE  LET e == Entries(words, <<>>, <<>>, failure)
           IN  /\ IsEntries(e)
               /\ \A t \in Tables : Takes(e, t) = IF t = "GOT" THEN Len(words) ELSE 0
<1> DEFINE e == Entries(words, <<>>, <<>>, failure)
<1>1. IsEntries(e) BY ShortSequences DEF IsEntries, Entries
<1>2. Takes(e, "GOT") = Len(words) /\ Takes(e, "PLT_GOT") = 0 /\ Takes(e, "DYNSYM") = 0
  <2>1. Takes(e, "GOT") = Len(words) /\ Takes(e, "PLT_GOT") = Len(<<>>) /\ Takes(e, "DYNSYM") = 0
    BY TakenParts
  <2>2. Len(<<>>) = 0 BY ShortSequences
  <2> HIDE DEF e
  <2> QED BY <2>1, <2>2
<1>3. \A t \in RelaTables : Takes(e, t) = 0 BY TakenParts, TallyShort
<1> HIDE DEF e
<1>4. \A t \in Tables : Takes(e, t) = IF t = "GOT" THEN Len(words) ELSE 0
  BY <1>2, <1>3 DEF Tables, RelaTables
<1> QED BY <1>1, <1>4 DEF e

LEMMA TakenWithRela ==
    ASSUME NEW words, IsSequence(words), NEW x, x.table \in RelaTables, NEW failure
    PROVE  LET e == Entries(words, <<>>, <<x>>, failure)
           IN  /\ IsEntries(e)
               /\ \A t \in Tables : Takes(e, t) = IF t = "GOT" THEN Len(words)
                                                  ELSE IF t = x.table THEN 1 ELSE 0
<1> DEFINE e == Entries(words, <<>>, <<x>>, failure)
<1>1. IsEntries(e) BY ShortSequences DEF IsEntries, Entries
<1>2. Takes(e, "GOT") = Len(words) /\ Takes(e, "PLT_GOT") = 0 /\ Takes(e, "DYNSYM") = 0
  <2>1. Takes(e, "GOT") = Len(words) /\ Takes(e, "PLT_GOT") = Len(<<>>) /\ Takes(e, "DYNSYM") = 0
    BY TakenParts
  <2>2. Len(<<>>) = 0 BY ShortSequences
  <2> HIDE DEF e
  <2> QED BY <2>1, <2>2
<1>3. \A t \in RelaTables : Takes(e, t) = IF t = x.table THEN 1 ELSE 0 BY TakenParts, TallyShort
<1> HIDE DEF e
<1>4. \A t \in Tables : Takes(e, t) = IF t = "GOT" THEN Len(words) ELSE IF t = x.table THEN 1 ELSE 0
  <2>1. x.table \notin {"GOT", "PLT_GOT", "DYNSYM"} BY DEF RelaTables
  <2>2. \A t \in Tables : t \in {"GOT", "PLT_GOT", "DYNSYM"} \/ t \in RelaTables BY DEF Tables, RelaTables
  <2>3. "GOT" \notin RelaTables BY DEF RelaTables
  <2> QED BY <1>2, <1>3, <2>1, <2>2, <2>3
<1> QED BY <1>1, <1>4 DEF e

LEMMA TakenByStub ==
    ASSUME NEW got
    PROVE  LET e == Entries(<<>>, <<got>>, <<>>, NoError)
           IN  IsEntries(e) /\ \A t \in Tables : Takes(e, t) = IF t = "PLT_GOT" THEN 1 ELSE 0
<1> DEFINE e == Entries(<<>>, <<got>>, <<>>, NoError)
<1>1. IsEntries(e) BY ShortSequences DEF IsEntries, Entries
<1>2. Takes(e, "GOT") = 0 /\ Takes(e, "PLT_GOT") = 1 /\ Takes(e, "DYNSYM") = 0
  <2>1. Takes(e, "GOT") = Len(<<>>) /\ Takes(e, "PLT_GOT") = Len(<<got>>) /\ Takes(e, "DYNSYM") = 0
    <3>1. \A words, stubs, rela :
            LET x == Entries(words, stubs, rela, NoError)
            IN  Takes(x, "GOT") = Len(words) /\ Takes(x, "PLT_GOT") = Len(stubs) /\ Takes(x, "DYNSYM") = 0
      BY TakenParts
    <3> QED BY <3>1, Zenon
  <2>2. Len(<<got>>) = 1 /\ Len(<<>>) = 0 BY ShortSequences
  <2> HIDE DEF e
  <2> QED BY <2>1, <2>2
<1>3. \A t \in RelaTables : Takes(e, t) = 0 BY TakenParts, TallyShort
<1> HIDE DEF e
<1>4. \A t \in Tables : Takes(e, t) = IF t = "PLT_GOT" THEN 1 ELSE 0
  BY <1>2, <1>3 DEF Tables, RelaTables
<1> QED BY <1>1, <1>4 DEF e

-----------------------------------------------------------------------------
(* What layout reserves for a symbol is what the writer takes for it.        *)

(* The flags of a symbol once scanning is over: FlagsAgree for one symbol.   *)
Agreed(f, o) ==
    /\ "PLT" \in f => "GOT" \in f
    /\ "IFUNC_GOT_FOR_ADDRESS" \in f => {"GOT", "PLT", "IFUNC"} \subseteq f /\ ~is_relocatable(o)
    /\ is_tls(f) => f \cap {"GOT", "PLT", "IFUNC", "IFUNC_GOT_FOR_ADDRESS"} = {}
    /\ "DYNAMIC" \in f => is_interposable(f) /\ "IFUNC" \notin f
    /\ is_interposable(f) => has_dynamic_symbol(f)

(* A resolution as create_resolution and update_dynamic_symbol_resolutions   *)
(* leave it, of a thread-local symbol that is defined.                       *)
LaidOut(x) ==
    /\ x.got = None <=> GotEntries(x.flags) = 0
    /\ x.plt = None <=> "PLT" \notin x.flags
    /\ has_dynamic_symbol(x.flags) => x.index # 0
    /\ is_tls(x.flags) /\ x.raw = Zero => "DYNAMIC" \in x.flags

(* The entries of TLS words: so many words, so many general relocations.     *)
TakesTls(e, words, relas) ==
    /\ IsEntries(e)
    /\ \A t \in Tables : Takes(e, t) = IF t = "GOT" THEN words ELSE IF t = "GENERAL" THEN relas ELSE 0

LEMMA TlsForms ==
    ASSUME NEW words, IsSequence(words), NEW failure
    PROVE  /\ TakesTls(Entries(words, <<>>, <<>>, failure), Len(words), 0)
           /\ \A kind, place, index, addend :
                TakesTls(Entries(words, <<>>, <<General(kind, place, index, addend)>>, failure), Len(words), 1)
<1>1. TakesTls(Entries(words, <<>>, <<>>, failure), Len(words), 0)
  BY TakenPlain DEF TakesTls
<1>2. ASSUME NEW kind, NEW place, NEW index, NEW addend
      PROVE  TakesTls(Entries(words, <<>>, <<General(kind, place, index, addend)>>, failure), Len(words), 1)
  <2> DEFINE x == General(kind, place, index, addend)
  <2>1. x.table = "GENERAL" /\ x.table \in RelaTables BY DEF General, Rela, RelaTables
  <2> HIDE DEF x
  <2>2. TakesTls(Entries(words, <<>>, <<x>>, failure), Len(words), 1)
    BY <2>1, TakenWithRela DEF TakesTls
  <2> QED BY <2>2 DEF x
<1> QED BY <1>1, <1>2

LEMMA TlsTogether ==
    ASSUME NEW a, NEW b, NEW m \in Nat, NEW n \in Nat, NEW i \in Nat, NEW j \in Nat,
           TakesTls(a, m, i), TakesTls(b, n, j)
    PROVE  TakesTls(Together(a, b), m + n, i + j)
<1>1. IsEntries(Together(a, b)) /\ \A t \in Tables : Takes(Together(a, b), t) = Takes(a, t) + Takes(b, t)
  BY TakenTogether DEF TakesTls
<1>2. \A t \in Tables : /\ Takes(a, t) = IF t = "GOT" THEN m ELSE IF t = "GENERAL" THEN i ELSE 0
                        /\ Takes(b, t) = IF t = "GOT" THEN n ELSE IF t = "GENERAL" THEN j ELSE 0
  BY DEF TakesTls
<1> QED BY <1>1, <1>2 DEF TakesTls

LEMMA TlsOffsetTakes ==
    ASSUME NEW x, NEW o, NEW got, Agreed(x.flags, o), LaidOut(x), is_tls(x.flags)
    PROVE  TakesTls(process_got_tls_offset(x, o, got), 1, Count(is_interposable(x.flags) \/ ~is_executable(o)))
<1> DEFINE f == x.flags
           e == process_got_tls_offset(x, o, got)
<1>w. \A w : IsSequence(<<w>>) /\ Len(<<w>>) = 1 BY ShortSequences
<1>1. CASE "DYNAMIC" \in f \/ ("EXPORT_DYNAMIC" \in f /\ is_interposable(f))
  <2>1. e = Entries(<<Zero>>, <<>>, <<General("TPOFF", GotPlace(got), x.index, Zero)>>, Indexed(x))
    BY <1>1 DEF process_got_tls_offset
  <2>2. TakesTls(e, 1, 1) BY <1>w, <2>1, TlsForms
  <2>3. is_interposable(f) BY <1>1 DEF Agreed
  <2> QED BY <2>2, <2>3 DEF Count
<1>2. CASE ~("DYNAMIC" \in f \/ ("EXPORT_DYNAMIC" \in f /\ is_interposable(f)))
  <2>1. x.raw # Zero /\ ~is_interposable(f) BY <1>2 DEF LaidOut, Agreed, has_dynamic_symbol
  <2>2. CASE is_executable(o)
    <3>1. e = Entries(<< <<"tpoff", x.raw[2]>> >>, <<>>, <<>>, NoError)
      BY <1>2, <2>1, <2>2 DEF process_got_tls_offset
    <3>2. TakesTls(e, 1, 0) BY <1>w, <3>1, TlsForms
    <3> QED BY <2>1, <2>2, <3>2 DEF Count
  <2>3. CASE ~is_executable(o)
    <3>1. e = Entries(<<Zero>>, <<>>, <<General("TPOFF", GotPlace(got), 0, InTls(x.raw))>>, NoError)
      BY <1>2, <2>1, <2>3 DEF process_got_tls_offset
    <3>2. TakesTls(e, 1, 1) BY <1>w, <3>1, TlsForms
    <3> QED BY <2>3, <3>2 DEF Count
  <2> QED BY <2>2, <2>3
<1> QED BY <1>1, <1>2

LEMMA TlsPairTakes ==
    ASSUME NEW x, NEW o, NEW got, Agreed(x.flags, o), LaidOut(x), is_tls(x.flags)
    PROVE  TakesTls(process_got_tls_mod_and_offset(x, o, got), 2,
                    Count(~is_executable(o) \/ "DYNAMIC" \in x.flags)
                        + Count(is_interposable(x.flags) /\ has_dynamic_symbol(x.flags)))
<1> DEFINE f == x.flags
           local == is_executable(o) /\ "DYNAMIC" \notin f
           module == IF local
                     THEN Entries(<<CURRENT_EXE_TLS_MOD>>, <<>>, <<>>, NoError)
                     ELSE Entries(<<Zero>>, <<>>, <<General("DTPMOD", GotPlace(got), x.index, Zero)>>, NoError)
           dtpoff == IF is_interposable(f)
                     THEN <<General("DTPOFF", GotPlace(got + 1), x.index, Zero)>> ELSE <<>>
           offset == IF x.index # 0 THEN Entries(<<Zero>>, <<>>, dtpoff, NoError)
                     ELSE Entries(<<InTls(x.raw)>>, <<>>, <<>>, IF is_address(f) THEN NoError ELSE "missing")
           i == Count(~is_executable(o) \/ "DYNAMIC" \in f)
           j == Count(is_interposable(f) /\ has_dynamic_symbol(f))
<1>w. \A w : IsSequence(<<w>>) /\ Len(<<w>>) = 1 BY ShortSequences
<1>1. TakesTls(module, 1, i)
  <2>1. CASE local
    <3>1. TakesTls(module, 1, 0) BY <1>w, <2>1, TlsForms
    <3> QED BY <2>1, <3>1 DEF Count
  <2>2. CASE ~local
    <3>1. TakesTls(module, 1, 1) BY <1>w, <2>2, TlsForms
    <3> QED BY <2>2, <3>1 DEF Count
  <2> QED BY <2>1, <2>2
<1>2. TakesTls(offset, 1, j)
  <2>1. CASE is_interposable(f)
    <3>1. x.index # 0 /\ has_dynamic_symbol(f) BY <2>1 DEF Agreed, LaidOut
    <3>2. offset = Entries(<<Zero>>, <<>>, <<General("DTPOFF", GotPlace(got + 1), x.index, Zero)>>, NoError)
      BY <2>1, <3>1
    <3>3. TakesTls(offset, 1, 1) BY <1>w, <3>2, TlsForms
    <3> QED BY <2>1, <3>1, <3>3 DEF Count
  <2>2. CASE ~is_interposable(f)
    <3>1. TakesTls(offset, 1, 0) BY <1>w, <2>2, TlsForms
    <3> QED BY <2>2, <3>1 DEF Count
  <2> QED BY <2>1, <2>2
<1>3. process_got_tls_mod_and_offset(x, o, got) = Together(module, offset)
  BY DEF process_got_tls_mod_and_offset
<1>4. i \in Nat /\ j \in Nat BY DEF Count
<1> HIDE DEF module, offset, i, j
<1>5. TakesTls(Together(module, offset), 1 + 1, i + j) BY <1>1, <1>2, <1>4, TlsTogether
<1> QED BY <1>3, <1>5 DEF i, j

LEMMA TlsDescriptorTakes ==
    ASSUME NEW x, NEW o, NEW got
    PROVE  TakesTls(process_got_tls_descriptor(x, o, got), 2, 1)
BY ShortSequences, TlsForms DEF process_got_tls_descriptor

LEMMA TlsEntriesTake ==
    ASSUME NEW x, NEW o, Agreed(x.flags, o), LaidOut(x), is_tls(x.flags)
    PROVE  TakesTls(TlsEntries(x, o),
                    Count("GOT_TLS_OFFSET" \in x.flags) + 2 * Count("GOT_TLS_MODULE" \in x.flags)
                        + 2 * Count("GOT_TLS_DESCRIPTOR" \in x.flags),
                    TlsGeneral(x.flags, o))
<1> DEFINE f == x.flags
           second == x.got + Count("GOT_TLS_OFFSET" \in f)
           third == second + 2 * Count("GOT_TLS_MODULE" \in f)
           a == IF "GOT_TLS_OFFSET" \in f THEN process_got_tls_offset(x, o, x.got) ELSE Nothing
           b == IF "GOT_TLS_MODULE" \in f THEN process_got_tls_mod_and_offset(x, o, second) ELSE Nothing
           c == IF "GOT_TLS_DESCRIPTOR" \in f THEN process_got_tls_descriptor(x, o, third) ELSE Nothing
           i == Count("GOT_TLS_OFFSET" \in f /\ (is_interposable(f) \/ ~is_executable(o)))
           j == Count("GOT_TLS_MODULE" \in f /\ (~is_executable(o) \/ "DYNAMIC" \in f))
                    + Count("GOT_TLS_MODULE" \in f /\ is_interposable(f) /\ has_dynamic_symbol(f))
           k == Count("GOT_TLS_DESCRIPTOR" \in f)
           m == Count("GOT_TLS_OFFSET" \in f)
           n == 2 * Count("GOT_TLS_MODULE" \in f)
<1>0. TakesTls(Nothing, 0, 0) BY TakenByNothing DEF TakesTls
<1>1. TakesTls(a, m, i)
  <2>1. CASE "GOT_TLS_OFFSET" \in f
    <3>1. TakesTls(a, 1, Count(is_interposable(f) \/ ~is_executable(o))) BY <2>1, TlsOffsetTakes
    <3> QED BY <2>1, <3>1 DEF Count
  <2>2. CASE "GOT_TLS_OFFSET" \notin f BY <1>0, <2>2 DEF Count
  <2> QED BY <2>1, <2>2
<1>2. TakesTls(b, n, j)
  <2>1. CASE "GOT_TLS_MODULE" \in f
    <3>1. TakesTls(b, 2, Count(~is_executable(o) \/ "DYNAMIC" \in f)
                            + Count(is_interposable(f) /\ has_dynamic_symbol(f)))
      BY <2>1, TlsPairTakes
    <3> QED BY <2>1, <3>1 DEF Count
  <2>2. CASE "GOT_TLS_MODULE" \notin f BY <1>0, <2>2 DEF Count
  <2> QED BY <2>1, <2>2
<1>3. TakesTls(c, 2 * k, k)
  <2>1. CASE "GOT_TLS_DESCRIPTOR" \in f
    <3>1. TakesTls(c, 2, 1) BY <2>1, TlsDescriptorTakes
    <3> QED BY <2>1, <3>1 DEF Count
  <2>2. CASE "GOT_TLS_DESCRIPTOR" \notin f BY <1>0, <2>2 DEF Count
  <2> QED BY <2>1, <2>2
<1>4. i \in Nat /\ j \in Nat /\ k \in Nat /\ m \in Nat /\ n \in Nat BY DEF Count
<1>5. TlsEntries(x, o) = Together(Together(a, b), c) BY DEF TlsEntries
<1>6. TlsGeneral(f, o) = i + j + k
  <2>1. /\ Count("GOT_TLS_MODULE" \in f /\ (~is_executable(o) \/ "DYNAMIC" \in f)) \in Nat
        /\ Count("GOT_TLS_MODULE" \in f /\ is_interposable(f) /\ has_dynamic_symbol(f)) \in Nat
    BY DEF Count
  <2> QED BY <1>4, <2>1 DEF TlsGeneral
<1>7. TakesTls(Together(Together(a, b), c), m + n + 2 * k, i + j + k)
  <2> HIDE DEF a, b, c, i, j, k, m, n
  <2>1. TakesTls(Together(a, b), m + n, i + j) BY <1>1, <1>2, <1>4, TlsTogether
  <2>2. m + n \in Nat /\ i + j \in Nat /\ 2 * k \in Nat BY <1>4
  <2> QED BY <1>3, <1>4, <2>1, <2>2, TlsTogether
<1> QED BY <1>5, <1>6, <1>7

(* A word of the GOT and a relocation in a table.                           *)
TakesWord(e, table) ==
    /\ IsEntries(e)
    /\ \A t \in Tables : Takes(e, t) = IF t = "GOT" THEN 1 ELSE IF t = table THEN 1 ELSE 0

LEMMA WordWithRela ==
    ASSUME NEW w, NEW r, NEW table \in RelaTables, r.table = table, NEW failure
    PROVE  TakesWord(Entries(<<w>>, <<>>, <<r>>, failure), table)
<1> DEFINE words == <<w>>
<1>1. IsSequence(words) /\ Len(words) = 1 BY ShortSequences
<1> HIDE DEF words
<1>2. TakesWord(Entries(words, <<>>, <<r>>, failure), table) BY <1>1, TakenWithRela DEF TakesWord
<1> QED BY <1>2 DEF words

(* The words, stubs and relocations of an entry that is not thread-local.    *)
LEMMA GotEntryTakes ==
    ASSUME NEW x, NEW o, NEW packed \in BOOLEAN, Agreed(x.flags, o), LaidOut(x)
    PROVE  LET f == x.flags
               e == GotEntry(x, o, packed)
               symbolic == "IFUNC" \notin f /\ is_interposable(f) /\ has_dynamic_symbol(f)
               relative == is_relocatable(o) /\ "IFUNC" \notin f /\ ~symbolic /\ is_address(f)
           IN  /\ IsEntries(e)
               /\ \A t \in Tables : Takes(e, t) =
                    CASE t = "GOT" -> 1
                      [] t = "GENERAL" -> Count(symbolic)
                      [] t = "RELA_PLT" -> Count("IFUNC" \in f)
                      [] t = "RELR" -> Count(relative /\ packed)
                      [] t = "RELATIVE" -> Count(relative /\ ~packed)
                      [] OTHER -> 0
<1> DEFINE f == x.flags
           e == GotEntry(x, o, packed)
           symbolic == "IFUNC" \notin f /\ is_interposable(f) /\ has_dynamic_symbol(f)
           relative == is_relocatable(o) /\ "IFUNC" \notin f /\ ~symbolic /\ is_address(f)
           place == GotPlace(x.got)
<1>w. \A w : IsSequence(<<w>>) /\ Len(<<w>>) = 1 BY ShortSequences
<1>s. symbolic <=> "DYNAMIC" \in f \/ ("EXPORT_DYNAMIC" \in f /\ is_interposable(f) /\ "IFUNC" \notin f)
  BY DEF Agreed, has_dynamic_symbol
<1>1. CASE symbolic
  <2> DEFINE r == General("SYMBOL", place, x.index, Zero)
  <2>1. e = Entries(<<Zero>>, <<>>, <<r>>, Indexed(x)) BY <1>1, <1>s DEF GotEntry
  <2>2. r.table = "GENERAL" BY DEF General, Rela
  <2> HIDE DEF r
  <2>3. TakesWord(e, "GENERAL") BY <2>1, <2>2, WordWithRela DEF RelaTables
  <2> QED BY <1>1, <2>3 DEF Count, TakesWord
<1>2. CASE ~symbolic /\ "IFUNC" \in f
  <2> DEFINE r == Rela("RELA_PLT", "IRELATIVE", place, 0, x.raw)
  <2>1. e = Entries(<<Zero>>, <<>>, <<r>>, NoError) BY <1>2, <1>s DEF GotEntry
  <2>2. r.table = "RELA_PLT" BY DEF Rela
  <2> HIDE DEF r
  <2>3. TakesWord(e, "RELA_PLT") BY <2>1, <2>2, WordWithRela DEF RelaTables
  <2> QED BY <1>2, <2>3 DEF Count, TakesWord
<1>3. CASE relative
  <2> DEFINE r == AddressRela(place, x.raw, packed)
  <2>1. e = Entries(<<AddressWord(x.raw, packed)>>, <<>>, <<r>>, NoError) BY <1>3, <1>s DEF GotEntry
  <2>2. r.table = IF packed THEN "RELR" ELSE "RELATIVE" BY DEF AddressRela, Rela
  <2> HIDE DEF r
  <2>3. r.table \in RelaTables BY <2>2 DEF RelaTables
  <2>4. TakesWord(e, r.table) BY <2>1, <2>3, WordWithRela
  <2> QED BY <1>3, <2>2, <2>4 DEF Count, TakesWord
<1>4. CASE ~symbolic /\ "IFUNC" \notin f /\ ~relative
  <2>1. e = Entries(<<x.raw>>, <<>>, <<>>, NoError) BY <1>4, <1>s DEF GotEntry
  <2>2. IsEntries(e) /\ \A t \in Tables : Takes(e, t) = IF t = "GOT" THEN 1 ELSE 0
    BY <1>w, <2>1, TakenPlain
  <2> QED BY <1>4, <2>2 DEF Count
<1> QED BY <1>1, <1>2, <1>3, <1>4

LEMMA IfuncGotEntryTakes ==
    ASSUME NEW x, NEW o, NEW packed \in BOOLEAN, Agreed(x.flags, o), LaidOut(x)
    PROVE  LET e == IfuncGotEntry(x, o, packed)
           IN  /\ IsEntries(e)
               /\ \A t \in Tables : Takes(e, t) =
                    IF t = "GOT" THEN Count("IFUNC_GOT_FOR_ADDRESS" \in x.flags) ELSE 0
<1> DEFINE e == IfuncGotEntry(x, o, packed)
<1>1. CASE "IFUNC_GOT_FOR_ADDRESS" \notin x.flags
  <2>1. e = Nothing BY <1>1 DEF IfuncGotEntry
  <2> QED BY <1>1, <2>1, TakenByNothing DEF Count
<1>2. CASE "IFUNC_GOT_FOR_ADDRESS" \in x.flags
  <2>1. x.plt # None /\ ~is_relocatable(o) BY <1>2 DEF Agreed, LaidOut
  <2>2. e = Entries(<< <<"plt", x.plt>> >>, <<>>, <<>>, NoError) BY <1>2, <2>1 DEF IfuncGotEntry
  <2>3. IsSequence(<< <<"plt", x.plt>> >>) /\ Len(<< <<"plt", x.plt>> >>) = 1 BY ShortSequences
  <2>4. IsEntries(e) /\ \A t \in Tables : Takes(e, t) = IF t = "GOT" THEN 1 ELSE 0
    BY <2>2, <2>3, TakenPlain
  <2> QED BY <1>2, <2>4 DEF Count
<1> QED BY <1>1, <1>2

(* allocate_resolution table by table.                                       *)
LEMMA AllocatedByTable ==
    ASSUME NEW f, NEW o, NEW packed
    PROVE  LET a == allocate_resolution(f, o, packed)
               got == "GOT" \in f /\ ~is_tls(f)
               symbolic == is_interposable(f) /\ has_dynamic_symbol(f)
               relative == is_relocatable(o) /\ got /\ "IFUNC" \notin f /\ ~symbolic /\ is_address(f)
               equal == "IFUNC_GOT_FOR_ADDRESS" \in f
               relatives == Count(relative) + Count(equal /\ is_relocatable(o))
           IN  /\ a["GOT"] = Count(got) + Count(equal) + Count("GOT_TLS_OFFSET" \in f)
                                + 2 * Count("GOT_TLS_MODULE" \in f) + 2 * Count("GOT_TLS_DESCRIPTOR" \in f)
               /\ a["PLT_GOT"] = Count(got /\ "PLT" \in f)
               /\ a["RELA_PLT"] = Count(got /\ "IFUNC" \in f)
               /\ a["GENERAL"] = Count(got /\ "IFUNC" \notin f /\ symbolic) + TlsGeneral(f, o)
               /\ a["RELATIVE"] = IF packed THEN 0 ELSE relatives
               /\ a["RELR"] = IF packed THEN relatives ELSE 0
               /\ a["DYNSYM"] = 0
BY DEF allocate_resolution

LEMMA ResolutionTakes ==
    ASSUME NEW x, NEW o, NEW packed \in BOOLEAN, Agreed(x.flags, o), LaidOut(x)
    PROVE  \A t \in Tables : Takes(process_resolution(x, o, packed), t)
                                = allocate_resolution(x.flags, o, packed)[t]
<1> DEFINE f == x.flags
           e == process_resolution(x, o, packed)
           a == allocate_resolution(f, o, packed)
<1>1. CASE x.got = None
  <2>1. f \cap {"PLT", "GOT", "IFUNC_GOT_FOR_ADDRESS"} = {} /\ ~is_tls(f)
    BY <1>1 DEF LaidOut, Agreed, GotEntries, Count, is_tls
  <2>2. \A t \in Tables : a[t] = 0
    <3>1. /\ "GOT" \notin f /\ "IFUNC_GOT_FOR_ADDRESS" \notin f
          /\ "GOT_TLS_OFFSET" \notin f /\ "GOT_TLS_MODULE" \notin f /\ "GOT_TLS_DESCRIPTOR" \notin f
      BY <2>1 DEF is_tls
    <3>2. TlsGeneral(f, o) = 0 BY <3>1 DEF TlsGeneral, Count
    <3> HIDE DEF f
    <3>3. /\ a["GOT"] = 0 /\ a["PLT_GOT"] = 0 /\ a["RELA_PLT"] = 0 /\ a["GENERAL"] = 0
          /\ a["RELATIVE"] = 0 /\ a["RELR"] = 0 /\ a["DYNSYM"] = 0
      BY <3>1, <3>2, AllocatedByTable DEF Count
    <3> HIDE DEF a
    <3> QED BY <3>3 DEF Tables
  <2>3. e = Nothing BY <1>1 DEF process_resolution
  <2> QED BY <2>2, <2>3, TakenByNothing
<1>2. CASE x.got # None /\ is_tls(f)
  <2> DEFINE words == Count("GOT_TLS_OFFSET" \in f) + 2 * Count("GOT_TLS_MODULE" \in f)
                        + 2 * Count("GOT_TLS_DESCRIPTOR" \in f)
  <2>1. e = TlsEntries(x, o) BY <1>2 DEF process_resolution
  <2>2. TakesTls(e, words, TlsGeneral(f, o)) BY <1>2, <2>1, TlsEntriesTake
  <2>3. f \cap {"GOT", "PLT", "IFUNC", "IFUNC_GOT_FOR_ADDRESS"} = {} BY <1>2 DEF Agreed
  <2>4. TlsGeneral(f, o) \in Nat BY DEF TlsGeneral, Count
  <2>5. \A t \in Tables : a[t] = IF t = "GOT" THEN words ELSE IF t = "GENERAL" THEN TlsGeneral(f, o) ELSE 0
    <3>1. "GOT" \notin f /\ "IFUNC_GOT_FOR_ADDRESS" \notin f BY <2>3
    <3> HIDE DEF f
    <3>2. /\ a["GOT"] = words /\ a["PLT_GOT"] = 0 /\ a["RELA_PLT"] = 0 /\ a["GENERAL"] = TlsGeneral(f, o)
          /\ a["RELATIVE"] = 0 /\ a["RELR"] = 0 /\ a["DYNSYM"] = 0
      BY <2>4, <3>1, AllocatedByTable DEF Count
    <3> HIDE DEF a, words
    <3> QED BY <3>2 DEF Tables
  <2> QED BY <2>2, <2>5 DEF TakesTls
<1>3. CASE x.got # None /\ ~is_tls(f)
  <2> DEFINE g == GotEntry(x, o, packed)
             s == IF x.plt = None THEN Nothing ELSE Entries(<<>>, <<x.got>>, <<>>, NoError)
             i == IfuncGotEntry(x, o, packed)
             symbolic == "IFUNC" \notin f /\ is_interposable(f) /\ has_dynamic_symbol(f)
             relative == is_relocatable(o) /\ "IFUNC" \notin f /\ ~symbolic /\ is_address(f)
             equal == "IFUNC_GOT_FOR_ADDRESS" \in f
  <2>1. e = Together(g, Together(s, i)) BY <1>3 DEF process_resolution
  <2>2. IsEntries(s) /\ \A t \in Tables : Takes(s, t) = IF t = "PLT_GOT" THEN Count("PLT" \in f) ELSE 0
    <3>1. CASE "PLT" \in f
      <4>1. s = Entries(<<>>, <<x.got>>, <<>>, NoError) BY <3>1 DEF LaidOut
      <4> QED BY <3>1, <4>1, TakenByStub DEF Count
    <3>2. CASE "PLT" \notin f
      <4>1. s = Nothing BY <3>2 DEF LaidOut
      <4> QED BY <3>2, <4>1, TakenByNothing DEF Count
    <3> QED BY <3>1, <3>2
  <2>3. IsEntries(i) /\ \A t \in Tables : Takes(i, t) = IF t = "GOT" THEN Count(equal) ELSE 0
    BY IfuncGotEntryTakes
  <2>4. /\ IsEntries(g)
        /\ \A t \in Tables : Takes(g, t) =
                    CASE t = "GOT" -> 1
                      [] t = "GENERAL" -> Count(symbolic)
                      [] t = "RELA_PLT" -> Count("IFUNC" \in f)
                      [] t = "RELR" -> Count(relative /\ packed)
                      [] t = "RELATIVE" -> Count(relative /\ ~packed)
                      [] OTHER -> 0
    BY GotEntryTakes
  <2>5. \A t \in Tables : Takes(e, t) = Takes(g, t) + (Takes(s, t) + Takes(i, t))
    <3> HIDE DEF g, s, i, e
    <3>1. IsEntries(Together(s, i)) /\ \A t \in Tables : Takes(Together(s, i), t) = Takes(s, t) + Takes(i, t)
      BY <2>2, <2>3, TakenTogether
    <3>2. \A t \in Tables : Takes(Together(g, Together(s, i)), t) = Takes(g, t) + Takes(Together(s, i), t)
      BY <2>4, <3>1, TakenTogether
    <3> QED BY <2>1, <3>1, <3>2
  <2>6. "GOT" \in f
    BY <1>3 DEF LaidOut, GotEntries, Agreed, Count
  <2>7. equal => ~is_relocatable(o) BY DEF Agreed
  <2>8. f \cap {"GOT_TLS_OFFSET", "GOT_TLS_MODULE", "GOT_TLS_DESCRIPTOR"} = {} BY <1>3 DEF is_tls
  <2>9. \A t \in Tables : a[t] =
                    CASE t = "GOT" -> 1 + Count(equal)
                      [] t = "PLT_GOT" -> Count("PLT" \in f)
                      [] t = "GENERAL" -> Count(symbolic)
                      [] t = "RELA_PLT" -> Count("IFUNC" \in f)
                      [] t = "RELR" -> Count(relative /\ packed)
                      [] t = "RELATIVE" -> Count(relative /\ ~packed)
                      [] OTHER -> 0
    <3>1. TlsGeneral(f, o) = 0 BY <2>8 DEF TlsGeneral, Count
    <3>2. ~is_tls(f) BY <1>3
    <3>3. /\ "GOT_TLS_OFFSET" \notin f /\ "GOT_TLS_MODULE" \notin f /\ "GOT_TLS_DESCRIPTOR" \notin f BY <2>8
    <3> HIDE DEF f
    <3>4. a["GOT"] = 1 + Count(equal) BY <2>6, <3>2, <3>3, AllocatedByTable DEF Count
    <3>5. a["PLT_GOT"] = Count("PLT" \in f) /\ a["RELA_PLT"] = Count("IFUNC" \in f) /\ a["DYNSYM"] = 0
      BY <2>6, <3>2, AllocatedByTable DEF Count
    <3>6. a["GENERAL"] = Count(symbolic) BY <2>6, <3>1, <3>2, AllocatedByTable DEF Count
    <3>7. a["RELR"] = Count(relative /\ packed) /\ a["RELATIVE"] = Count(relative /\ ~packed)
      BY <2>6, <2>7, <3>2, AllocatedByTable DEF Count
    <3> HIDE DEF a, symbolic, relative, equal
    <3> QED BY <3>4, <3>5, <3>6, <3>7 DEF Tables
  <2> HIDE DEF g, s, i, e, a, symbolic, relative, equal
  <2>a. \A t \in Tables : Takes(e, t) = a[t]
    BY <2>2, <2>3, <2>4, <2>5, <2>9 DEF Count, Tables
  <2> QED BY <2>a DEF e, a
<1> QED BY <1>1, <1>2, <1>3

=============================================================================
