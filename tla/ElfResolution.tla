--------------------------- MODULE ElfResolution ---------------------------
(***************************************************************************)
(* What the ELF platform decides from the flags of one symbol: how a          *)
(* relocation against it is relaxed and which flags it asks for, how many     *)
(* entries of .got, .plt.got, .rela.plt, .rela.dyn, .relr.dyn and .dynsym     *)
(* layout reserves for the symbol, where its resolution says they are, and    *)
(* which entries the writer puts there.  ElfTables runs these decisions       *)
(* against each other over a whole link.                                      *)
(*                                                                         *)
(* A value is a pair of a tag and what it is the value of: <<"addr", s>> is  *)
(* the link-time address of symbol s, <<"plt", n>> and <<"got", n>> those of *)
(* the n-th entries, <<"copy", a>> the copy of the object at address a of    *)
(* the shared object.                                                       *)
(***************************************************************************)
EXTENDS Integers, Sequences, FiniteSets

Tables == {"GOT", "PLT_GOT", "RELA_PLT", "GENERAL", "RELATIVE", "RELR", "DYNSYM"}

NoError == "none"
Zero == <<"abs", 0>>
CURRENT_EXE_TLS_MOD == <<"module", 1>>

-----------------------------------------------------------------------------
(* Output kinds and flags.                                                  *)

is_static_executable(o) == o \in {"static", "static_pie"}
is_executable(o) == o # "shared"
is_relocatable(o) == o \in {"static_pie", "pie", "shared"}
needs_dynsym(o) == o # "static"

Needs == {"DIRECT", "GOT", "PLT", "GOT_TLS_MODULE", "GOT_TLS_OFFSET", "GOT_TLS_DESCRIPTOR",
          "EXPORT_DYNAMIC", "COPY_RELOCATION", "IFUNC_GOT_FOR_ADDRESS"}
Given == {"ABSOLUTE", "DYNAMIC", "IFUNC", "NON_INTERPOSABLE", "FUNCTION"}

has_resolution(f) == f \cap Needs # {}
is_address(f) == f \cap {"IFUNC", "DYNAMIC", "ABSOLUTE"} = {}
is_interposable(f) == "NON_INTERPOSABLE" \notin f
is_tls(f) == f \cap {"GOT_TLS_OFFSET", "GOT_TLS_MODULE", "GOT_TLS_DESCRIPTOR"} # {}
has_dynamic_symbol(f) == f \cap {"DYNAMIC", "EXPORT_DYNAMIC"} # {}

-----------------------------------------------------------------------------
(* Relocations.  r.form says what the instruction is that the relocation     *)
(* belongs to; a sequence the linker does not recognise is "other".          *)

KindOf == [R_64 |-> "Absolute", R_32 |-> "Absolute", PC32 |-> "Relative", PLT32 |-> "PltRelative",
           GOTPCREL |-> "GotRelative", GOTPCRELX |-> "GotRelative", REX_GOTPCRELX |-> "GotRelative",
           GOTTPOFF |-> "GotTpOff", TPOFF32 |-> "TpOff", DTPOFF32 |-> "DtpOff", TLSGD |-> "TlsGd",
           TLSLD |-> "TlsLd", TLSDESC |-> "TlsDesc", CODE_4_TLSDESC |-> "TlsDesc", TLSDESC_CALL |-> "TlsDescCall",
           NONE |-> "None"]

TlsKinds == {"DtpOff", "GotTpOff", "TlsDesc", "TlsDescCall", "TlsGd", "TlsLd", "TpOff"}

Relaxation(type, mandatory, skip) ==
    {[type |-> type, mandatory |-> mandatory, skip |-> skip]}

\* Loads from the GOT of what is known become constants or addresses.
got_relaxation(r, f, o) ==
    LET static == is_static_executable(o)
        bound == ~is_interposable(f)
        constant == \/ "ABSOLUTE" \in f /\ "DYNAMIC" \notin f
                    \/ is_address(f) /\ ~is_relocatable(o)
    IN  CASE r.type = "GOTPCREL" ->
                IF r.form = "mov" /\ bound THEN Relaxation("PC32", FALSE, FALSE) ELSE {}
          [] r.type = "GOTPCRELX" /\ r.form = "call" ->
                IF bound THEN Relaxation("PC32", static, FALSE) ELSE {}
          [] r.type = "REX_GOTPCRELX" /\ r.form = "sub" ->
                IF constant THEN Relaxation("R_32", static, FALSE) ELSE {}
          [] r.type # "GOTPCREL" /\ r.form = "mov" ->
                IF constant THEN Relaxation("R_32", static, FALSE)
                ELSE IF bound THEN Relaxation("PC32", static, FALSE) ELSE {}
          [] OTHER -> {}

\* Executables know where their own variables are in the TLS block, and that
\* those of shared objects are in the static part of it.
tls_relaxation(r, f, o) ==
    LET static == is_static_executable(o)
        bound == ~is_interposable(f)
    IN  CASE ~is_executable(o) \/ (r.form = "other" /\ r.type # "TLSDESC_CALL") -> {}
          [] r.type = "GOTTPOFF" -> IF bound THEN Relaxation("TPOFF32", FALSE, FALSE) ELSE {}
          [] r.type = "TLSGD" ->
                IF bound THEN Relaxation("TPOFF32", static, TRUE)
                ELSE IF r.form # "large" THEN Relaxation("GOTTPOFF", FALSE, TRUE) ELSE {}
          [] r.type = "TLSLD" -> Relaxation("NONE", static, TRUE)
          [] r.type = "TLSDESC" -> Relaxation(IF bound THEN "TPOFF32" ELSE "GOTTPOFF", static, FALSE)
          [] r.type = "CODE_4_TLSDESC" -> IF bound THEN Relaxation("TPOFF32", static, FALSE) ELSE {}
          [] r.type = "TLSDESC_CALL" -> Relaxation("NONE", static, FALSE)
          [] OTHER -> {}

\* The relaxation of a relocation, if there is one.
new_relaxation(r, f, o) ==
    CASE "IFUNC" \in f -> IF r.type = "PC32" THEN Relaxation("PLT32", TRUE, FALSE) ELSE {}
      [] "IFUNC" \notin f /\ ~r.exec -> {}
      [] OTHER ->
         CASE r.type = "PLT32" ->
                IF is_interposable(f) THEN {} ELSE Relaxation("PC32", is_static_executable(o), FALSE)
           [] r.type \in {"GOTPCREL", "GOTPCRELX", "REX_GOTPCRELX"} -> got_relaxation(r, f, o)
           [] OTHER -> tls_relaxation(r, f, o)

\* What is left of a relocation: its kind, and whether the relocation after it
\* (the call of __tls_get_addr) is to be skipped.
Relaxed(r, f, o, relax) ==
    LET applied == {x \in new_relaxation(r, f, o) : relax \/ x.mandatory}
    IN  IF applied = {} THEN [kind |-> KindOf[r.type], skip |-> FALSE]
        ELSE LET x == CHOOSE x \in applied : TRUE IN [kind |-> KindOf[x.type], skip |-> x.skip]

resolution_flags(kind) ==
    CASE kind = "PltRelative" -> {"PLT", "GOT"}
      [] kind = "GotRelative" -> {"GOT"}
      [] kind = "GotTpOff" -> {"GOT_TLS_OFFSET"}
      [] kind = "TlsGd" -> {"GOT_TLS_MODULE"}
      [] kind \in {"TlsDesc", "TlsDescCall"} -> {"GOT_TLS_DESCRIPTOR"}
      [] kind \in {"TlsLd", "None"} -> {}
      [] kind \in {"Absolute", "Relative", "DtpOff", "TpOff"} -> {"DIRECT"}

-----------------------------------------------------------------------------
(* Scanning: what a relocation reserves and asks for.                        *)

Direct(kind) == kind \notin TlsKinds /\ "DIRECT" \in resolution_flags(kind)

\* A direct reference from a read-only section to what the dynamic linker
\* provides goes to a PLT entry or needs a copy of the object.
ViaPlt(r, kind, f) == Direct(kind) /\ is_interposable(f) /\ ~r.write /\ "FUNCTION" \in f
NeedsCopy(r, kind, f) ==
    Direct(kind) /\ is_interposable(f) /\ ~r.write /\ f \cap {"FUNCTION", "ABSOLUTE"} = {}

\* The table in which a relocation reserves an entry for itself, if any.
Reserved(r, kind, f, o, relr) ==
    IF Direct(kind) /\ is_interposable(f)
    THEN IF r.write THEN {"GENERAL"} ELSE {}
    ELSE IF ~is_relocatable(o) \/ kind # "Absolute" \/ ~r.write THEN {}
    ELSE IF "IFUNC" \in f THEN {"GENERAL"}
    ELSE IF ~is_address(f) THEN {}
    ELSE IF relr /\ ~r.odd THEN {"RELR"} ELSE {"RELATIVE"}

\* (mutant) A reference through the GOT does not ask for the entry that holds
\* the address of the stub.
FlagsToAdd_resolved(r, kind, f, o) ==
    LET own == IF ViaPlt(r, kind, f) THEN {"PLT", "GOT"}
               ELSE IF NeedsCopy(r, kind, f) THEN resolution_flags(kind) \cup {"COPY_RELOCATION"}
               ELSE resolution_flags(kind)
    IN  own \cup IF "IFUNC" \in f /\ ~is_static_executable(o) THEN {"GOT", "PLT"} ELSE {}

FlagsToAdd(r, kind, f, o) ==
    LET own == IF ViaPlt(r, kind, f) THEN {"PLT", "GOT"}
               ELSE IF NeedsCopy(r, kind, f) THEN resolution_flags(kind) \cup {"COPY_RELOCATION"}
               ELSE resolution_flags(kind)
        stub == IF "IFUNC" \in f /\ ~is_static_executable(o) THEN {"GOT", "PLT"} ELSE {}
        equal == IF "IFUNC" \in f /\ "GOT" \in own /\ ~is_relocatable(o)
                 THEN {"IFUNC_GOT_FOR_ADDRESS"} ELSE {}
    IN  own \cup stub \cup equal

\* (mutant) Nothing: as if every reference to an ifunc went through the GOT.
FirstReference_never(f, o) == {}

\* What the first reference to an ifunc adds in a static executable.
FirstReference(f, o) ==
    IF ~has_resolution(f) /\ "IFUNC" \in f /\ is_static_executable(o) THEN {"GOT", "PLT"} ELSE {}

\* Relocations the linker refuses.
Refused(r, kind, f, o, copy) ==
    \/ NeedsCopy(r, kind, f) /\ ~copy
    \/ /\ is_relocatable(o) /\ kind = "Absolute" /\ is_address(f) /\ ~r.write
       /\ ~(Direct(kind) /\ is_interposable(f))

-----------------------------------------------------------------------------
(* What layout reserves for a symbol, and its resolution.                    *)

Count(b) == IF b THEN 1 ELSE 0

\* (mutant) TLS words of an executable never need the dynamic linker.
TlsGeneral_local(f, o) ==
    IF is_executable(o) THEN 0
    ELSE Count("GOT_TLS_OFFSET" \in f) + Count("GOT_TLS_MODULE" \in f) + Count("GOT_TLS_DESCRIPTOR" \in f)
            + Count("GOT_TLS_MODULE" \in f /\ is_interposable(f) /\ has_dynamic_symbol(f))

\* Relocations for the TLS words of a symbol.
TlsGeneral(f, o) ==
    LET module == "GOT_TLS_MODULE" \in f IN
    Count("GOT_TLS_OFFSET" \in f /\ (is_interposable(f) \/ ~is_executable(o)))
        + Count(module /\ (~is_executable(o) \/ "DYNAMIC" \in f))
        + Count(module /\ is_interposable(f) /\ has_dynamic_symbol(f))
        + Count("GOT_TLS_DESCRIPTOR" \in f)

allocate_resolution(f, o, relr) ==
    LET got == "GOT" \in f /\ ~is_tls(f)
        symbolic == is_interposable(f) /\ has_dynamic_symbol(f)
        relative == is_relocatable(o) /\ got /\ "IFUNC" \notin f /\ ~symbolic /\ is_address(f)
        equal == "IFUNC_GOT_FOR_ADDRESS" \in f
        relatives == Count(relative) + Count(equal /\ is_relocatable(o))
    IN  [GOT |-> Count(got) + Count(equal) + Count("GOT_TLS_OFFSET" \in f)
                    + 2 * Count("GOT_TLS_MODULE" \in f) + 2 * Count("GOT_TLS_DESCRIPTOR" \in f),
         PLT_GOT |-> Count(got /\ "PLT" \in f),
         RELA_PLT |-> Count(got /\ "IFUNC" \in f),
         GENERAL |-> Count(got /\ "IFUNC" \notin f /\ symbolic) + TlsGeneral(f, o),
         RELATIVE |-> IF relr THEN 0 ELSE relatives,
         RELR |-> IF relr THEN relatives ELSE 0,
         DYNSYM |-> 0]

\* A symbol that the dynamic linker is to look up, but not define.
TakesDynsym(f) == "DYNAMIC" \in f /\ has_resolution(f) /\ "COPY_RELOCATION" \notin f

GotEntries(f) ==
    IF "PLT" \in f THEN 1 + Count("IFUNC_GOT_FOR_ADDRESS" \in f)
    ELSE IF is_tls(f) THEN Count("GOT_TLS_OFFSET" \in f) + 2 * Count("GOT_TLS_MODULE" \in f)
                            + 2 * Count("GOT_TLS_DESCRIPTOR" \in f)
    ELSE Count("GOT" \in f)

None == -1

\* offset: the group's offsets. Index 0, the null symbol, is no index.
create_resolution(f, raw, offset) ==
    [flags |-> f,
     raw |-> IF f \cap {"PLT", "DYNAMIC"} = {"PLT", "DYNAMIC"} THEN <<"plt", offset["PLT_GOT"]>> ELSE raw,
     index |-> IF TakesDynsym(f) THEN offset["DYNSYM"] ELSE 0,
     plt |-> IF "PLT" \in f THEN offset["PLT_GOT"] ELSE None,
     got |-> IF GotEntries(f) > 0 THEN offset["GOT"] ELSE None]

-----------------------------------------------------------------------------
(* Writing.  What a step takes from the tables of its group: GOT words, PLT  *)
(* stubs (each with the GOT entry it jumps through) and relocations.         *)

Entries(words, stubs, rela, failure) ==
    [words |-> words, stubs |-> stubs, rela |-> rela, failure |-> failure]
Nothing == Entries(<<>>, <<>>, <<>>, NoError)
Together(a, b) == Entries(a.words \o b.words, a.stubs \o b.stubs, a.rela \o b.rela,
                          IF a.failure # NoError THEN a.failure ELSE b.failure)

Rela(table, kind, place, index, addend) ==
    [table |-> table, kind |-> kind, place |-> place, index |-> index, addend |-> addend]
General(kind, place, index, addend) == Rela("GENERAL", kind, place, index, addend)

\* A relocation against a dynamic symbol needs the symbol's index.
Indexed(x) == IF x.index = 0 THEN "missing" ELSE NoError

\* write_address_relocation: the relocation, and the word left at the place.
AddressRela(place, value, packed) ==
    IF packed THEN Rela("RELR", "RELR", place, 0, Zero) ELSE Rela("RELATIVE", "RELATIVE", place, 0, value)
AddressWord(value, packed) == IF packed THEN value ELSE Zero

InTls(value) == <<"tlsoff", value[2]>>
GotPlace(n) == <<"got", n>>

process_got_tls_offset(x, o, got) ==
    IF "DYNAMIC" \in x.flags \/ ("EXPORT_DYNAMIC" \in x.flags /\ is_interposable(x.flags))
    THEN Entries(<<Zero>>, <<>>, <<General("TPOFF", GotPlace(got), x.index, Zero)>>, Indexed(x))
    ELSE IF x.raw = Zero THEN Entries(<<Zero>>, <<>>, <<>>, NoError)
    ELSE IF is_executable(o) THEN Entries(<< <<"tpoff", x.raw[2]>> >>, <<>>, <<>>, NoError)
    ELSE Entries(<<Zero>>, <<>>, <<General("TPOFF", GotPlace(got), 0, InTls(x.raw))>>, NoError)

process_got_tls_mod_and_offset(x, o, got) ==
    LET module == IF is_executable(o) /\ "DYNAMIC" \notin x.flags
                  THEN Entries(<<CURRENT_EXE_TLS_MOD>>, <<>>, <<>>, NoError)
                  ELSE Entries(<<Zero>>, <<>>, <<General("DTPMOD", GotPlace(got), x.index, Zero)>>, NoError)
        dtpoff == IF is_interposable(x.flags)
                  THEN <<General("DTPOFF", GotPlace(got + 1), x.index, Zero)>> ELSE <<>>
        offset == IF x.index # 0 THEN Entries(<<Zero>>, <<>>, dtpoff, NoError)
                  ELSE Entries(<<InTls(x.raw)>>, <<>>, <<>>, IF is_address(x.flags) THEN NoError ELSE "missing")
    IN  Together(module, offset)

process_got_tls_descriptor(x, o, got) ==
    Entries(<<Zero, Zero>>, <<>>,
            <<General("TLSDESC", GotPlace(got), x.index, IF x.index = 0 THEN InTls(x.raw) ELSE Zero)>>,
            IF is_static_executable(o) THEN "refused" ELSE NoError)

TlsEntries(x, o) ==
    LET second == x.got + Count("GOT_TLS_OFFSET" \in x.flags)
        third == second + 2 * Count("GOT_TLS_MODULE" \in x.flags)
        part(flag, e) == IF flag \in x.flags THEN e ELSE Nothing
    IN  Together(Together(part("GOT_TLS_OFFSET", process_got_tls_offset(x, o, x.got)),
                          part("GOT_TLS_MODULE", process_got_tls_mod_and_offset(x, o, second))),
                 part("GOT_TLS_DESCRIPTOR", process_got_tls_descriptor(x, o, third)))

GotEntry(x, o, packed) ==
    LET f == x.flags
        place == GotPlace(x.got)
    IN  IF "DYNAMIC" \in f \/ ("EXPORT_DYNAMIC" \in f /\ is_interposable(f) /\ "IFUNC" \notin f)
        THEN Entries(<<Zero>>, <<>>, <<General("SYMBOL", place, x.index, Zero)>>, Indexed(x))
        ELSE IF "IFUNC" \in f
        THEN Entries(<<Zero>>, <<>>, <<Rela("RELA_PLT", "IRELATIVE", place, 0, x.raw)>>, NoError)
        ELSE IF is_address(f) /\ is_relocatable(o)
        THEN Entries(<<AddressWord(x.raw, packed)>>, <<>>, <<AddressRela(place, x.raw, packed)>>, NoError)
        ELSE Entries(<<x.raw>>, <<>>, <<>>, NoError)

\* The entry that gives an ifunc its address.
IfuncGotEntry(x, o, packed) ==
    LET stub == <<"plt", x.plt>>
    IN  IF "IFUNC_GOT_FOR_ADDRESS" \notin x.flags THEN Nothing
        ELSE IF x.plt = None THEN Entries(<<Zero>>, <<>>, <<>>, "missing")
        ELSE IF is_relocatable(o)
        THEN Entries(<<AddressWord(stub, packed)>>, <<>>,
                     <<AddressRela(GotPlace(x.got + 1), stub, packed)>>, NoError)
        ELSE Entries(<<stub>>, <<>>, <<>>, NoError)

\* packed: the group has space in .relr.dyn. (GOT entries are at even addresses.)
process_resolution(x, o, packed) ==
    IF x.got = None THEN Nothing
    ELSE IF is_tls(x.flags) THEN TlsEntries(x, o)
    ELSE Together(GotEntry(x, o, packed),
                  Together(IF x.plt = None THEN Nothing ELSE Entries(<<>>, <<x.got>>, <<>>, NoError),
                           IfuncGotEntry(x, o, packed)))

Taken(e, symbols) ==
    [t \in Tables |-> CASE t = "GOT" -> Len(e.words) [] t = "PLT_GOT" -> Len(e.stubs)
                        [] t = "DYNSYM" -> Len(symbols)
                        [] OTHER -> Cardinality({i \in DOMAIN e.rela : e.rela[i].table = t})]

value_with_addend(x) == IF "IFUNC" \in x.flags THEN <<"plt", x.plt>> ELSE x.raw

\* What a relocation puts at its place, and the relocations it leaves to the
\* dynamic linker. A value of an entry that does not exist is an error.
Applied(value, rela, failure) ==
    [value |-> value, rela |-> rela,
     failure |-> IF value \in {<<"plt", None>>, <<"got", None>>} THEN "missing" ELSE failure]

write_absolute_relocation(x, r, o, packed, place) ==
    LET f == x.flags
        address == value_with_addend(x)
    IN  IF {"DYNAMIC", "ABSOLUTE"} \subseteq f /\ ~r.write THEN Applied(Zero, <<>>, NoError)
        ELSE IF is_interposable(f) /\ r.write
        THEN Applied(Zero, <<General("SYMBOL", place, x.index, Zero)>>, Indexed(x))
        ELSE IF "IFUNC" \in f /\ r.write /\ is_relocatable(o)
        THEN Applied(Zero, <<General("IRELATIVE", place, 0, x.raw)>>, NoError)
        ELSE IF is_relocatable(o) /\ "ABSOLUTE" \notin f
        THEN Applied(AddressWord(address, packed /\ ~r.odd),
                     <<AddressRela(place, address, packed /\ ~r.odd)>>, NoError)
        ELSE Applied(address, <<>>, NoError)

got_address_for_relocation(x) ==
    IF x.got = None THEN None ELSE x.got + Count("IFUNC_GOT_FOR_ADDRESS" \in x.flags)
tlsgd_got_address(x) == IF x.got = None THEN None ELSE x.got + Count("GOT_TLS_OFFSET" \in x.flags)
tls_descriptor_got_address(x) ==
    IF x.got = None THEN None
    ELSE x.got + Count("GOT_TLS_OFFSET" \in x.flags) + 2 * Count("GOT_TLS_MODULE" \in x.flags)

plt_got_value(kind, x) ==
    IF kind = "PltRelative" THEN <<"plt", x.plt>> ELSE <<"got", got_address_for_relocation(x)>>

=============================================================================
