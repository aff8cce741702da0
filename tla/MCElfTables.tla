---------------------------- MODULE MCElfTables ----------------------------
(* Small links for ElfTables: two objects with a reference or two each, a    *)
(* shared object, and the symbols that each kind of output can have.         *)
EXTENDS ElfTables

Outputs == {"static", "static_pie", "dynamic", "pie", "shared"}

Sym(home, f) == [home |-> home, flags |-> f, undefined |-> FALSE, weak |-> FALSE, at |-> 0, tls |-> FALSE]
ThreadLocal(sym) == [sym EXCEPT !.tls = TRUE]
Undef(f) == [Sym(2, f) EXCEPT !.undefined = TRUE]
Lib(f, weak, at) == [Sym(4, f) EXCEPT !.weak = weak, !.at = at]

\* The symbols an output can have, with whether each is exported.
Plain(o) ==
    LET own == {"NON_INTERPOSABLE"}
        hidden == {<<Sym(2, own), FALSE>>, <<Sym(2, own \cup {"IFUNC"}), FALSE>>,
                   <<Sym(2, own \cup {"ABSOLUTE"}), FALSE>>, <<Undef(own \cup {"ABSOLUTE"}), FALSE>>}
        exported == {<<Sym(2, own), TRUE>>, <<Sym(2, own \cup {"IFUNC"}), TRUE>>}
        dynamic == {<<Undef({"DYNAMIC", "ABSOLUTE"}), FALSE>>, <<Lib({"DYNAMIC"}, FALSE, 1), FALSE>>,
                    <<Lib({"DYNAMIC", "FUNCTION"}, FALSE, 1), FALSE>>}
        interposable == {<<Sym(2, {}), TRUE>>, <<Sym(2, {"IFUNC"}), TRUE>>}
    IN  hidden \cup (IF is_static_executable(o) THEN {} ELSE exported \cup dynamic)
            \cup (IF o = "shared" THEN interposable ELSE {})

Tls(o) ==
    {<<Sym(2, {"NON_INTERPOSABLE"}), FALSE>>}
        \cup (IF is_static_executable(o) THEN {}
              ELSE {<<Undef({"DYNAMIC", "ABSOLUTE"}), FALSE>>, <<Lib({"DYNAMIC"}, FALSE, 1), FALSE>>})
        \cup (IF o = "shared" THEN {<<Sym(2, {}), TRUE>>} ELSE {})

Ref(s, type, form, write, exec, odd) ==
    [sym |-> s, type |-> type, form |-> form, write |-> write, exec |-> exec, odd |-> odd]
Code(s, type, form) == Ref(s, type, form, FALSE, TRUE, FALSE)
Data(s, odd) == Ref(s, "R_64", "other", TRUE, FALSE, odd)
ReadOnly(s, type) == Ref(s, type, "other", FALSE, FALSE, FALSE)

\* References to symbol s with flags f.  An object is not called, and read-only
\* sections of a relocatable output have no absolute references to what is only
\* known at run time.
PlainRefs(s, f, o) ==
    {<<Code(s, "PC32", "other")>>,
     <<Code(s, "GOTPCREL", "mov")>>, <<Code(s, "GOTPCREL", "other")>>,
     <<Code(s, "GOTPCRELX", "mov")>>, <<Code(s, "GOTPCRELX", "call")>>,
     <<Code(s, "REX_GOTPCRELX", "sub")>>, <<Data(s, FALSE)>>, <<Data(s, TRUE)>>}
    \cup (IF f = {"DYNAMIC"} THEN {} ELSE {<<Code(s, "PLT32", "other")>>})
    \cup IF is_relocatable(o) /\ (f \cap {"IFUNC", "FUNCTION"} # {} \/ f = {"DYNAMIC"}) THEN {}
         ELSE {<<ReadOnly(s, "R_64")>>}

\* References to a thread-local symbol s; symbol c is __tls_get_addr.
TlsRefs(s, f, o, c) ==
    LET call == Code(c, "PLT32", "other")
        local == "DYNAMIC" \notin f /\ ~is_interposable(f)
    IN  {<<Code(s, "GOTTPOFF", "mov")>>, <<Code(s, "GOTTPOFF", "other")>>,
         <<Code(s, "TLSGD", "mov"), call>>, <<Code(s, "TLSGD", "large"), call>>,
         <<Code(s, "TLSGD", "other"), call>>,
         <<Code(s, "TLSDESC", "mov"), Code(s, "TLSDESC_CALL", "mov")>>}
        \cup (IF ~local THEN {}
              ELSE {<<Code(s, "TLSLD", "mov"), call, Code(s, "DTPOFF32", "mov")>>,
                    <<Code(s, "TLSLD", "other"), call, Code(s, "DTPOFF32", "mov")>>})
        \cup (IF local /\ is_executable(o) THEN {<<Code(s, "TPOFF32", "mov")>>} ELSE {})

Link(o, relr, relax, symbols, a, b, requests) ==
    [output |-> o, relr |-> relr, relax |-> relax, copy |-> is_executable(o), symbols |-> symbols,
     refs |-> <<<<>>, a, b, <<>>, <<>>>>, requests |-> requests]

Request(what, s) == {[what |-> what, sym |-> s, by |-> n] : n \in 1 .. IF what = "export" THEN 2 ELSE 1}

Options == {<<FALSE, TRUE>>, <<TRUE, FALSE>>}

PlainLinks ==
    UNION {UNION {
        {Link(o, opt[1], opt[2], <<c[1]>>, a, b,
              (IF c[2] THEN Request("export", 1) ELSE {})
                \cup (IF "IFUNC" \notin c[1].flags /\ ~c[2] /\ c[1].home = 2 THEN Request("direct", 1) ELSE {}))
            : opt \in Options, a \in PlainRefs(1, c[1].flags, o), b \in PlainRefs(1, c[1].flags, o)}
        : c \in Plain(o)} : o \in Outputs}

Getter(o) == IF is_static_executable(o) THEN Sym(3, {"NON_INTERPOSABLE"}) ELSE Lib({"DYNAMIC", "FUNCTION"}, FALSE, 2)

TlsLinks ==
    UNION {UNION {
        {Link(o, FALSE, relax, <<ThreadLocal(c[1]), Getter(o)>>, a, b,
              IF c[2] THEN Request("export", 1) ELSE {})
            : relax \in BOOLEAN, a \in TlsRefs(1, c[1].flags, o, 2), b \in TlsRefs(1, c[1].flags, o, 2)}
        : c \in Tls(o)} : o \in Outputs}

\* Two names of one object of the library, and another object.
CopyLinks ==
    {Link(o, FALSE, FALSE, <<Lib({"DYNAMIC"}, w[1], 1), Lib({"DYNAMIC"}, w[2], 1), Lib({"DYNAMIC"}, w[3], 2)>>, a, b, {})
        : o \in {"dynamic", "pie"}, w \in {<<TRUE, FALSE, FALSE>>, <<FALSE, TRUE, TRUE>>, <<TRUE, TRUE, FALSE>>},
          a \in {<<Code(x, "PC32", "other"), t>> : x \in 1 .. 3,
                    t \in {Data(1, FALSE), Code(2, "GOTPCREL", "other"), Code(3, "PC32", "other")}},
          b \in {<<Code(x, "PC32", "other"), Data(y, TRUE)>> : x, y \in 1 .. 3}}

\* An ifunc, a variable and a function, referred to from both objects.
MixedLinks ==
    LET bound == {"NON_INTERPOSABLE"}
        symbols(o) == <<Sym(2, bound \cup {"IFUNC"}), Sym(3, IF o = "shared" THEN {} ELSE bound),
                        IF is_static_executable(o) THEN Sym(3, bound \cup {"ABSOLUTE"})
                        ELSE Lib({"DYNAMIC", "FUNCTION"}, FALSE, 1)>>
    IN  {Link(o, relr, TRUE, symbols(o), <<a, b>>, <<c, d>>,
              IF o = "shared" THEN Request("export", 2) ELSE {})
            : o \in Outputs, relr \in BOOLEAN,
              a \in {Data(1, FALSE), Code(1, "PC32", "other")},
              b \in {Data(2, FALSE), Data(2, TRUE), Code(2, "GOTPCREL", "other")},
              c \in {Code(1, "GOTPCREL", "mov"), Code(3, "PLT32", "other")},
              d \in {Data(3, TRUE), Code(3, "GOTPCRELX", "call"), Code(2, "REX_GOTPCRELX", "sub")}}

MCLinks == PlainLinks \cup TlsLinks \cup CopyLinks \cup MixedLinks
\* Descriptors loaded by instructions with a REX2 prefix.
MCRex2Links ==
    {Link(o, FALSE, relax, <<ThreadLocal(Lib({"DYNAMIC"}, FALSE, 1))>>,
          <<Code(1, "CODE_4_TLSDESC", "mov"), Code(1, "TLSDESC_CALL", "mov")>>, <<>>, {})
        : o \in Outputs \ {"static", "static_pie"}, relax \in BOOLEAN}

MCObjects == 2
=============================================================================
