---------------------------- MODULE MCWasmLink ----------------------------
(* Small links for WasmLink. *)
EXTENDS WasmLink

T == <<"void", "i32">>
Flipped == <<"i32", "void">>

Call(to) == [kind |-> "call", to |-> to]
Address(to) == [kind |-> "table", to |-> to]
Indirect(t) == [kind |-> "type", to |-> <<"type", t>>]
Fn(type, group, refs) == [type |-> type, group |-> group, refs |-> refs]
Imp(name, type, weak) == [name |-> <<name>>, type |-> type, weak |-> weak]
Plain(fn, name) ==
    [fn |-> fn, name |-> <<name>>, weak |-> FALSE, local |-> FALSE, hidden |-> FALSE,
     exported |-> FALSE, nostrip |-> FALSE]
With(sym, flag) == [sym EXCEPT ![flag] = TRUE]
Object(types, imports, functions, symbols) ==
    [types |-> types, imports |-> imports, functions |-> functions, symbols |-> symbols,
     inits |-> << >>, data |-> << >>, archive |-> FALSE]
DefaultArgs ==
    [entry |-> <<"_start">>, exports |-> << >>, exportDynamic |-> FALSE, exportAll |-> FALSE, gc |-> TRUE,
     shared |-> FALSE, allowUndefined |-> FALSE, stubAll |-> FALSE, wrap |-> {}]

Start == Plain(1, "_start")

\* The object with the entry. It imports f and x, in either order, calls or
\* takes the address of what it imports, and has a function of its own.
Mains ==
    LET f == {<<Imp("f", t, w)>> : t \in {0, 1}, w \in BOOLEAN}
        x == <<Imp("x", 1, FALSE)>>
        both == {<<Imp("f", 0, FALSE), Imp("x", 1, w)>> : w \in BOOLEAN} \cup {x \o <<Imp("f", 0, FALSE)>>}
        \* An address is not taken of a function that stays an import.
        refs(imps) ==
            {<< >>, <<Call(<<"imp", 1>>)>>, <<Call(<<"sym", 2>>), Indirect(1)>>}
            \cup (IF Len(imps) = 1 THEN {<<Address(<<"sym", 2>>), Call(<<"imp", 1>>)>>}
                  ELSE {<<Call(<<"imp", 1>>), Call(<<"imp", 2>>)>>, <<Call(<<"sym", 2>>), Call(<<"imp", 2>>)>>})
            \cup {<<Address(<<"imp", j>>), Call(<<"sym", 2>>)>> :
                    j \in {k \in DOMAIN imps : imps[k].weak \/ imps[k].name = <<"f">>}}
        main(imps, syms) ==
            {Object(T, imps, <<Fn(0, "", r), Fn(0, "", own)>>, <<Start, sym>>) :
                r \in refs(imps), own \in {<< >>, <<Call(<<"imp", Len(imps)>>)>>}, sym \in syms}
    IN  UNION {main(imps, {Plain(2, "h"), With(Plain(2, "h"), "local")}) : imps \in f \cup both}
        \cup main(x, {With(Plain(2, "f"), "weak")})

\* A library: f with some flags, and a function l it may use or that may stay
\* dead. The other order of types is used where x is not imported.
LibSymbols == {Plain(1, "f")} \cup {With(Plain(1, "f"), flag) : flag \in {"weak", "hidden", "exported", "nostrip"}}
LibRefs == {<< >>, <<Call(<<"sym", 2>>)>>, <<Address(<<"sym", 2>>), Indirect(0)>>}
Libs ==
    {Object(Flipped, << >>, <<Fn(1, "", refs), Fn(0, "", << >>)>>, <<sym, With(Plain(2, "l"), "local")>>) :
        refs \in LibRefs, sym \in LibSymbols}
    \cup {Object(T, <<Imp("x", 1, FALSE)>>, <<Fn(0, "g", refs), Fn(1, "", << >>)>>,
                 <<Plain(1, "f"), Plain(2, "l")>>) :
            refs \in {<<Call(<<"imp", 1>>)>>, <<Call(<<"sym", 2>>)>>}}

\* A second library with another f: strong, or a copy in the same group.
Seconds ==
    {<< >>} \cup {<<Object(T, << >>, <<Fn(0, group, << >>)>>, <<Plain(1, "f")>>)>> : group \in {"", "g"}}

ArgSets ==
    {DefaultArgs, [DefaultArgs EXCEPT !.gc = FALSE, !.allowUndefined = TRUE],
     [DefaultArgs EXCEPT !.exportDynamic = TRUE, !.stubAll = TRUE],
     [DefaultArgs EXCEPT !.entry = NoName, !.exports = <<<<"f">>>>, !.allowUndefined = TRUE]}

\* exported_indices and no_strip_indices do not follow functions that imports
\* move: with such a flag, no import may be left.
LeavesImport(l) ==
    \E o \in DOMAIN l.objects : \E j \in DOMAIN l.objects[o].imports :
        LET imp == l.objects[o].imports[j] IN
        /\ ~imp.weak /\ ~l.args.stubAll
        /\ ~\E p \in DOMAIN l.objects : \E s \in DOMAIN l.objects[p].symbols :
              l.objects[p].symbols[s].name = imp.name
HasFlag(l, flag) ==
    \E o \in DOMAIN l.objects : \E s \in DOMAIN l.objects[o].symbols : l.objects[o].symbols[s][flag]

General ==
    {l \in {[objects |-> <<main, lib>> \o second, args |-> args] :
              main \in Mains, lib \in Libs, second \in Seconds, args \in ArgSets} :
        HasFlag(l, "exported") \/ HasFlag(l, "nostrip") => ~LeavesImport(l)}

\* Constructors. What wrappers and __wasm_call_ctors call is not followed
\* when a later pass moves functions, so none does: nothing is imported but
\* __wasm_call_ctors, and nothing collected. Of archive members, the priorities
\* are in link order, and nothing is exported but the entry and what is marked.
Initializer(prios, name, refs, archive) ==
    [Object(T, << >>, <<Fn(0, "", refs)>> \o [k \in DOMAIN prios |-> Fn(0, "", << >>)],
            <<name>> \o [k \in DOMAIN prios |-> With(Plain(k + 1, "init"), "local")])
        EXCEPT !.inits = [k \in DOMAIN prios |-> [prio |-> prios[k], fn |-> k + 1]], !.archive = archive]
CallsCtorsItself(o) ==
    [o EXCEPT !.imports = <<[name |-> CtorsName, type |-> 0, weak |-> FALSE]>>,
              !.functions[1].refs = <<Call(<<"imp", 1>>)>>]
Constructors ==
    LET flags == {Plain(1, "f"), With(Plain(1, "f"), "exported")}
        mains == UNION {{Initializer(p, Start, << >>, FALSE), CallsCtorsItself(Initializer(p, Start, << >>, FALSE))} :
                            p \in {<< >>, <<1>>, <<2, 1>>, <<2, 2, 1>>}}
        others == UNION {{Initializer(p, sym, << >>, FALSE), CallsCtorsItself(Initializer(p, sym, << >>, FALSE))} :
                            p \in {<< >>, <<1>>, <<1, 0>>, <<2, 1>>}, sym \in flags}
        callF(o) == [o EXCEPT !.imports = Append(@, Imp("f", 0, FALSE)),
                              !.functions[1].refs = Append(@, Call(<<"imp", Len(o.imports) + 1>>))]
        usesG(o) == [o EXCEPT !.imports = <<Imp("g", 0, FALSE)>>, !.functions[2].refs = <<Call(<<"imp", 1>>)>>]
        members == {<<first, Initializer(<<3>>, Plain(1, "g"), refs, TRUE)>> :
                        first \in UNION {{o, usesG(o)} : o \in {Initializer(<<2>>, sym, << >>, TRUE) : sym \in flags}},
                        refs \in {<< >>, <<Call(<<"sym", 2>>)>>}}
        args == {[DefaultArgs EXCEPT !.gc = FALSE, !.exportAll = all] : all \in BOOLEAN}
    IN  {[objects |-> <<main, other>>, args |-> a] : main \in mains, other \in others, a \in args}
        \cup {[objects |-> <<main>> \o member, args |-> a] :
                main \in UNION {{o, callF(o)} : o \in {p \in mains : Len(p.inits) < 2}},
                member \in members, a \in {b \in args : ~b.exportAll}}

\* --shared-memory, with and without data, and data that holds addresses. The
\* library has an alias, of a function that no other object defines.
Data(o, refs) == [o EXCEPT !.data = refs]
Lib == Object(T, << >>, <<Fn(0, "", <<Indirect(1)>>), Fn(1, "", << >>)>>, <<Plain(1, "f"), Plain(2, "g"), Plain(1, "alias")>>)
CallerOf(name, refs) == Object(T, <<Imp(name, 0, FALSE)>>, <<Fn(0, "", refs)>>, <<Start>>)
DataLinks ==
    LET data == {<< >>, <<Address(<<"sym", 2>>)>>, <<Address(<<"sym", 2>>), Address(<<"sym", 1>>)>>}
        refs == {<< >>, <<Call(<<"imp", 1>>)>>, <<Address(<<"sym", 1>>)>>}
    IN  {[objects |-> <<CallerOf("f", r), Data(Lib, d)>>,
          args |-> [DefaultArgs EXCEPT !.gc = FALSE, !.shared = shared, !.exportDynamic = dynamic]] :
            r \in refs, d \in data, shared \in BOOLEAN, dynamic \in BOOLEAN}
        \cup {[objects |-> <<CallerOf(x, r), Data(Lib, d)>>, args |-> [DefaultArgs EXCEPT !.allowUndefined = u]] :
                x \in {"alias", "x"}, r \in refs, d \in data, u \in BOOLEAN}

\* --wrap.
WrapLinks ==
    {[objects |-> <<CallerOf("f", r), [Lib EXCEPT !.functions[2].refs = own]>>,
      args |-> [DefaultArgs EXCEPT !.wrap = w, !.gc = gc, !.exportDynamic = dynamic]] :
        r \in {<<Call(<<"imp", 1>>)>>, <<Address(<<"imp", 1>>), Call(<<"imp", 1>>)>>},
        own \in {<< >>, <<Call(<<"sym", 1>>)>>},
        w \in SUBSET {<<"f">>, <<"g">>}, gc \in BOOLEAN, dynamic \in BOOLEAN}

AllLinks == General \cup Constructors \cup DataLinks \cup WrapLinks

-----------------------------------------------------------------------------
\* Links for which a property fails, each with a configuration of its own.

One(objects, args) == {[objects |-> objects, args |-> args]}
NoGc == [DefaultArgs EXCEPT !.gc = FALSE]
WithInit == Initializer(<<2>>, Start, << >>, FALSE)

\* A constructor, and --export-dynamic.
DynamicLinks == One(<<WithInit>>, [NoGc EXCEPT !.exportDynamic = TRUE])

\* The entry's object has a constructor of priority 2, an archive member that
\* nothing refers to one of priority 1.
ArchiveLinks == One(<<WithInit, Initializer(<<1>>, Plain(1, "f"), << >>, TRUE)>>, NoGc)

\* A constructor, and a function that stays an import.
ImportLinks ==
    One(<<[WithInit EXCEPT !.imports = <<Imp("x", 0, FALSE)>>, !.functions[1].refs = <<Call(<<"imp", 1>>)>>]>>,
        [NoGc EXCEPT !.allowUndefined = TRUE])

\* A constructor, and a weak reference to an undefined function.
WeakLinks ==
    One(<<[WithInit EXCEPT !.imports = <<Imp("x", 0, TRUE)>>, !.functions[1].refs = <<Call(<<"imp", 1>>)>>]>>, NoGc)

\* Two objects import f, one of them with the wrong signature.
SignatureLinks ==
    One(<<Object(T, <<Imp("f", 1, FALSE)>>, <<Fn(0, "", <<Call(<<"imp", 1>>)>>)>>, <<Start>>),
          Object(T, <<Imp("f", 0, FALSE)>>, <<Fn(0, "", <<Call(<<"imp", 1>>)>>)>>, <<Plain(1, "h")>>),
          Object(T, << >>, <<Fn(0, "", << >>)>>, <<Plain(1, "f")>>)>>, NoGc)

\* Two objects import x, with types of different numbers.
TypeLinks ==
    One(<<Object(T, <<Imp("x", 0, FALSE), Imp("y", 1, FALSE)>>, <<Fn(0, "", <<Call(<<"imp", 2>>)>>)>>, <<Start>>),
          Object(Flipped, <<Imp("x", 1, FALSE), Imp("z", 1, FALSE)>>, <<Fn(1, "", <<Call(<<"imp", 2>>)>>)>>,
                 <<Plain(1, "h")>>)>>, [NoGc EXCEPT !.allowUndefined = TRUE])

\* A strong f that has an alias, after a weak f.
AliasLinks ==
    One(<<Object(T, << >>, <<Fn(0, "", <<Call(<<"sym", 2>>)>>), Fn(0, "", << >>)>>,
                 <<Start, With(Plain(2, "f"), "weak")>>), Lib>>, NoGc)

\* Two copies of f in one group; the object of the second has an import.
ComdatLinks ==
    One(<<Object(T, << >>, <<Fn(0, "g", << >>)>>, <<Plain(1, "f")>>),
          Object(T, <<Imp("f", 0, FALSE)>>, <<Fn(0, "g", << >>), Fn(0, "", <<Call(<<"imp", 1>>)>>)>>,
                 <<Plain(1, "copy"), Plain(2, "_start")>>)>>, NoGc)
=============================================================================
