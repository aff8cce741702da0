------------------------------ MODULE WasmLink ------------------------------
(***************************************************************************)
(* The WebAssembly writer's function side (wasm_writer.rs): merge_inputs    *)
(* and the passes of write_direct that follow it. Every pass is a map from  *)
(* the module merged so far to the next; the hazard is that each of them    *)
(* moves functions, imports or types and must then rewrite every index      *)
(* anyone holds.                                                            *)
(*                                                                         *)
(* An index is 0-based, as in the code; function n is m.functions[n + 1].   *)
(* A name is a sequence of strings, so that the names the writer makes up   *)
(* ("undefined_weak:f", "f.command_export") are <<prefix, f>>.              *)
(*                                                                         *)
(* An input object is a record                                             *)
(*   types      the signatures of its TYPE section;                         *)
(*   imports    its function imports [name, type, weak], all of module env  *)
(*              and of undefined symbols with no name of their own;         *)
(*   functions  [type, group, refs], a reference being [kind, to] with kind *)
(*              "call", "table" (address taken) or "type" (call_indirect)   *)
(*              and `to` <<"sym", s>>, <<"imp", j>> or <<"type", t>>;       *)
(*   symbols    the defined ones, [fn, name, weak, local, hidden, exported, *)
(*              nostrip]; several for one function are aliases;             *)
(*   inits      its constructors [prio, fn];                                *)
(*   data       the references of its data segment, if it has one;          *)
(*   archive    whether it is an archive member.                            *)
(* Function ids (m.functions[n].id) are ghosts: nothing reads them but the  *)
(* properties.                                                              *)
(***************************************************************************)
EXTENDS Integers, FiniteSets, Sequences, SequencesExt

CONSTANT Links    \* the links to run: [objects, args]

VARIABLES link, m, pass

vars == <<link, m, pass>>

None == -1
NoName == << >>
NoGroup == ""
Void == "void"
CtorsName == <<"__wasm_call_ctors">>
InitMemoryName == <<"__wasm_init_memory">>
InitTlsName == <<"__wasm_init_tls">>

Objects == link.objects
Args == link.args

Put(f, k, v) == (k :> v) @@ f
AppendNew(s, e) == IF Contains(s, e) THEN s ELSE Append(s, e)
Place(s, e) == (CHOOSE i \in DOMAIN s : s[i] = e) - 1
Indices(n) == [i \in 1 .. n |-> i]

\* All <<o, i>> with i an index of the sequence f(o), in link order.
Pairs(f(_)) ==
    FlattenSeq([o \in DOMAIN Objects |-> [i \in DOMAIN f(o) |-> <<o, i>>]])

Functions(o) == Objects[o].functions
Imports(o) == Objects[o].imports
Symbols(o) == Objects[o].symbols

FuncBase(o) == FoldLeft(LAMBDA n, p : n + Len(Functions(p)), 0, Indices(o - 1))
ImportSig(o, j) == Objects[o].types[Imports(o)[j].type + 1]
FunctionSig(o, i) == Objects[o].types[Functions(o)[i].type + 1]

-----------------------------------------------------------------------------
\* Pass 1: types, names and flags of all objects.

DedupTypes(types, input) == FoldLeft(AppendNew, types, input)

Duplicate(o, i) ==
    /\ Functions(o)[i].group # NoGroup
    /\ \E p \in 1 .. o - 1 : \E k \in DOMAIN Functions(p) : Functions(p)[k].group = Functions(o)[i].group

\* A group lists its functions by their index, imports counted, and the list is
\* then compared with the place of a function among the defined ones.
ComdatSkip(o) ==
    {i \in DOMAIN Functions(o) : i - Len(Imports(o)) \in DOMAIN Functions(o) /\ Duplicate(o, i - Len(Imports(o)))}

\* Of several symbols of one function the last gives the name it is known by.
FunctionName(o, i) ==
    Symbols(o)[Max({s \in DOMAIN Symbols(o) : Symbols(o)[s].fn = i})].name

RecordName(acc, o, i) ==
    LET n == FunctionName(o, i)
        sym == Symbols(o)[Min({s \in DOMAIN Symbols(o) : Symbols(o)[s].name = n})]
        known == n \in DOMAIN acc.weak
        idx == FuncBase(o) + i - 1
    IN  IF i \in ComdatSkip(o) \/ (known /\ (sym.weak \/ ~acc.weak[n])) THEN acc
        ELSE [acc EXCEPT !.names = Put(@, n, idx),
                         !.weak = Put(@, n, sym.weak),
                         !.hidden = IF sym.hidden THEN @ \cup {n} ELSE @ \ {n},
                         !.local = IF sym.local THEN @ \cup {n} ELSE @ \ {n},
                         !.entry = IF n = Args.entry THEN idx ELSE @]

RecordSymbol(acc, o, s) ==
    LET sym == Symbols(o)[s]
        idx == FuncBase(o) + sym.fn - 1
        new == sym.name \notin DOMAIN acc.names
    IN  [acc EXCEPT !.nostrip = IF sym.nostrip THEN Append(@, idx) ELSE @,
                    !.exported = IF sym.exported THEN Append(@, idx) ELSE @,
                    !.names = IF new THEN Put(@, sym.name, idx) ELSE @,
                    !.weak = IF new /\ sym.name \notin DOMAIN @ THEN Put(@, sym.name, sym.weak) ELSE @,
                    !.entry = IF new /\ sym.name = Args.entry THEN idx ELSE @]

AddObject(acc, o) ==
    LET typed == [acc EXCEPT !.types = DedupTypes(@, Objects[o].types)]
        named == FoldLeft(LAMBDA a, i : RecordName(a, o, i), typed, Indices(Len(Functions(o))))
    IN  FoldLeft(LAMBDA a, s : RecordSymbol(a, o, s), named, Indices(Len(Symbols(o))))

Empty ==
    [types |-> << >>, names |-> << >>, weak |-> << >>, hidden |-> {}, local |-> {},
     entry |-> None, exported |-> << >>, nostrip |-> << >>,
     ctors |-> FALSE, inits |-> << >>, origins |-> << >>, stubs |-> << >>, mismatches |-> << >>,
     functions |-> << >>, table |-> << >>, data |-> << >>, imports |-> << >>,
     initMemory |-> None, explicit |-> << >>, wrappers |-> << >>, exports |-> << >>]

Collect == FoldLeft(AddObject, Empty, Indices(Len(Objects)))

-----------------------------------------------------------------------------
\* Passes 1.8 to 1.86: the synthesized functions that come first. Each shifts
\* the indices given out so far.

ShiftFrom(mm, from, n) ==
    LET s(i) == IF i >= from THEN i + n ELSE i
        seq(q) == [k \in DOMAIN q |-> s(q[k])]
    IN  [mm EXCEPT !.names = seq(@), !.entry = IF @ = None THEN @ ELSE s(@),
                   !.exported = seq(@), !.nostrip = seq(@)]

\* (mutant) Constructors stay in link order.
SortByPriority_unsorted(inits) == inits

SortByPriority(inits) ==
    LET before(j, k) == \/ inits[j].prio < inits[k].prio
                        \/ inits[j].prio = inits[k].prio /\ j < k
        order == SetToSortSeq(DOMAIN inits, before)
    IN  [k \in DOMAIN order |-> inits[order[k]]]

ReserveCtors(mm) ==
    LET all == Pairs(LAMBDA o : Objects[o].inits)
        init(p) == Objects[p[1]].inits[p[2]]
        inits == [k \in DOMAIN all |->
                    [prio |-> init(all[k]).prio, idx |-> FuncBase(all[k][1]) + init(all[k]).fn - 1]]
        origins == [k \in DOMAIN all |-> all[k][1]]
        referenced == \/ Args.entry = CtorsName
                      \/ \E o \in DOMAIN Objects : \E j \in DOMAIN Imports(o) :
                            Imports(o)[j].name = CtorsName
        shifted == ShiftFrom(mm, 0, 1)
    IN  IF all = << >> /\ ~referenced /\ ~Args.shared /\ Args.gc THEN mm
        ELSE [shifted EXCEPT !.ctors = TRUE, !.inits = SortByPriority(inits), !.origins = origins,
                             !.names = Put(@, CtorsName, 0),
                             !.entry = IF Args.entry = CtorsName THEN 0 ELSE @,
                             !.hidden = @ \cup {CtorsName}]

CtorsOffset(mm) == IF mm.ctors THEN 1 ELSE 0

\* A function that is only referenced weakly, or any undefined one when the
\* arguments say so, gets a stub that traps.
ReserveWeakStubs(mm) ==
    LET want(p) == LET imp == Imports(p[1])[p[2]] IN
                   (imp.weak \/ Args.stubAll) /\ imp.name \notin DOMAIN mm.names
        add(acc, p) ==
            LET imp == Imports(p[1])[p[2]]
                first == Min({j \in DOMAIN Imports(p[1]) : Imports(p[1])[j].name = imp.name})
            IN  IF \E k \in DOMAIN acc : acc[k].name = imp.name THEN acc
                ELSE Append(acc, [name |-> imp.name, sig |-> ImportSig(p[1], first)])
        stubs == FoldLeft(add, << >>, SelectSeq(Pairs(Imports), want))
        shifted == ShiftFrom(mm, CtorsOffset(mm), Len(stubs))
        place(k) == CtorsOffset(mm) + k - 1
        record(acc, k) ==
            [acc EXCEPT !.names = Put(Put(@, stubs[k].name, place(k)),
                                      <<"undefined_weak">> \o stubs[k].name, place(k)),
                        !.weak = Put(@, stubs[k].name, TRUE)]
    IN  FoldLeft(record, [shifted EXCEPT !.stubs = stubs], Indices(Len(stubs)))

\* compute_sig_mismatch_stubs: names whose first import and whose first
\* definition have different signatures.
SigMismatches ==
    LET defs == SelectSeq(Pairs(Symbols), LAMBDA p : ~Symbols(p[1])[p[2]].local)
        sym(p) == Symbols(p[1])[p[2]]
        defined(n) == \E k \in DOMAIN defs : sym(defs[k]).name = n
        defSig(n) == LET p == defs[Min({k \in DOMAIN defs : sym(defs[k]).name = n})]
                     IN  FunctionSig(p[1], sym(p).fn)
        add(acc, p) ==
            LET n == Imports(p[1])[p[2]].name IN
            IF \E k \in DOMAIN acc : acc[k].name = n THEN acc
            ELSE Append(acc, [name |-> n, sig |-> ImportSig(p[1], p[2])])
        imported == FoldLeft(add, << >>, Pairs(Imports))
    IN  SelectSeq(imported, LAMBDA e : defined(e.name) /\ defSig(e.name) # e.sig)

FrontOffset(mm) == CtorsOffset(mm) + Len(mm.stubs) + Len(mm.mismatches)

ReserveMismatchStubs(mm) ==
    LET stubs == SigMismatches
        first == CtorsOffset(mm) + Len(mm.stubs)
        shifted == ShiftFrom(mm, first, Len(stubs))
        prefixed(k) == <<"signature_mismatch">> \o stubs[k].name
        record(acc, k) == [acc EXCEPT !.names = Put(@, prefixed(k), first + k - 1),
                                      !.local = @ \cup {prefixed(k)}]
    IN  FoldLeft(record, [shifted EXCEPT !.mismatches = stubs], Indices(Len(stubs)))

-----------------------------------------------------------------------------
\* Function bodies. All that matters of one is its operands: where an operand
\* is, whether it is padded to five bytes, and its value. `fixup` is the index
\* that a call to an import is to get once imports are counted.

Operand(kind, val, fixup) == [kind |-> kind, val |-> val, fixup |-> fixup]
Body(len, first, step, padded, ops) ==
    [len |-> len, first |-> first, step |-> step, padded |-> padded, intact |-> TRUE, ops |-> ops]

\* A body of an object: every operand is relocated, hence padded.
InputBody(ops) == Body(2 + 6 * Len(ops), 2, 6, TRUE, ops)
Trap == InputBody(<< >>)

\* write_padded_leb128 writes five bytes, or nothing if they do not fit. Over a
\* compact operand it destroys what follows. new has a value for each operand,
\* or None for one that is left alone.
PatchBody(body, new) ==
    LET at(j) == body.first + (j - 1) * body.step
        hit == {j \in DOMAIN body.ops : new[j] # None /\ at(j) + 5 <= body.len}
    IN  [body EXCEPT !.ops = [j \in DOMAIN @ |-> IF j \in hit THEN [@[j] EXCEPT !.val = new[j]] ELSE @[j]],
                     !.intact = @ /\ (body.padded \/ hit = {})]

\* remap_call_targets, with the new index of each function that has one.
RemapCalls(body, map) ==
    PatchBody(body, [j \in DOMAIN body.ops |-> LET op == body.ops[j] IN
                        IF op.kind = "call" /\ op.val \in DOMAIN map THEN map[op.val] ELSE None])

RemapTypes(body, map) ==
    PatchBody(body, [j \in DOMAIN body.ops |-> LET op == body.ops[j] IN
                        IF op.kind = "type" /\ op.val \in DOMAIN map THEN map[op.val] ELSE None])

Callees(body) == {body.ops[j].val : j \in {k \in DOMAIN body.ops : body.ops[k].kind = "call"}}

-----------------------------------------------------------------------------
\* Passes 2 to 2.6: bodies, relocations and the indirect function table.

Redirect(mm, n) ==
    LET own == {k \in DOMAIN mm.mismatches : mm.mismatches[k].name = n} IN
    IF own = {} THEN None ELSE CtorsOffset(mm) + Len(mm.stubs) + Max(own) - 1

\* symbol_to_output_func: the defined function a symbol stands for, if any.
OutputFunc(mm, o, to) ==
    IF to[1] = "sym"
    THEN LET sym == Symbols(o)[to[2]] IN
         IF sym.local THEN FuncBase(o) + sym.fn - 1 + FrontOffset(mm) ELSE mm.names[sym.name]
    ELSE LET n == Imports(o)[to[2]].name IN
         IF Redirect(mm, n) # None THEN Redirect(mm, n)
         ELSE IF n \in DOMAIN mm.names THEN mm.names[n] ELSE None

\* per_obj_func_imp_remap: where Pass 4 is expected to put an import.
PredictedImport(mm, o, j) ==
    LET open == SelectSeq(Pairs(Imports), LAMBDA p : Imports(p[1])[p[2]].name \notin DOMAIN mm.names)
        key(p) == <<Imports(p[1])[p[2]].name, ImportSig(p[1], p[2])>>
        keys == FoldLeft(LAMBDA acc, p : AppendNew(acc, key(p)), << >>, open)
    IN  Place(keys, key(<<o, j>>))

OrZero(f) == IF f = None THEN 0 ELSE f

IsWeakStub(mm, f) == f \in CtorsOffset(mm) .. CtorsOffset(mm) + Len(mm.stubs) - 1

\* The functions that need a slot: code first, then data, whose references are
\* resolved by the symbol's own name only.
DataFunc(mm, o, to) ==
    IF to[1] = "sym" THEN mm.names[Symbols(o)[to[2]].name] ELSE 0

TableNeeded(mm) ==
    LET code(p) ==
            IF p[2] \in ComdatSkip(p[1]) THEN << >>
            ELSE LET refs == SelectSeq(Functions(p[1])[p[2]].refs, LAMBDA r : r.kind = "table")
                     want == [k \in DOMAIN refs |-> OrZero(OutputFunc(mm, p[1], refs[k].to))]
                 IN  SelectSeq(want, LAMBDA f : ~IsWeakStub(mm, f))
        all == Pairs(Functions)
        inData == Pairs(LAMBDA o : Objects[o].data)
        data == [k \in DOMAIN inData |->
                    DataFunc(mm, inData[k][1], Objects[inData[k][1]].data[inData[k][2]].to)]
    IN  FoldLeft(AppendNew, << >>, FlattenSeq([k \in DOMAIN all |-> code(all[k])]) \o data)

Relocated(mm, table, o, ref) ==
    LET f == IF ref.kind = "type" THEN None ELSE OutputFunc(mm, o, ref.to) IN
    CASE ref.kind = "type" -> Operand("type", Place(mm.types, Objects[o].types[ref.to[2] + 1]), None)
      [] ref.kind = "call" ->
            IF f # None THEN Operand("call", f, None)
            ELSE Operand("call", ref.to[2] - 1, PredictedImport(mm, o, ref.to[2]))
      [] ref.kind = "table" ->
            IF IsWeakStub(mm, OrZero(f)) THEN Operand("slot", 0, None)
            ELSE Operand("slot", Place(table, OrZero(f)) + 1, None)

ApplyRelocations(mm) ==
    LET table == TableNeeded(mm)
        stub(kind, s) == [id |-> <<kind, s.name>>, type |-> Place(mm.types, s.sig), body |-> Trap]
        merged(p) ==
            LET f == Functions(p[1])[p[2]]
                ops == [j \in DOMAIN f.refs |-> Relocated(mm, table, p[1], f.refs[j])]
                id == <<"def", p[1], p[2]>>
            IN  IF p[2] \in ComdatSkip(p[1]) THEN [id |-> id, type |-> 0, body |-> Trap]
                ELSE [id |-> id, type |-> Place(mm.types, FunctionSig(p[1], p[2])), body |-> InputBody(ops)]
        inputs == Pairs(Functions)
        data == Pairs(LAMBDA o : Objects[o].data)
    IN  [mm EXCEPT !.functions = [k \in DOMAIN mm.stubs |-> stub("weak", mm.stubs[k])]
                                 \o [k \in DOMAIN mm.mismatches |-> stub("mismatch", mm.mismatches[k])]
                                 \o [k \in DOMAIN inputs |-> merged(inputs[k])],
                   !.table = table,
                   !.data = [k \in DOMAIN data |-> 1 + Place(table,
                                DataFunc(mm, data[k][1], Objects[data[k][1]].data[data[k][2]].to))]]

-----------------------------------------------------------------------------
\* Passes 2.7 and 3: constructors of archive members nothing reaches are
\* dropped, then __wasm_call_ctors is inserted. Passes 3.5 and 3.6: the
\* functions --shared-memory needs, appended.

\* What can be reached from roots in at most n steps.
Reach(roots, next, n) ==
    FoldLeft(LAMBDA acc, k : acc \cup UNION {next[x] : x \in acc \cap DOMAIN next}, roots, Indices(n))

\* The origin of init k is taken to be origins[k].
KeptInits(mm) ==
    LET total == 1 + Len(mm.functions)
        usable(S) == {i \in S : i # 0 /\ i < total}
        roots == usable({mm.entry} \ {None}) \cup usable(Range(mm.exported) \cup Range(mm.nostrip)
                                                          \cup Range(mm.table))
        callees == [i \in DOMAIN mm.functions |-> usable(Callees(mm.functions[i].body))]
        source == [p \in Range(Pairs(Functions)) |-> 1 + FuncBase(p[1]) + p[2] - 1]
        alive(kept) ==
            LET start == roots \cup usable({mm.inits[k].idx + 1 : k \in kept})
                seen == Reach(start, callees, total)
            IN  {p[1] : p \in {q \in DOMAIN source : source[q] \in seen}}
        grow(kept, k) == kept \cup {j \in DOMAIN mm.inits : mm.origins[j] \in alive(kept)
                                                            \/ ~Objects[mm.origins[j]].archive}
    IN  FoldLeft(grow, {}, Indices(Len(mm.inits) + 1))

CtorsBody(inits) ==
    Body(2 + 3 * Len(inits), 2, 3, FALSE,
         [k \in DOMAIN inits |-> Operand("call", inits[k].idx + 1, None)])

InsertCtors(mm) ==
    LET kept == SelectSeq(Indices(Len(mm.inits)), LAMBDA k : k \in KeptInits(mm))
        inits == [k \in DOMAIN kept |-> mm.inits[kept[k]]]
        types == AppendNew(mm.types, Void)
        ctors == [id |-> <<"ctors">>, type |-> Place(types, Void), body |-> CtorsBody(inits)]
    IN  IF ~mm.ctors THEN mm
        ELSE [mm EXCEPT !.inits = inits, !.types = types, !.functions = <<ctors>> \o @]

AppendSynth(mm, name, id, sig) ==
    LET types == AppendNew(mm.types, sig) IN
    [mm EXCEPT !.types = types, !.names = Put(@, name, Len(mm.functions)),
               !.functions = Append(@, [id |-> id, type |-> Place(types, sig), body |-> Trap])]

HasData == \E o \in DOMAIN Objects : Objects[o].data # << >>

SharedMemoryFunctions(mm) ==
    LET memory == [AppendSynth(mm, InitMemoryName, <<"init_memory">>, Void)
                    EXCEPT !.initMemory = Len(mm.functions)]
    IN  IF ~Args.shared THEN mm
        ELSE AppendSynth(IF HasData THEN memory ELSE mm, InitTlsName, <<"init_tls">>, "i32")

-----------------------------------------------------------------------------
\* Pass 4: the imports that are left, those of --wrap first, and the shift that
\* makes one index space of imports and functions.

NumImports(mm) == Len(mm.imports)

WrapImports(mm) ==
    LET wrapped == SetToSeq({n \in Args.wrap : n \in DOMAIN mm.names}) IN
    [k \in DOMAIN wrapped |->
        [name |-> <<"__wrap">> \o wrapped[k], type |-> mm.functions[mm.names[wrapped[k]] + 1].type]]

\* Two imports are one if they agree in name and in the type index their
\* objects use.
InputImports(mm) ==
    LET open == SelectSeq(Pairs(Imports), LAMBDA p : Imports(p[1])[p[2]].name \notin DOMAIN mm.names)
        imp(p) == Imports(p[1])[p[2]]
        same(p, q) == imp(p).name = imp(q).name /\ imp(p).type = imp(q).type
        first == SelectSeq(Indices(Len(open)), LAMBDA k : \A j \in 1 .. k - 1 : ~same(open[j], open[k]))
    IN  [k \in DOMAIN first |-> LET p == open[first[k]] IN
            [name |-> imp(p).name, type |-> Place(mm.types, ImportSig(p[1], p[2])), weak |-> imp(p).weak]]

\* Every call operand is moved up by the number of imports; then the calls to
\* imports, which were not to be moved, get their index. exported_indices and
\* no_strip_indices are not moved.
ShiftByImports(mm, n) ==
    LET moved(body) == PatchBody(body, [j \in DOMAIN body.ops |->
                                           IF body.ops[j].kind = "call" THEN body.ops[j].val + n ELSE None])
        fixed(body) == PatchBody(body, [j \in DOMAIN body.ops |-> body.ops[j].fixup])
    IN  [mm EXCEPT !.functions = [k \in DOMAIN @ |-> [@[k] EXCEPT !.body = fixed(moved(@))]],
                   !.names = [x \in DOMAIN @ |-> @[x] + n],
                   !.entry = IF @ = None THEN @ ELSE @ + n,
                   !.table = [k \in DOMAIN @ |-> @[k] + n]]

\* The name of an import is known afterwards, unless it is weak.
NameImports(mm, imports, first) ==
    FoldLeft(LAMBDA acc, k : IF imports[k].name \in DOMAIN acc.names \/ imports[k].weak THEN acc
                             ELSE [acc EXCEPT !.names = Put(@, imports[k].name, first + k - 1)],
             mm, Indices(Len(imports)))

\* Pass 4b: calls to a wrapped function go to its __wrap_ import.
ApplyWraps(mm, wraps) ==
    LET target(k) == Tail(wraps[k].name)
        real(k) == <<"__real">> \o target(k)
        redirect(acc, k) ==
            LET def == acc.names[target(k)] IN
            [acc EXCEPT !.functions = [i \in DOMAIN @ |-> [@[i] EXCEPT !.body = RemapCalls(@, def :> (k - 1))]],
                        !.names = IF real(k) \in DOMAIN @ THEN @ ELSE Put(@, real(k), def)]
    IN  FoldLeft(redirect, mm, Indices(Len(wraps)))

CollectImports(mm) ==
    LET wraps == WrapImports(mm)
        inputs == InputImports(mm)
        n == Len(wraps) + Len(inputs)
        shifted == IF n = 0 THEN mm ELSE ShiftByImports(mm, n)
        bare == [k \in DOMAIN inputs |-> [name |-> inputs[k].name, type |-> inputs[k].type]]
        listed == [shifted EXCEPT !.imports = wraps \o bare]
        wrapNames == [k \in DOMAIN wraps |-> [name |-> wraps[k].name, weak |-> FALSE]]
        named == NameImports(NameImports(listed, wrapNames, 0), inputs, Len(wraps))
        wrapped == ApplyWraps(named, wraps)
        explicit == SelectSeq(Args.exports, LAMBDA x : x \in DOMAIN wrapped.names)
    IN  [wrapped EXCEPT !.explicit = [k \in DOMAIN explicit |-> wrapped.names[explicit[k]]]]

-----------------------------------------------------------------------------
\* The passes of write_direct after the merge.

IsFunction(mm, idx) == idx # None /\ idx >= NumImports(mm) /\ idx - NumImports(mm) < Len(mm.functions)
FunctionAt(mm, idx) == mm.functions[idx - NumImports(mm) + 1]

\* (mutant) The indices that are kept in lists stay as they were.
Mapped_stale(map, s) == s

Mapped(map, s) == LET kept == SelectSeq(s, LAMBDA i : i \in DOMAIN map) IN [k \in DOMAIN kept |-> map[kept[k]]]
MappedOne(map, i) == IF i \in DOMAIN map THEN map[i] ELSE None
MappedNames(map, names) ==
    [x \in {y \in DOMAIN names : names[y] \in DOMAIN map} |-> map[names[x]]]

\* reorder_synth_functions_first: explicit_export_indices is left as it is.
ReorderSynthFirst(mm) ==
    LET n == NumImports(mm)
        synth == SelectSeq(<<CtorsName, InitTlsName, InitMemoryName>>, LAMBDA x : x \in DOMAIN mm.names)
        front == [k \in DOMAIN synth |-> mm.names[synth[k]] - n + 1]
        rest == SelectSeq(Indices(Len(mm.functions)), LAMBDA i : ~Contains(front, i))
        order == front \o rest
        map == [i \in 0 .. n + Len(mm.functions) - 1 |-> IF i < n THEN i ELSE n + Place(order, i - n + 1)]
    IN  IF \A k \in DOMAIN front : front[k] = k THEN mm
        ELSE [mm EXCEPT !.functions = [k \in DOMAIN @ |-> [@[order[k]] EXCEPT !.body = RemapCalls(@, map)]],
                        !.names = MappedNames(map, @), !.entry = MappedOne(map, @),
                        !.exported = Mapped(map, @), !.nostrip = Mapped(map, @), !.table = Mapped(map, @),
                        !.initMemory = MappedOne(map, @)]

Params(sig) == IF sig = "i32" THEN 1 ELSE 0

\* A wrapper calls the constructors, then the function it stands for. Its
\* operands are compact.
Wrap(mm, idx, name) ==
    LET f == FunctionAt(mm, idx)
        p == Params(mm.types[f.type + 1])
        body == Body(6 + 2 * p, 2, 2 + 2 * p, FALSE,
                     <<Operand("call", mm.names[CtorsName], None), Operand("call", idx, None)>>)
        wrapper == NumImports(mm) + Len(mm.functions)
    IN  [mm EXCEPT !.functions = Append(@, [id |-> <<"wrapper", f.id>>, type |-> f.type, body |-> body]),
                   !.names = Put(@, <<"command_export">> \o name, wrapper),
                   !.wrappers = Put(@, idx, wrapper),
                   !.nostrip = Append(@, wrapper)]

NamesOf(mm, idx) == {x \in DOMAIN mm.names : mm.names[x] = idx}

CallsCtors(mm, idx) == mm.names[CtorsName] \in Callees(FunctionAt(mm, idx).body)

\* synth_command_export_wrapper, with the name that the hash map yields first.
WrapsEntry(mm) ==
    /\ ~Args.exportAll /\ Args.entry # NoName
    /\ CtorsName \in DOMAIN mm.names
    /\ IsFunction(mm, mm.entry) /\ mm.entry # mm.names[CtorsName]
    /\ Callees(FunctionAt(mm, mm.names[CtorsName]).body) # {}
    /\ ~CallsCtors(mm, mm.entry)

WrapEntry(mm, name) ==
    LET w == Wrap(mm, mm.entry, name) IN [w EXCEPT !.entry = w.wrappers[mm.entry]]

\* synth_command_export_wrappers_for_exported, whether or not there is any
\* constructor to call.
WrapExported(mm) ==
    LET wanted == SelectSeq(mm.exported, LAMBDA i : /\ IsFunction(mm, i) /\ i # mm.names[CtorsName]
                                                    /\ ~CallsCtors(mm, i) /\ NamesOf(mm, i) # {})
    IN  IF Args.exportAll \/ CtorsName \notin DOMAIN mm.names THEN mm
        ELSE FoldLeft(LAMBDA acc, i : Wrap(acc, i, CHOOSE x \in NamesOf(mm, i) : TRUE), mm, wanted)

-----------------------------------------------------------------------------
\* gc_functions and gc_imports.

\* The types in a new order, `order` giving their old places, and every type
\* index mapped to it.
RetypedTo(mm, map, order) ==
    [mm EXCEPT !.types = [k \in DOMAIN order |-> @[order[k]]],
               !.imports = [k \in DOMAIN @ |-> [@[k] EXCEPT !.type = map[@]]],
               !.functions = [k \in DOMAIN @ |-> [@[k] EXCEPT !.type = map[@], !.body = RemapTypes(@, map)]]]

DropTypes(mm) ==
    LET inBodies == UNION {{b.ops[j].val : j \in {k \in DOMAIN b.ops : b.ops[k].kind = "type"}} :
                             b \in {mm.functions[i].body : i \in DOMAIN mm.functions}}
        used == {mm.functions[i].type : i \in DOMAIN mm.functions}
                \cup {mm.imports[i].type : i \in DOMAIN mm.imports} \cup inBodies
        map == [t \in used |-> Cardinality({u \in used : u < t})]
    IN  RetypedTo(mm, map, SelectSeq(Indices(Len(mm.types)), LAMBDA t : t - 1 \in used))

DynamicExports == Args.exportDynamic \/ Args.exportAll

\* (mutant) A function that is not to be stripped is not a root.
GcRoots_strips(mm) ==
    {mm.entry} \cup Range(mm.explicit) \cup Range(mm.exported) \cup Range(mm.table)
    \cup (IF DynamicExports THEN Range(mm.names) ELSE {})

GcRoots(mm) ==
    {mm.entry} \cup Range(mm.explicit) \cup Range(mm.exported) \cup Range(mm.nostrip) \cup Range(mm.table)
    \cup (IF DynamicExports THEN Range(mm.names) ELSE {})

GcFunctions(mm) ==
    LET n == NumImports(mm)
        all == n .. n + Len(mm.functions) - 1
        callees == [i \in all |-> Callees(FunctionAt(mm, i).body) \cap all]
        kept == Reach(GcRoots(mm) \cap all, callees, Len(mm.functions))
        map == [i \in 0 .. n - 1 |-> i] @@ [i \in kept |-> n + Cardinality({j \in kept : j < i})]
        survivors == SelectSeq(Indices(Len(mm.functions)), LAMBDA k : n + k - 1 \in kept)
    IN  IF ~Args.gc \/ kept = all THEN mm
        ELSE DropTypes([mm EXCEPT
                !.functions = [k \in DOMAIN survivors |-> [@[survivors[k]] EXCEPT !.body = RemapCalls(@, map)]],
                !.entry = MappedOne(map, @), !.names = MappedNames(map, @),
                !.exported = Mapped(map, @), !.table = Mapped(map, @)])

\* While there is a data segment no function import is dropped.
GcImports(mm) ==
    LET n == NumImports(mm)
        called == UNION {Callees(mm.functions[i].body) : i \in DOMAIN mm.functions}
        reached == IF HasData THEN 0 .. n - 1
                   ELSE (called \cup {mm.entry} \cup Range(mm.exported) \cup Range(mm.table)) \cap 0 .. n - 1
        left == Cardinality(reached)
        map == [i \in reached |-> Cardinality({j \in reached : j < i})]
               @@ [i \in n .. n + Len(mm.functions) - 1 |-> i - n + left]
        kept == SelectSeq(Indices(n), LAMBDA k : k - 1 \in reached)
        wrapped == {i \in DOMAIN mm.wrappers : i \in DOMAIN map /\ mm.wrappers[i] \in DOMAIN map}
        original(w) == CHOOSE i \in wrapped : map[i] = w
    IN  IF ~Args.gc \/ left = n THEN mm
        ELSE [mm EXCEPT !.imports = [k \in DOMAIN kept |-> @[kept[k]]],
                        !.functions = [k \in DOMAIN @ |-> [@[k] EXCEPT !.body = RemapCalls(@, map)]],
                        !.entry = MappedOne(map, @), !.names = MappedNames(map, @),
                        !.exported = Mapped(map, @), !.nostrip = Mapped(map, @), !.table = Mapped(map, @),
                        !.initMemory = MappedOne(map, @),
                        !.wrappers = [w \in {map[i] : i \in wrapped} |-> map[@[original(w)]]]]

\* report_undefined_strong_refs: the imports that code that was kept still uses
\* and that some object needs to be defined.
UndefinedReported(mm) ==
    LET used == UNION {Callees(mm.functions[i].body) : i \in DOMAIN mm.functions} \cup Range(mm.table)
        strong(x) == \E o \in DOMAIN Objects : \E j \in DOMAIN Imports(o) :
                        Imports(o)[j].name = x /\ ~Imports(o)[j].weak
    IN  /\ ~Args.allowUndefined /\ ~Args.stubAll
        /\ \E k \in DOMAIN mm.imports : k - 1 \in used /\ strong(mm.imports[k].name)

\* rebuild_types_in_usage_order.
RebuildTypes(mm) ==
    LET inputs == Pairs(Functions)
        refs(p) == SelectSeq(Functions(p[1])[p[2]].refs, LAMBDA r : r.kind = "type")
        sigs(p) == [k \in DOMAIN refs(p) |-> Objects[p[1]].types[refs(p)[k].to[2] + 1]]
        scanned == SelectSeq(FlattenSeq([k \in DOMAIN inputs |-> sigs(inputs[k])]),
                             LAMBDA t : Contains(mm.types, t))
        wanted == [k \in DOMAIN scanned |-> Place(mm.types, scanned[k])]
                  \o [k \in DOMAIN mm.imports |-> mm.imports[k].type]
                  \o [k \in DOMAIN mm.functions |-> mm.functions[k].type]
                  \o [k \in DOMAIN mm.types |-> k - 1]
        order == FoldLeft(AppendNew, << >>, wanted)
    IN  RetypedTo(mm, [t \in Range(order) |-> Place(order, t)], [k \in DOMAIN order |-> order[k] + 1])

\* The function exports, from name to index. `pick` is the name that the hash
\* map yields first for an exported function.
FunctionExports(mm, pick) ==
    LET explicit(acc, x) ==
            IF x \in DOMAIN acc \/ x \notin DOMAIN mm.names THEN acc
            ELSE acc @@ [y \in NamesOf(mm, mm.names[x]) |-> mm.names[x]]
        flagged(acc, i) ==
            IF NamesOf(mm, i) = {} THEN acc
            ELSE acc @@ (pick[i] :> IF i \in DOMAIN mm.wrappers THEN mm.wrappers[i] ELSE i)
        open == {x \in DOMAIN mm.names : x \notin mm.local /\ (Args.exportAll \/ x \notin mm.hidden)}
        dynamic == IF DynamicExports THEN [x \in open |-> mm.names[x]] ELSE << >>
        entry == IF Args.entry = NoName \/ mm.entry = None THEN << >> ELSE Args.entry :> mm.entry
    IN  FoldLeft(flagged, FoldLeft(explicit, << >>, Args.exports), mm.exported) @@ dynamic @@ entry

-----------------------------------------------------------------------------
\* One action per pass.

Init ==
    /\ link \in Links
    /\ m = Empty
    /\ pass = "collect"

Pass(this, next, mm) == pass = this /\ pass' = next /\ m' = mm /\ UNCHANGED link

CollectPass == Pass("collect", "ctors", Collect)
CtorsPass == Pass("ctors", "stubs", ReserveCtors(m))
StubsPass == Pass("stubs", "mismatches", ReserveWeakStubs(m))
MismatchesPass == Pass("mismatches", "relocations", ReserveMismatchStubs(m))
RelocationsPass == Pass("relocations", "synthesize", ApplyRelocations(m))
SynthesizePass == Pass("synthesize", "imports", SharedMemoryFunctions(InsertCtors(m)))
ImportsPass == Pass("imports", "reorder", CollectImports(m))
ReorderPass == Pass("reorder", "wrap_entry", ReorderSynthFirst(m))
WrapEntryPass ==
    IF WrapsEntry(m)
    THEN \E name \in NamesOf(m, m.entry) : Pass("wrap_entry", "wrap_exported", WrapEntry(m, name))
    ELSE Pass("wrap_entry", "wrap_exported", m)
WrapExportedPass == Pass("wrap_exported", "gc_functions", WrapExported(m))
GcFunctionsPass == Pass("gc_functions", "gc_imports", GcFunctions(m))
GcImportsPass == Pass("gc_imports", "report", GcImports(m))
ReportPass == Pass("report", IF UndefinedReported(m) THEN "undefined" ELSE "types", m)
TypesPass == Pass("types", "exports", RebuildTypes(m))
ExportsPass ==
    \E pick \in [Range(m.exported) -> DOMAIN m.names] :
        /\ \A i \in DOMAIN pick : NamesOf(m, i) # {} => m.names[pick[i]] = i
        /\ Pass("exports", "done", [m EXCEPT !.exports = FunctionExports(m, pick)])
Finished == pass \in {"done", "undefined"} /\ UNCHANGED vars

Next ==
    \/ CollectPass \/ CtorsPass \/ StubsPass \/ MismatchesPass \/ RelocationsPass \/ SynthesizePass
    \/ ImportsPass \/ ReorderPass \/ WrapEntryPass \/ WrapExportedPass \/ GcFunctionsPass
    \/ GcImportsPass \/ ReportPass \/ TypesPass \/ ExportsPass \/ Finished

Spec == Init /\ [][Next]_vars

-----------------------------------------------------------------------------
\* What a linker owes its inputs, stated on the inputs alone.

Discarded(o) == {i \in DOMAIN Functions(o) : Duplicate(o, i)}

\* The definition a name stands for: the first strong one of those that are not
\* in a group already taken, or else the first weak one.
Definitions(x) ==
    SelectSeq(Pairs(Symbols), LAMBDA p : LET sym == Symbols(p[1])[p[2]] IN
                /\ sym.name = x /\ ~sym.local /\ sym.fn \notin Discarded(p[1]))
WinningSymbol(x) ==
    LET defs == Definitions(x)
        strong == {k \in DOMAIN defs : ~Symbols(defs[k][1])[defs[k][2]].weak}
    IN  defs[Min(IF strong = {} THEN DOMAIN defs ELSE strong)]
Winner(x) == LET p == WinningSymbol(x) IN <<"def", p[1], Symbols(p[1])[p[2]].fn>>
Marked(x, flag) == Definitions(x) # << >> /\ LET p == WinningSymbol(x) IN Symbols(p[1])[p[2]][flag]

\* What a reference is to reach. A call of a wrapped function is to reach the
\* wrapper; an import that the definition does not fit, a stub of its own type.
Resolved(o, ref) ==
    LET bySym == ref.to[1] = "sym"
        sym == Symbols(o)[ref.to[2]]
        x == IF bySym THEN sym.name ELSE Imports(o)[ref.to[2]].name
        def == Winner(x)
        weak == \E p \in Range(Pairs(Imports)) : Imports(p[1])[p[2]].name = x /\ Imports(p[1])[p[2]].weak
    IN  CASE bySym /\ sym.local -> <<"def", o, sym.fn>>
          [] x = CtorsName -> <<"ctors">>
          [] x # CtorsName /\ Definitions(x) = << >> ->
                IF weak \/ Args.stubAll THEN <<"weak", x>> ELSE <<"import", x, ImportSig(o, ref.to[2])>>
          [] OTHER ->
                IF ~bySym /\ FunctionSig(def[2], def[3]) # ImportSig(o, ref.to[2]) THEN <<"mismatch", x>>
                ELSE IF ref.kind = "call" /\ x \in Args.wrap
                     THEN <<"import", <<"__wrap">> \o x, FunctionSig(def[2], def[3])>>
                ELSE def

\* What an index of the merged module stands for.
Denoted(idx) ==
    IF idx \in 0 .. NumImports(m) - 1
    THEN <<"import", m.imports[idx + 1].name, m.types[m.imports[idx + 1].type + 1]>>
    ELSE IF IsFunction(m, idx) THEN FunctionAt(m, idx).id ELSE <<"nothing">>

DenotedSlot(slot) == IF slot \in DOMAIN m.table THEN Denoted(m.table[slot]) ELSE <<"nothing">>

Merged == pass \notin {"collect", "ctors", "stubs", "mismatches", "relocations", "synthesize", "imports"}

FunctionAgrees(f) ==
    CASE f.id[1] = "def" /\ f.id[3] \notin Discarded(f.id[2]) ->
            LET refs == Functions(f.id[2])[f.id[3]].refs IN
            /\ m.types[f.type + 1] = FunctionSig(f.id[2], f.id[3])
            /\ DOMAIN f.body.ops = DOMAIN refs
            /\ \A j \in DOMAIN refs :
                  LET val == f.body.ops[j].val IN
                  CASE refs[j].kind = "call" -> Denoted(val) = Resolved(f.id[2], refs[j])
                    [] refs[j].kind = "type" -> m.types[val + 1] = Objects[f.id[2]].types[refs[j].to[2] + 1]
                    [] OTHER -> \/ DenotedSlot(val) = Resolved(f.id[2], refs[j])
                                \/ val = 0 /\ Resolved(f.id[2], refs[j])[1] = "weak"
      [] f.id[1] \in {"weak", "mismatch"} ->
            \E p \in Range(Pairs(Imports)) : /\ Imports(p[1])[p[2]].name = f.id[2]
                                             /\ ImportSig(p[1], p[2]) = m.types[f.type + 1]
      [] OTHER -> TRUE

\* From the moment imports and functions share one index space, every call,
\* address, type and start index in the module stands for what the inputs meant
\* by it, whatever pass moved functions, imports or types last.
IndicesAgree ==
    Merged =>
        /\ \A i \in DOMAIN m.functions : FunctionAgrees(m.functions[i])
        /\ \A k \in DOMAIN m.data :
              LET p == Pairs(LAMBDA o : Objects[o].data)[k] IN
              DenotedSlot(m.data[k]) = Resolved(p[1], Objects[p[1]].data[p[2]])
        /\ m.initMemory # None => Denoted(m.initMemory) = <<"init_memory">>

\* The function a name stands for in the output, if any.
Entity(x) ==
    LET refs == {p \in Range(Pairs(Imports)) : Imports(p[1])[p[2]].name = x} IN
    IF Definitions(x) # << >> THEN {Winner(x)}
    ELSE {Resolved(p[1], [kind |-> "table", to |-> <<"imp", p[2]>>]) : p \in refs}

Occurring == {p \in Range(Pairs(Functions)) : p[2] \notin Discarded(p[1])}
RefsOf(p, kinds) == {r \in Range(Functions(p[1])[p[2]].refs) : r.kind \in kinds}
Called(p) == {Resolved(p[1], r) : r \in RefsOf(p, {"call"})}
CallGraph == [e \in {<<"def", p[1], p[2]>> : p \in Occurring} |-> Called(<<e[2], e[3]>>)]

AllSymbols == {Symbols(p[1])[p[2]] : p \in Range(Pairs(Symbols))}
Flagged == {<<"def", p[1], Symbols(p[1])[p[2]].fn>> :
              p \in {q \in Range(Pairs(Symbols)) : LET sym == Symbols(q[1])[q[2]] IN sym.exported \/ sym.nostrip}}
Slotted == {e \in UNION {{Resolved(p[1], r) : r \in RefsOf(p, {"table"})} : p \in Occurring} : e[1] # "weak"}
           \cup {Resolved(p[1], Objects[p[1]].data[p[2]]) : p \in Range(Pairs(LAMBDA o : Objects[o].data))}
Named == {sym.name : sym \in AllSymbols} \cup {Imports(p[1])[p[2]].name : p \in Range(Pairs(Imports))}

\* What runs or may be asked for from outside.
LiveRoots ==
    Flagged \cup Slotted
    \cup UNION {Entity(x) : x \in {Args.entry} \cup Range(Args.exports)}
    \cup (IF ~DynamicExports THEN {}
          ELSE UNION {Entity(x) : x \in Named}
               \cup {<<"def", p[1], Symbols(p[1])[p[2]].fn>> :
                       p \in {q \in Range(Pairs(Symbols)) : Symbols(q[1])[q[2]].local}}
               \cup {<<"mismatch", SigMismatches[k].name>> : k \in DOMAIN SigMismatches})
Live(graph, roots) ==
    Reach(roots, graph, 1 + Cardinality(DOMAIN graph))

Left == {m.functions[i].id : i \in DOMAIN m.functions}
Kept(live) == IF Args.gc THEN {e \in live : e[1] # "import"} ELSE Left
UsedImports(graph, kept) ==
    {e \in UNION {graph[f] : f \in kept \cap DOMAIN graph} \cup Slotted : e[1] = "import"}

LeftExactly(kept, imports) ==
    /\ Left = kept
    /\ Args.gc /\ ~HasData => {Denoted(k - 1) : k \in DOMAIN m.imports} = imports
    /\ (pass = "undefined") <=> /\ \E e \in imports : Head(e[2]) # "__wrap"
                                /\ ~Args.allowUndefined /\ ~Args.stubAll

\* Dead code goes and live code stays: the functions and imports that are left
\* are exactly those that the exports, the table and the functions that must
\* not be stripped lead to, and the link fails for an undefined function
\* exactly when a function that is left refers to it.
LiveCodeDecides ==
    pass \in {"done", "undefined"} =>
        \E graph \in {CallGraph} : \E kept \in {Kept(Live(graph, LiveRoots))} :
            LeftExactly(kept, UsedImports(graph, kept))

\* The constructors of the objects that are linked in for good, by priority and
\* then in link order: an archive member counts only if live code or another
\* constructor leads to a function of it.
Inits == Pairs(LAMBDA o : Objects[o].inits)
InitTarget(p) == <<"def", p[1], Objects[p[1]].inits[p[2]].fn>>
LinkedInits(ids) ==
    {p \in Range(Inits) : ~Objects[p[1]].archive \/ \E e \in ids : e[1] = "def" /\ e[2] = p[1]}
InOrder(inits) ==
    LET prio(p) == Objects[p[1]].inits[p[2]].prio
        before(p, q) == \/ prio(p) < prio(q)
                        \/ prio(p) = prio(q) /\ (p[1] < q[1] \/ (p[1] = q[1] /\ p[2] < q[2]))
        order == SetToSortSeq(inits, before)
    IN  [k \in DOMAIN order |-> InitTarget(order[k])]
ExpectedInits ==
    CHOOSE order \in
        {InOrder(LinkedInits(FoldLeft(LAMBDA ids, k : Live(graph, ids \cup {InitTarget(p) : p \in LinkedInits(ids)}),
                                      Live(graph, LiveRoots), Indices(Len(Inits) + 1)))) :
            graph \in {CallGraph}} : TRUE

Asked ==
    {x \in Range(Args.exports) \cup {Args.entry} : Entity(x) # {}}
    \cup {x \in {sym.name : sym \in AllSymbols} :
            /\ Definitions(x) # << >>
            /\ Marked(x, "exported") \/ Args.exportAll \/ (Args.exportDynamic /\ ~Marked(x, "hidden"))}

RunsFirst(inits) ==
    LET body(idx) == FunctionAt(m, idx).body
        calls(b) == [j \in DOMAIN b.ops |-> Denoted(b.ops[j].val)]
        ctors == {i \in DOMAIN m.functions : m.functions[i].id = <<"ctors">>}
        wrapped(idx, e) == /\ Denoted(idx) = <<"wrapper", e>>
                           /\ body(idx).intact /\ calls(body(idx)) = << <<"ctors">>, e>>
        needed(x, e) == /\ inits # << >> /\ ~Args.exportAll
                        /\ x = Args.entry \/ Marked(x, "exported")
                        /\ <<"ctors">> \notin Called(<<e[2], e[3]>>)
    IN  /\ \A i \in ctors : m.functions[i].body.intact /\ calls(m.functions[i].body) = inits
        /\ inits # << >> => ctors # {}
        /\ \A x \in Asked : \E e \in Entity(x) :
              /\ x \in DOMAIN m.exports
              /\ wrapped(m.exports[x], e) \/ (Denoted(m.exports[x]) = e /\ ~needed(x, e))

\* Constructors run before anything the host may call: __wasm_call_ctors calls
\* the constructors in order of priority, and the entry and every function
\* marked as exported are there under their names and call it first. What else
\* is to be exported is there too, and nothing local is.
ConstructorsRunFirst ==
    pass = "done" =>
        /\ RunsFirst(ExpectedInits)
        /\ \A x \in DOMAIN m.exports : ~(\E sym \in AllSymbols : sym.name = x /\ sym.local)

=============================================================================
