------------------------------ MODULE LayoutGC ------------------------------
(***************************************************************************)
(* The parallel graph traversal of libwild/src/layout.rs that decides which *)
(* input sections reach the output (find_required_sections).  Each group of *)
(* input files is owned by at most one worker.  A worker that runs out of   *)
(* work parks its GroupState in the group's mutex-protected WorkerSlot, and *)
(* whoever sends work to a parked group takes the state out and spawns a    *)
(* job for it.  The first job of a group, its activation, pushes the roots. *)
(* The group of the __start_/__stop_ symbols may only run once every other  *)
(* group has been activated.                                                *)
(*                                                                         *)
(* A handler runs as a sequence of effects (todo).  The steps of a handler  *)
(* that touch shared memory - the load and the fetch_or of a symbol's       *)
(* flags, a slot's mutex, a start/stop queue, the activation counter - are  *)
(* separate steps, so the handlers of different groups interleave there.    *)
(***************************************************************************)
EXTENDS Naturals, Sequences, FiniteSets

CONSTANTS
    Groups,         \* indices of symbol_db.groups
    Synthetic,      \* the group of the SyntheticSymbols file, always alone in it
    Sections, Symbols, Outputs,
    SecGroup,       \* the group whose object holds a section
    SecOutput,      \* output section of a start_stop_eligible section, else NoOutput
    NoOutput,
    SymGroup,       \* file_id_for_symbol(s).group()
    Def,            \* what load_symbol finds for a symbol: a Definition
    Exportable,     \* symbols of objects for which can_export_symbol holds
    Undefined,      \* symbols for which check_for_undefined reports an error
    SecSeq,         \* sections of a group, in the order activation visits them
    RootRefs,       \* references a group makes while it is activated
    DynamicRefs,    \* definitions elsewhere of the symbols of a group's shared objects
    WholeArchive,   \* symbols load_all_defined_symbols visits
    ExportAll,      \* symbols load_non_hidden_symbols visits
    ScriptSymbols,  \* linker script symbols, exported by activate_symbols
    Inputs          \* the possible Input records of a link

Flag == {"DIRECT", "EXPORT_DYNAMIC", "COPY_RELOCATION"}

Slot == {"Unloaded", "MustLoad", "UnloadedDebugInfo", "MergeStrings",
         "Discard", "Loaded", "LoadedDebugInfo"}

Reference == [sym : Symbols, flags : SUBSET Flag]

Definition ==
    [kind : {"section"}, at : Sections] \cup [kind : {"startstop"}, at : Outputs]
        \cup [kind : {"common", "dynamic", "other"}]

\* What the objects of a link say: the references of each section's
\* relocations (its FDEs included), the slot each section starts in, the
\* sections whose processing returns Err, the groups with a file whose
\* activation does, and whether --no-gc-sections is set.
Input == [refs : [Sections -> Seq(Reference)], slots : [Sections -> Slot],
          broken : SUBSET Sections, failing : SUBSET Groups, noGc : BOOLEAN]

ASSUME InputAssumption ==
    /\ IsFiniteSet(Groups) /\ Synthetic \in Groups
    /\ SecGroup \in [Sections -> Groups \ {Synthetic}]
    /\ NoOutput \notin Outputs
    /\ SecOutput \in [Sections -> Outputs \cup {NoOutput}]
    /\ SymGroup \in [Symbols -> Groups]
    /\ Def \in [Symbols -> Definition]
    /\ Exportable \subseteq Symbols /\ Undefined \subseteq Symbols
    /\ SecSeq \in [Groups -> Seq(Sections)]
    /\ RootRefs \in [Groups -> Seq(Reference)]
    /\ {DynamicRefs, WholeArchive, ExportAll, ScriptSymbols} \subseteq [Groups -> Seq(Symbols)]
    /\ Inputs \subseteq Input

\* A symbol's section is in the symbol's own file, and only the synthetic
\* group defines start/stop symbols.
ASSUME PlacementAssumption ==
    /\ \A s \in Symbols : Def[s].kind = "section" => SecGroup[Def[s].at] = SymGroup[s]
    /\ \A s \in Symbols : Def[s].kind = "startstop" <=> SymGroup[s] = Synthetic
    /\ \A g \in Groups : \A i \in DOMAIN SecSeq[g] : SecGroup[SecSeq[g][i]] = g
    /\ \A x \in Sections : \E i \in DOMAIN SecSeq[SecGroup[x]] : SecSeq[SecGroup[x]][i] = x
    /\ SecSeq[Synthetic] = << >> /\ RootRefs[Synthetic] = << >>
    /\ DynamicRefs[Synthetic] = << >> /\ WholeArchive[Synthetic] = << >>
    /\ ExportAll[Synthetic] = << >> /\ ScriptSymbols[Synthetic] = << >>

VARIABLES
    input,      \* the objects; never changes
    flags,      \* per_symbol_flags: the resolution flags of a symbol
    slot,       \* the SectionSlot of each section
    startStop,  \* start_stop_sections of each output section
    task,       \* where the activation job of a group is
    worker,     \* who holds the GroupState of a group
    todo,       \* what is left of the handler the group's worker is in
    local,      \* LocalWorkQueue::local_work
    slotWork,   \* WorkerSlot::work
    remaining,  \* activations_remaining
    errors,     \* the groups whose files have reported an error
    served,     \* how often each symbol was loaded, exported, copy-relocated
    result      \* what find_required_sections returned

vars == <<input, flags, slot, startStop, task, worker, todo, local, slotWork,
          remaining, errors, served, result>>

TaskState == {"spawned", "activating", "working", "countdown", "draining", "done"}
WorkerState == {"none", "running", "delayed", "parked", "dropped"}

WorkItem ==
    [kind : {"LoadGlobalSymbol", "CopyRelocateSymbol", "ExportDynamic"}, id : Symbols]
        \cup [kind : {"LoadSection"}, id : Sections]

LoadGlobalSymbol(s) == [kind |-> "LoadGlobalSymbol", id |-> s]
CopyRelocateSymbol(s) == [kind |-> "CopyRelocateSymbol", id |-> s]
ExportDynamic(s) == [kind |-> "ExportDynamic", id |-> s]
LoadSection(x) == [kind |-> "LoadSection", id |-> x]

file_group(item) == IF item.kind = "LoadSection" THEN SecGroup[item.id] ELSE SymGroup[item.id]

\* The effects a handler is made of.  "ref", "own" and "script" set flags with
\* fetch_or; "ref" then sends requests to the definition's group, "own" acts at
\* once, "script" exports in any case.  missed: the plain load that precedes
\* the atomic fetch_or found a bit missing.
Effect ==
    [op : {"ref", "own", "script"}, id : Symbols, flags : SUBSET Flag, missed : BOOLEAN]
        \cup [op : {"load", "export", "copy"}, id : Symbols]
        \cup [op : {"visit", "loaded"}, id : Sections]
        \cup [op : {"gather"}, id : Outputs]
        \cup [op : {"send"}, item : WorkItem]
        \cup [op : {"report", "fail"}]

SetFlags(op, s, new) == [op |-> op, id |-> s, flags |-> new, missed |-> FALSE]
Load(s) == [op |-> "load", id |-> s]
Export(s) == [op |-> "export", id |-> s]
Send(item) == [op |-> "send", item |-> item]
Report == [op |-> "report"]
Fail == [op |-> "fail"]

When(P, effect) == IF P THEN <<effect>> ELSE << >>
Each(seq, Op(_)) == [i \in 1..Len(seq) |-> Op(seq[i])]

Ref(r) == SetFlags("ref", r.sym, r.flags)

-----------------------------------------------------------------------------
(* What the files of a group do when they are activated. *)

\* The loop over the sections of an object, then the references of its frame
\* data; for the prelude, the entry point, --defsym targets, imports and -u.
VisitSections(g) == LET Visit(x) == [op |-> "visit", id |-> x] IN Each(SecSeq[g], Visit)
RootReferences(g) == Each(RootRefs[g], Ref)

\* A shared object asks for the definitions elsewhere of its symbols.
request_all_undefined_symbols(g) ==
    LET Request(s) == Send(ExportDynamic(s)) IN Each(DynamicRefs[g], Request)

load_all_defined_symbols(g) ==
    LET Keep(s) == SetFlags("own", s, {"DIRECT"}) IN Each(WholeArchive[g], Keep)

load_non_hidden_symbols(g) ==
    LET Offer(s) == SetFlags("own", s, {"EXPORT_DYNAMIC"}) IN Each(ExportAll[g], Offer)

activate_symbols(g) ==
    LET Script(s) == SetFlags("script", s, {"EXPORT_DYNAMIC"}) IN Each(ScriptSymbols[g], Script)

Activation(g) ==
    VisitSections(g) \o RootReferences(g) \o request_all_undefined_symbols(g)
      \o IF g \in input.failing THEN <<Fail>>
         ELSE load_all_defined_symbols(g) \o load_non_hidden_symbols(g) \o activate_symbols(g)

\* handle_section_load_request: the section becomes Loaded only once all of
\* its relocations have been processed.
SectionRequest(x) ==
    CASE slot[x] \in {"Unloaded", "MustLoad", "UnloadedDebugInfo"} ->
            LET follow == IF slot[x] = "UnloadedDebugInfo" THEN << >>
                          ELSE Each(input.refs[x], Ref)
            IN  follow \o <<IF x \in input.broken THEN Fail ELSE [op |-> "loaded", id |-> x]>>
      [] slot[x] = "Discard" -> <<Fail>>
      [] OTHER -> << >>

\* do_work: the effects of a work item on the file it is addressed to.
do_work(item) ==
    CASE item.kind = "LoadGlobalSymbol" -> <<Load(item.id)>>
      [] item.kind = "CopyRelocateSymbol" ->
            <<IF Def[item.id].kind = "dynamic" THEN [op |-> "copy", id |-> item.id] ELSE Fail>>
      [] item.kind = "LoadSection" -> SectionRequest(item.id)
      [] item.kind = "ExportDynamic" ->
            When(item.id \in Exportable, SetFlags("own", item.id, {"EXPORT_DYNAMIC"}))

\* What fetch_or returns: the bits before they were or-ed.
PreviousBits_new(old, new) == old \cup new   \* (mutant)
PreviousBits(old, new) == old

\* !has_resolution(): any resolution flag at all means that the symbol has
\* been requested before.
FirstUse_direct(prev) == "DIRECT" \notin prev   \* (mutant)
FirstUse(prev) == prev = {}

\* What follows a fetch_or that returned prev, at the end of process_relocation
\* and in the prelude's loads ...
AfterReference(s, new, prev) ==
    When(FirstUse(prev), Send(LoadGlobalSymbol(s))) \o When(s \in Undefined, Report)
      \o When("COPY_RELOCATION" \in new \ prev, Send(CopyRelocateSymbol(s)))

\* ... and in export_dynamic and the loops over an object's own symbols.
AfterOwn(s, new, prev) ==
    When(FirstUse(prev), Load(s)) \o When("EXPORT_DYNAMIC" \in new \ prev, Export(s))

AfterFetchOr(op, s, new, prev) ==
    CASE op = "ref" -> AfterReference(s, new, prev)
      [] op = "own" -> AfterOwn(s, new, prev)
      [] op = "script" -> <<Export(s)>>

-----------------------------------------------------------------------------

Init ==
    /\ input \in Inputs
    /\ flags = [s \in Symbols |-> {}]
    /\ slot = input.slots
    /\ startStop = [o \in Outputs |-> << >>]
    /\ task = [g \in Groups |-> "spawned"]
    /\ worker = [g \in Groups |-> "none"]
    /\ todo = [g \in Groups |-> << >>]
    /\ local = [g \in Groups |-> << >>]
    /\ slotWork = [g \in Groups |-> << >>]
    /\ remaining = Cardinality(Groups)
    /\ errors = {}
    /\ served = [s \in Symbols |-> [load |-> 0, export |-> 0, copy |-> 0]]
    /\ result = "none"

Running(g, op) == worker[g] = "running" /\ todo[g] # << >> /\ Head(todo[g]).op = op

\* The head of the handler is done; effects come before the rest of it.
Continue(g, effects) == todo' = [todo EXCEPT ![g] = effects \o Tail(@)]

\* activate_group starts: GroupState is created and its files are activated.
Activate(g) ==
    /\ task[g] = "spawned"
    /\ task' = [task EXCEPT ![g] = "activating"]
    /\ worker' = [worker EXCEPT ![g] = "running"]
    /\ todo' = [todo EXCEPT ![g] = Activation(g)]
    /\ UNCHANGED <<input, flags, slot, startStop, local, slotWork, remaining, errors,
                   served, result>>

\* One section of the loop in ObjectLayoutState::activate.
VisitSection(g) ==
    /\ Running(g, "visit")
    /\ LET x == Head(todo[g]).id
           request == \/ slot[x] \in {"MustLoad", "UnloadedDebugInfo", "MergeStrings"}
                      \/ slot[x] = "Unloaded" /\ input.noGc
           eligible == ~request /\ slot[x] = "Unloaded" /\ SecOutput[x] # NoOutput
       IN  /\ local' = IF request THEN [local EXCEPT ![g] = Append(@, LoadSection(x))] ELSE local
           /\ startStop' = IF eligible THEN [startStop EXCEPT ![SecOutput[x]] = Append(@, x)]
                           ELSE startStop
    /\ Continue(g, << >>)
    /\ UNCHANGED <<input, flags, slot, task, worker, slotWork, remaining, errors, served, result>>

\* AtomicValueFlags::fetch_or: a plain load decides whether the atomic
\* read-modify-write is needed at all ...
FlagsLoad(g) ==
    /\ \E op \in {"ref", "own", "script"} : Running(g, op)
    /\ LET e == Head(todo[g]) IN
        /\ ~e.missed
        /\ Continue(g, IF e.flags \subseteq flags[e.id]
                       THEN AfterFetchOr(e.op, e.id, e.flags, flags[e.id])
                       ELSE <<[e EXCEPT !.missed = TRUE]>>)
    /\ UNCHANGED <<input, flags, slot, startStop, task, worker, local, slotWork, remaining,
                   errors, served, result>>

\* ... which returns the flags as they are then, not as they were loaded.
FlagsFetchOr(g) ==
    /\ \E op \in {"ref", "own", "script"} : Running(g, op)
    /\ LET e == Head(todo[g]) IN
        /\ e.missed
        /\ flags' = [flags EXCEPT ![e.id] = @ \cup e.flags]
        /\ Continue(g, AfterFetchOr(e.op, e.id, e.flags, PreviousBits(flags[e.id], e.flags)))
    /\ UNCHANGED <<input, slot, startStop, task, worker, local, slotWork, remaining, errors,
                   served, result>>

\* SymbolRequestHandler::load_symbol of the file that defines the symbol.
LoadSymbol(g) ==
    /\ Running(g, "load")
    /\ LET s == Head(todo[g]).id IN
        /\ served' = [served EXCEPT ![s].load = @ + 1]
        /\ local' = IF Def[s].kind = "section"
                    THEN [local EXCEPT ![g] = Append(@, LoadSection(Def[s].at))] ELSE local
        /\ Continue(g, When(Def[s].kind = "startstop", [op |-> "gather", id |-> Def[s].at]))
    /\ UNCHANGED <<input, flags, slot, startStop, task, worker, slotWork, remaining, errors, result>>

\* export_dynamic and copy_relocate_symbol record the symbol in the group.
RecordSymbol(g) ==
    /\ Running(g, "export") \/ Running(g, "copy")
    /\ LET e == Head(todo[g]) IN
        served' = IF e.op = "export" THEN [served EXCEPT ![e.id].export = @ + 1]
                  ELSE [served EXCEPT ![e.id].copy = @ + 1]
    /\ Continue(g, << >>)
    /\ UNCHANGED <<input, flags, slot, startStop, task, worker, local, slotWork, remaining,
                   errors, result>>

\* The end of load_section: the slot becomes Loaded.
SectionLoaded(g) ==
    /\ Running(g, "loaded")
    /\ LET x == Head(todo[g]).id IN
        slot' = [slot EXCEPT ![x] = IF @ = "UnloadedDebugInfo" THEN "LoadedDebugInfo" ELSE "Loaded"]
    /\ Continue(g, << >>)
    /\ UNCHANGED <<input, flags, startStop, task, worker, local, slotWork, remaining, errors,
                   served, result>>

\* The loop over sections.pop() in the synthetic symbols' load_symbol.
Gather(g) ==
    /\ Running(g, "gather")
    /\ LET e == Head(todo[g])
           queue == startStop[e.id]
       IN  IF queue = << >> THEN Continue(g, << >>) /\ UNCHANGED startStop
           ELSE /\ startStop' = [startStop EXCEPT ![e.id] = Tail(@)]
                /\ Continue(g, <<Send(LoadSection(Head(queue))), e>>)
    /\ UNCHANGED <<input, flags, slot, task, worker, local, slotWork, remaining, errors,
                   served, result>>

\* slot.worker.take() and the spawn that follows it when there was a worker.
Wake_forgotten(state) == state   \* (mutant)
Wake(state) == IF state = "parked" THEN "running" ELSE state

\* LocalWorkQueue::send_work: to itself a group pushes directly, to another
\* group through the slot, taking a parked worker out and spawning a job.
SendWork(g) ==
    /\ Running(g, "send")
    /\ LET item == Head(todo[g]).item
           to == file_group(item)
       IN  IF to = g
           THEN /\ local' = [local EXCEPT ![g] = Append(@, item)]
                /\ UNCHANGED <<slotWork, worker>>
           ELSE /\ slotWork' = [slotWork EXCEPT ![to] = Append(@, item)]
                /\ worker' = [worker EXCEPT ![to] = Wake(@)]
                /\ UNCHANGED local
    /\ Continue(g, << >>)
    /\ UNCHANGED <<input, flags, slot, startStop, task, remaining, errors, served, result>>

report_error(g) == errors' = errors \cup {g}

\* check_for_undefined reports the error and lets the handler go on.
ReportUndefined(g) ==
    /\ Running(g, "report")
    /\ report_error(g)
    /\ Continue(g, << >>)
    /\ UNCHANGED <<input, flags, slot, startStop, task, worker, local, slotWork, remaining,
                   served, result>>

\* A file's activation returned Err: the error is kept, the group goes on.
ActivationFails(g) ==
    /\ task[g] = "activating" /\ Running(g, "fail")
    /\ report_error(g)
    /\ Continue(g, << >>)
    /\ UNCHANGED <<input, flags, slot, startStop, task, worker, local, slotWork, remaining,
                   served, result>>

\* should_delay_processing
Delayed_never(g) == FALSE   \* (mutant)
Delayed(g) == g = Synthetic

\* All files of a group are activated.  The synthetic group is put aside in
\* delay_processing, any other goes on to do_pending_work.
FinishActivation(g) ==
    /\ task[g] = "activating" /\ todo[g] = << >>
    /\ IF Delayed(g)
       THEN /\ worker' = [worker EXCEPT ![g] = "delayed"]
            /\ task' = [task EXCEPT ![g] = "countdown"]
       ELSE /\ task' = [task EXCEPT ![g] = "working"]
            /\ UNCHANGED worker
    /\ UNCHANGED <<input, flags, slot, startStop, todo, local, slotWork, remaining, errors,
                   served, result>>

\* do_pending_work returns: if it was the activation job that called it, that
\* job goes on to count its activation as done.
Return_forgotten(g) == UNCHANGED task   \* (mutant)
Return(g) == task' = [task EXCEPT ![g] = IF @ = "working" THEN "countdown" ELSE @]

\* do_pending_work between two work items.
Idle(g) == worker[g] = "running" /\ task[g] # "activating" /\ todo[g] = << >>

\* local_work.pop(): the last item pushed is handled first.
PopLocal(g) ==
    /\ Idle(g) /\ local[g] # << >>
    /\ todo' = [todo EXCEPT ![g] = do_work(local[g][Len(local[g])])]
    /\ local' = [local EXCEPT ![g] = SubSeq(@, 1, Len(@) - 1)]
    /\ UNCHANGED <<input, flags, slot, startStop, task, worker, slotWork, remaining, errors,
                   served, result>>

\* Under the slot's mutex: take the work sent by others, or park when there is
\* none.
LockSlot(g) ==
    /\ Idle(g) /\ local[g] = << >>
    /\ IF slotWork[g] = << >>
       THEN /\ worker' = [worker EXCEPT ![g] = "parked"]
            /\ Return(g)
            /\ UNCHANGED <<local, slotWork>>
       ELSE /\ local' = [local EXCEPT ![g] = slotWork[g]]
            /\ slotWork' = [slotWork EXCEPT ![g] = << >>]
            /\ UNCHANGED <<worker, task>>
    /\ UNCHANGED <<input, flags, slot, startStop, todo, remaining, errors, served, result>>

\* A work item returned Err: do_pending_work reports it and drops the group.
WorkFails(g) ==
    /\ task[g] # "activating" /\ Running(g, "fail")
    /\ report_error(g)
    /\ worker' = [worker EXCEPT ![g] = "dropped"]
    /\ todo' = [todo EXCEPT ![g] = << >>]
    /\ local' = [local EXCEPT ![g] = << >>]
    /\ Return(g)
    /\ UNCHANGED <<input, flags, slot, startStop, slotWork, remaining, served, result>>

\* fetch_sub returns the count before the subtraction.
LastActivation_zero(before) == before = 0   \* (mutant)
LastActivation(before) == before - 1 = 0

\* activations_remaining.fetch_sub(1): the job that takes it to zero drains
\* delay_processing.
CountDown(g) ==
    /\ task[g] = "countdown"
    /\ remaining' = remaining - 1
    /\ task' = [task EXCEPT ![g] = IF LastActivation(remaining) THEN "draining" ELSE "done"]
    /\ UNCHANGED <<input, flags, slot, startStop, worker, todo, local, slotWork, errors,
                   served, result>>

\* The loop over delay_processing.pop() is left when the queue is empty.
DrainEnds(g) == task' = [task EXCEPT ![g] = "done"] /\ UNCHANGED worker

\* One round of that loop.
Drain(g) ==
    /\ task[g] = "draining"
    /\ IF worker[Synthetic] = "delayed"
       THEN worker' = [worker EXCEPT ![Synthetic] = "running"] /\ UNCHANGED task
       ELSE DrainEnds(g)
    /\ UNCHANGED <<input, flags, slot, startStop, todo, local, slotWork, remaining, errors,
                   served, result>>

ScopeDone == \A g \in Groups : task[g] = "done" /\ worker[g] # "running"

\* The rayon scope ends once no job is left; find_required_sections returns.
Finish ==
    /\ result = "none" /\ ScopeDone
    /\ result' = IF errors # {} THEN "Err" ELSE "Ok"
    /\ UNCHANGED <<input, flags, slot, startStop, task, worker, todo, local, slotWork,
                   remaining, errors, served>>

\* find_required_sections has returned; nothing runs any more.
Returned == result # "none" /\ UNCHANGED vars

\* The steps of whoever holds the state of group g.
Work(g) ==
    \/ Activate(g) \/ VisitSection(g) \/ FlagsLoad(g) \/ FlagsFetchOr(g) \/ LoadSymbol(g)
    \/ RecordSymbol(g) \/ SectionLoaded(g) \/ Gather(g) \/ SendWork(g) \/ ReportUndefined(g)
    \/ ActivationFails(g) \/ FinishActivation(g) \/ PopLocal(g) \/ LockSlot(g) \/ WorkFails(g)

\* The end of a group's activation job, after do_pending_work returned to it.
JobEnd(g) == CountDown(g) \/ Drain(g)

Next == (\E g \in Groups : Work(g) \/ JobEnd(g)) \/ Finish \/ Returned

\* A rayon scope runs every job spawned in it and waits for all of them, and a
\* job only ever waits for a mutex that is held for a few instructions.
Fairness == (\A g \in Groups : WF_vars(Work(g)) /\ WF_vars(JobEnd(g))) /\ WF_vars(Finish)

Spec == Init /\ [][Next]_vars
FairSpec == Spec /\ Fairness

-----------------------------------------------------------------------------
(* Reference definition: what a link must keep, as a fixed point. *)

ToSet(seq) == {seq[i] : i \in DOMAIN seq}

\* The sections activation requests whatever the symbols say.
Kept(in) == {x \in Sections : \/ in.slots[x] \in {"MustLoad", "UnloadedDebugInfo", "MergeStrings"}
                              \/ in.slots[x] = "Unloaded" /\ in.noGc}

\* The symbols activation asks for.
RootSymbols(in) ==
    UNION {{r.sym : r \in ToSet(RootRefs[g])} \cup (ToSet(DynamicRefs[g]) \cap Exportable)
             \cup (IF g \in in.failing THEN {}
                   ELSE ToSet(WholeArchive[g]) \cup ToSet(ExportAll[g]) \cup ToSet(ScriptSymbols[g]))
           : g \in Groups}

\* The sections that must be loaded when the symbols in F are live.
SectionsFor(F, in) ==
    Kept(in) \cup {Def[s].at : s \in {t \in F : Def[t].kind = "section"}}
      \cup {x \in Sections : /\ in.slots[x] = "Unloaded" /\ SecOutput[x] # NoOutput
                             /\ \E s \in F : Def[s].kind = "startstop" /\ Def[s].at = SecOutput[x]}

Followed(x, in) == IF in.slots[x] \in {"Unloaded", "MustLoad"} THEN ToSet(in.refs[x]) ELSE {}

Closed(F, in) ==
    /\ RootSymbols(in) \subseteq F
    /\ \A x \in SectionsFor(F, in) : \A r \in Followed(x, in) : r.sym \in F

\* The least closed set of symbols.
Required(in) == {s \in Symbols : \A F \in SUBSET Symbols : Closed(F, in) => s \in F}

Live == {s \in Symbols : flags[s] # {}}
Loaded == {x \in Sections : slot[x] \in {"Loaded", "LoadedDebugInfo"}}

-----------------------------------------------------------------------------
(* Properties. *)

\* The types of the traversal's state; the activation counter never underflows.
TypeOK ==
    /\ input \in Inputs
    /\ flags \in [Symbols -> SUBSET Flag]
    /\ slot \in [Sections -> Slot]
    /\ startStop \in [Outputs -> Seq(Sections)]
    /\ task \in [Groups -> TaskState]
    /\ worker \in [Groups -> WorkerState]
    /\ todo \in [Groups -> Seq(Effect)]
    /\ local \in [Groups -> Seq(WorkItem)]
    /\ slotWork \in [Groups -> Seq(WorkItem)]
    /\ remaining \in 0..Cardinality(Groups)
    /\ errors \subseteq Groups
    /\ served \in [Symbols -> [load : Nat, export : Nat, copy : Nat]]
    /\ result \in {"none", "Ok", "Err"}

\* No work is lost between a worker that finds its slot empty and parks, and a
\* sender that finds no worker to take: work in the slot of a parked group
\* would never be done.
NoLostWork == \A g \in Groups : worker[g] = "parked" => slotWork[g] = << >>

\* However many groups refer to a symbol at once, one of them sees that it is
\* the first: the symbol is loaded once (a common symbol is allocated once),
\* gets one dynamic symbol entry and one copy relocation.
ServedOnce == \A s \in Symbols : served[s].load <= 1 /\ served[s].export <= 1 /\ served[s].copy <= 1

\* The synthetic group handles __start_/__stop_ requests only when every group
\* has been activated, hence has offered its start/stop sections.
StartStopComplete ==
    worker[Synthetic] = "running" /\ task[Synthetic] # "activating"
        => \A g \in Groups : task[g] \notin {"spawned", "activating"}

\* A successful traversal hands all groups on to the next phase, in order:
\* unwrap_worker_states silently skips a slot with no worker in it.
AllGroupsReturned == result = "Ok" => \A g \in Groups : worker[g] = "parked"

\* Something a link needs fails: a section that cannot be processed, an
\* undefined symbol, an activation.
MustFail(in) ==
    LET S == SectionsFor(Required(in), in)
        refs == UNION {ToSet(RootRefs[g]) : g \in Groups} \cup UNION {Followed(x, in) : x \in S}
    IN  \/ in.failing # {}
        \/ \E x \in S : \/ in.slots[x] = "Discard"
                        \/ x \in in.broken /\ in.slots[x] # "MergeStrings"
        \/ \E r \in refs : \/ r.sym \in Undefined
                           \/ "COPY_RELOCATION" \in r.flags /\ Def[r.sym].kind # "dynamic"

\* Garbage collection is exact and does not depend on the schedule.  When the
\* traversal succeeds, the live symbols are the least closed set and the loaded
\* sections are the ones it needs.  Whether it fails is decided by the inputs,
\* although an error drops its group with all the work queued for it.
Exact ==
    /\ result # "none" => (result = "Err" <=> MustFail(input))
    /\ result = "Ok" =>
        /\ Live = Required(input)
        /\ \A x \in Sections : input.slots[x] \in {"Unloaded", "MustLoad", "UnloadedDebugInfo"} =>
              (x \in Loaded <=> x \in SectionsFor(Live, input))

\* The traversal comes to an end, also after errors.
Termination == <>(result # "none")
=============================================================================
