-------------------------- MODULE LayoutGC_proof --------------------------
(***************************************************************************)
(* Proofs about the parallel section traversal, for any groups, sections,   *)
(* symbols and references.                                                  *)
(***************************************************************************)
EXTENDS LayoutGC, TLAPS, FiniteSetTheorems, SequenceTheorems

\* One conditional effect is a sequence of effects.
LEMMA WhenType ==
    ASSUME NEW P \in BOOLEAN, NEW e \in Effect
    PROVE  When(P, e) \in Seq(Effect)
BY DEF When

\* The effects after a fetch_or are well typed.
LEMMA AfterFetchOrType ==
    ASSUME NEW op \in {"ref", "own", "script"}, NEW s \in Symbols,
           NEW new \in SUBSET Flag, NEW prev \in SUBSET Flag
    PROVE  AfterFetchOr(op, s, new, prev) \in Seq(Effect)
<1> DEFINE l == Send(LoadGlobalSymbol(s))
           c == Send(CopyRelocateSymbol(s))
<1>1. l \in Effect /\ c \in Effect /\ Load(s) \in Effect /\ Export(s) \in Effect /\ Report \in Effect
    BY DEF Send, LoadGlobalSymbol, CopyRelocateSymbol, Load, Export, Report, Effect, WorkItem
<1>2. /\ When(FirstUse(prev), l) \in Seq(Effect)
      /\ When(s \in Undefined, Report) \in Seq(Effect)
      /\ When("COPY_RELOCATION" \in new \ prev, c) \in Seq(Effect)
      /\ When(FirstUse(prev), Load(s)) \in Seq(Effect)
      /\ When("EXPORT_DYNAMIC" \in new \ prev, Export(s)) \in Seq(Effect)
      /\ <<Export(s)>> \in Seq(Effect)
    BY <1>1 DEF When
<1> HIDE DEF l, c
<1>3. /\ When(FirstUse(prev), l) \o When(s \in Undefined, Report)
            \o When("COPY_RELOCATION" \in new \ prev, c) \in Seq(Effect)
      /\ When(FirstUse(prev), Load(s)) \o When("EXPORT_DYNAMIC" \in new \ prev, Export(s)) \in Seq(Effect)
    BY <1>2
<1> QED  BY <1>2, <1>3 DEF AfterFetchOr, AfterReference, AfterOwn, l, c

\* A sequence of references is processed by a sequence of effects.
LEMMA ReferencesType ==
    ASSUME NEW q \in Seq(Reference)
    PROVE  Each(q, Ref) \in Seq(Effect)
<1>1. \A r \in Reference : Ref(r) \in Effect
    BY DEF Ref, SetFlags, Effect, Reference
<1>2. \A i \in 1..Len(q) : Ref(q[i]) \in Effect
    BY <1>1
<1>3. [i \in 1..Len(q) |-> Ref(q[i])] \in [1..Len(q) -> Effect]
    BY <1>2
<1> QED  BY <1>3 DEF Each

\* The effects of a group's activation are well typed.
LEMMA ActivationType ==
    ASSUME NEW g \in Groups, input \in Inputs
    PROVE  Activation(g) \in Seq(Effect)
<1>1. /\ SecSeq[g] \in Seq(Sections) /\ RootRefs[g] \in Seq(Reference)
      /\ DynamicRefs[g] \in Seq(Symbols) /\ WholeArchive[g] \in Seq(Symbols)
      /\ ExportAll[g] \in Seq(Symbols) /\ ScriptSymbols[g] \in Seq(Symbols)
    BY InputAssumption
<1>2. VisitSections(g) \in Seq(Effect)
    BY <1>1 DEF VisitSections, Each, Effect
<1>3. RootReferences(g) \in Seq(Effect)
    BY <1>1, ReferencesType DEF RootReferences
<1>4. request_all_undefined_symbols(g) \in Seq(Effect)
    BY <1>1 DEF request_all_undefined_symbols, Each, Send, ExportDynamic, Effect, WorkItem
<1>5. load_all_defined_symbols(g) \in Seq(Effect)
    BY <1>1 DEF load_all_defined_symbols, Each, SetFlags, Effect, Flag
<1>6. load_non_hidden_symbols(g) \in Seq(Effect)
    BY <1>1 DEF load_non_hidden_symbols, Each, SetFlags, Effect, Flag
<1>7. activate_symbols(g) \in Seq(Effect)
    BY <1>1 DEF activate_symbols, Each, SetFlags, Effect, Flag
<1>8. <<Fail>> \in Seq(Effect)
    BY DEF Fail, Effect
<1> QED  BY <1>2, <1>3, <1>4, <1>5, <1>6, <1>7, <1>8 DEF Activation

\* The effects of a work item are well typed.
LEMMA do_workType ==
    ASSUME NEW item \in WorkItem, input \in Inputs, slot \in [Sections -> Slot]
    PROVE  do_work(item) \in Seq(Effect)
<1>1. ASSUME NEW x \in Sections PROVE SectionRequest(x) \in Seq(Effect)
  <2>1. input.refs[x] \in Seq(Reference)
      BY InputAssumption DEF Input
  <2>2. Each(input.refs[x], Ref) \in Seq(Effect)
      BY <2>1, ReferencesType
  <2>3. <<Fail>> \in Seq(Effect) /\ <<[op |-> "loaded", id |-> x]>> \in Seq(Effect)
      BY DEF Fail, Effect
  <2> QED  BY <2>2, <2>3 DEF SectionRequest
<1>2. CASE item.kind = "LoadGlobalSymbol"
    BY <1>2 DEF do_work, Load, Effect, WorkItem
<1>3. CASE item.kind = "CopyRelocateSymbol"
    BY <1>3 DEF do_work, Fail, Effect, WorkItem
<1>4. CASE item.kind = "LoadSection"
    BY <1>1, <1>4 DEF do_work, WorkItem
<1>5. CASE item.kind = "ExportDynamic"
  <2>1. SetFlags("own", item.id, {"EXPORT_DYNAMIC"}) \in Effect
      BY <1>5 DEF SetFlags, Effect, WorkItem, Flag
  <2> QED  BY <1>5, <2>1 DEF do_work, When
<1> QED  BY <1>2, <1>3, <1>4, <1>5 DEF WorkItem
\* What is left of a handler after its head, with new effects before it.
LEMMA ContinueType ==
    ASSUME NEW g \in Groups, todo \in [Groups -> Seq(Effect)], todo[g] # << >>
    PROVE  /\ \A q \in Seq(Effect) : Continue(g, q) => todo' \in [Groups -> Seq(Effect)]
           /\ Continue(g, << >>) => todo' \in [Groups -> Seq(Effect)]
<1>1. Tail(todo[g]) \in Seq(Effect) /\ << >> \in Seq(Effect)
    OBVIOUS
<1>2. \A q \in Seq(Effect) : q \o Tail(todo[g]) \in Seq(Effect)
    BY <1>1
<1>3. \A q \in Seq(Effect) : Continue(g, q) => todo' \in [Groups -> Seq(Effect)]
    BY <1>2 DEF Continue
<1> QED  BY Zenon, <1>1, <1>3

\* Counting one more load, export or copy of a symbol.
LEMMA CountType ==
    ASSUME NEW r \in [load : Nat, export : Nat, copy : Nat]
    PROVE  /\ [r EXCEPT !.load = @ + 1] \in [load : Nat, export : Nat, copy : Nat]
           /\ [r EXCEPT !.export = @ + 1] \in [load : Nat, export : Nat, copy : Nat]
           /\ [r EXCEPT !.copy = @ + 1] \in [load : Nat, export : Nat, copy : Nat]
<1>1. r.load + 1 \in Nat /\ r.export + 1 \in Nat /\ r.copy + 1 \in Nat
    OBVIOUS
<1>2. ASSUME NEW n \in Nat
      PROVE  /\ [r EXCEPT !.load = n] \in [load : Nat, export : Nat, copy : Nat]
             /\ [r EXCEPT !.export = n] \in [load : Nat, export : Nat, copy : Nat]
             /\ [r EXCEPT !.copy = n] \in [load : Nat, export : Nat, copy : Nat]
    OBVIOUS
<1> QED  BY <1>1, <1>2

\* Pushing an element onto one of several queues.
LEMMA PushType ==
    ASSUME NEW S, NEW T, NEW f \in [S -> Seq(T)], NEW k \in S, NEW v \in T
    PROVE  [f EXCEPT ![k] = Append(@, v)] \in [S -> Seq(T)]
<1>1. Append(f[k], v) \in Seq(T)
    OBVIOUS
<1> QED  BY <1>1

\* Every step of whoever holds a group's state preserves the types.
LEMMA WorkType ==
    ASSUME TypeOK, NEW g \in Groups, Work(g)
    PROVE  TypeOK'
<1> USE DEF TypeOK
<1>e. todo[g] # << >> => Head(todo[g]) \in Effect
    OBVIOUS
<1>1. CASE Activate(g)
    BY <1>1, ActivationType DEF Activate, TaskState, WorkerState
<1>2. CASE VisitSection(g)
  <2> DEFINE x == Head(todo[g]).id
  <2>1. x \in Sections /\ todo[g] # << >>
      BY <1>2, <1>e DEF VisitSection, Running, Effect
  <2>2. LoadSection(x) \in WorkItem
      BY <2>1 DEF LoadSection, WorkItem
  <2>3. SecOutput[x] # NoOutput => SecOutput[x] \in Outputs
      BY Zenon, <2>1, InputAssumption
  <2>4. todo' \in [Groups -> Seq(Effect)]
    <3>1. Continue(g, << >>)
        BY <1>2 DEF VisitSection
    <3> QED  BY <2>1, <3>1, ContinueType
  <2>5. local' \in [Groups -> Seq(WorkItem)]
    <3>1. local' = local \/ local' = [local EXCEPT ![g] = Append(@, LoadSection(x))]
        BY Zenon, <1>2 DEF VisitSection
    <3>2. local \in [Groups -> Seq(WorkItem)]
        OBVIOUS
    <3>3. \A w \in WorkItem : [local EXCEPT ![g] = Append(@, w)] \in [Groups -> Seq(WorkItem)]
        BY <3>2, PushType
    <3> QED  BY Zenon, <2>2, <3>1, <3>2, <3>3
  <2>6. startStop' \in [Outputs -> Seq(Sections)]
    <3>1. \/ startStop' = startStop
          \/ /\ SecOutput[x] # NoOutput
             /\ startStop' = [startStop EXCEPT ![SecOutput[x]] = Append(@, x)]
        BY Zenon, <1>2 DEF VisitSection
    <3>2. startStop \in [Outputs -> Seq(Sections)]
        OBVIOUS
    <3>3. \A o \in Outputs, y \in Sections :
            [startStop EXCEPT ![o] = Append(@, y)] \in [Outputs -> Seq(Sections)]
        BY <3>2, PushType
    <3>4. CASE startStop' = startStop
        BY Zenon, <3>2, <3>4
    <3>5. CASE /\ SecOutput[x] # NoOutput
               /\ startStop' = [startStop EXCEPT ![SecOutput[x]] = Append(@, x)]
      <4>1. SecOutput[x] \in Outputs /\ x \in Sections
          BY Zenon, <2>1, <2>3, <3>5
      <4>2. [startStop EXCEPT ![SecOutput[x]] = Append(@, x)] \in [Outputs -> Seq(Sections)]
          BY Zenon, <3>3, <4>1
      <4> QED  BY Zenon, <3>5, <4>2
    <3> QED  BY Zenon, <3>1, <3>4, <3>5
  <2> QED  BY <1>2, <2>4, <2>5, <2>6 DEF VisitSection
<1>3. CASE FlagsLoad(g)
  <2> DEFINE e == Head(todo[g])
  <2>1. /\ todo[g] # << >> /\ e \in Effect /\ e.op \in {"ref", "own", "script"}
      BY <1>3, <1>e DEF FlagsLoad, Running
  <2>2. e.id \in Symbols /\ e.flags \in SUBSET Flag /\ [e EXCEPT !.missed = TRUE] \in Effect
      BY Zenon, <2>1 DEF Effect
  <2>3. AfterFetchOr(e.op, e.id, e.flags, flags[e.id]) \in Seq(Effect)
      BY Zenon, <2>1, <2>2, AfterFetchOrType
  <2>4. todo' \in [Groups -> Seq(Effect)]
    <3>1. PICK q \in Seq(Effect) : Continue(g, q)
      <4>1. <<[e EXCEPT !.missed = TRUE]>> \in Seq(Effect)
          BY <2>2
      <4> QED  BY Zenon, <1>3, <2>3, <4>1 DEF FlagsLoad
    <3> QED  BY Zenon, <2>1, <3>1, ContinueType
  <2> QED  BY <1>3, <2>4 DEF FlagsLoad
<1>4. CASE FlagsFetchOr(g)
  <2> DEFINE e == Head(todo[g])
  <2>1. /\ todo[g] # << >> /\ e \in Effect /\ e.op \in {"ref", "own", "script"}
      BY <1>4, <1>e DEF FlagsFetchOr, Running
  <2>2. e.id \in Symbols /\ e.flags \in SUBSET Flag
      BY <2>1 DEF Effect
  <2>3. AfterFetchOr(e.op, e.id, e.flags, PreviousBits(flags[e.id], e.flags)) \in Seq(Effect)
      BY Zenon, <2>1, <2>2, AfterFetchOrType DEF PreviousBits
  <2>4. todo' \in [Groups -> Seq(Effect)]
    <3>1. PICK q \in Seq(Effect) : Continue(g, q)
        BY <1>4, <2>3 DEF FlagsFetchOr
    <3> QED  BY Zenon, <2>1, <3>1, ContinueType
  <2>5. flags' \in [Symbols -> SUBSET Flag]
      BY <1>4, <2>2 DEF FlagsFetchOr
  <2> QED  BY <1>4, <2>4, <2>5 DEF FlagsFetchOr
<1>5. CASE LoadSymbol(g)
  <2> DEFINE s == Head(todo[g]).id
  <2>1. todo[g] # << >> /\ s \in Symbols
      BY <1>5, <1>e DEF LoadSymbol, Running, Effect
  <2>2. Def[s] \in Definition
      BY Zenon, <2>1, InputAssumption
  <2>3. Def[s].kind = "section" => LoadSection(Def[s].at) \in WorkItem
      BY <2>2 DEF Definition, LoadSection, WorkItem
  <2>4. When(Def[s].kind = "startstop", [op |-> "gather", id |-> Def[s].at]) \in Seq(Effect)
    <3>1. CASE Def[s].kind = "startstop"
      <4>1. [op |-> "gather", id |-> Def[s].at] \in Effect
          BY <2>2, <3>1 DEF Definition, Effect
      <4>2. When(Def[s].kind = "startstop", [op |-> "gather", id |-> Def[s].at])
                = <<[op |-> "gather", id |-> Def[s].at]>>
          BY <3>1 DEF When
      <4>3. \A e \in Effect : <<e>> \in Seq(Effect)
          OBVIOUS
      <4> QED  BY Zenon, <4>1, <4>2, <4>3
    <3>2. CASE Def[s].kind # "startstop"
        BY <3>2 DEF When
    <3> QED  BY <3>1, <3>2
  <2>5. todo' \in [Groups -> Seq(Effect)]
    <3>1. PICK q \in Seq(Effect) : Continue(g, q)
        BY <1>5, <2>4 DEF LoadSymbol
    <3> QED  BY Zenon, <2>1, <3>1, ContinueType
  <2>6. local' \in [Groups -> Seq(WorkItem)]
    <3>1. local' = IF Def[s].kind = "section"
                   THEN [local EXCEPT ![g] = Append(@, LoadSection(Def[s].at))] ELSE local
        BY <1>5 DEF LoadSymbol
    <3>2. \A w \in WorkItem : Append(local[g], w) \in Seq(WorkItem)
        OBVIOUS
    <3>3. CASE Def[s].kind = "section"
      <4>1. Append(local[g], LoadSection(Def[s].at)) \in Seq(WorkItem)
          BY Zenon, <2>3, <3>2, <3>3
      <4>2. local' = [local EXCEPT ![g] = Append(@, LoadSection(Def[s].at))]
          BY Zenon, <3>1, <3>3
      <4> QED  BY <4>1, <4>2
    <3>4. CASE Def[s].kind # "section"
        BY Zenon, <3>1, <3>4
    <3> QED  BY Zenon, <3>3, <3>4
  <2>7. served' \in [Symbols -> [load : Nat, export : Nat, copy : Nat]]
    <3>1. [served[s] EXCEPT !.load = @ + 1] \in [load : Nat, export : Nat, copy : Nat]
        BY Zenon, <2>1, CountType
    <3>2. served' = [served EXCEPT ![s] = [served[s] EXCEPT !.load = @ + 1]]
        BY <1>5 DEF LoadSymbol
    <3> QED  BY Zenon, <3>1, <3>2
  <2> QED  BY Zenon, <1>5, <2>5, <2>6, <2>7 DEF LoadSymbol
<1>6. CASE RecordSymbol(g)
  <2>1. todo[g] # << >> /\ Head(todo[g]).id \in Symbols
      BY <1>6, <1>e DEF RecordSymbol, Running, Effect
  <2>2. todo' \in [Groups -> Seq(Effect)]
    <3>1. Continue(g, << >>)
        BY <1>6 DEF RecordSymbol
    <3> QED  BY <2>1, <3>1, ContinueType
  <2>3. served' \in [Symbols -> [load : Nat, export : Nat, copy : Nat]]
    <3> DEFINE s == Head(todo[g]).id
               T == [load : Nat, export : Nat, copy : Nat]
    <3>1. [served[s] EXCEPT !.export = @ + 1] \in T /\ [served[s] EXCEPT !.copy = @ + 1] \in T
        BY Zenon, <2>1, CountType
    <3>2. \/ served' = [served EXCEPT ![s] = [served[s] EXCEPT !.export = @ + 1]]
          \/ served' = [served EXCEPT ![s] = [served[s] EXCEPT !.copy = @ + 1]]
        BY <1>6 DEF RecordSymbol
    <3> HIDE DEF T
    <3>3. served' \in [Symbols -> T]
        BY Zenon, <2>1, <3>1, <3>2 DEF T
    <3> QED  BY <3>3 DEF T
  <2> QED  BY Zenon, <1>6, <2>2, <2>3 DEF RecordSymbol
<1>7. CASE SectionLoaded(g)
  <2>1. todo[g] # << >> /\ Head(todo[g]).id \in Sections
      BY <1>7, <1>e DEF SectionLoaded, Running, Effect
  <2>2. todo' \in [Groups -> Seq(Effect)]
    <3>1. Continue(g, << >>)
        BY <1>7 DEF SectionLoaded
    <3> QED  BY <2>1, <3>1, ContinueType
  <2> QED  BY <1>7, <2>1, <2>2 DEF SectionLoaded, Slot
<1>8. CASE Gather(g)
  <2> DEFINE e == Head(todo[g])
             queue == startStop[e.id]
             back == <<Send(LoadSection(Head(queue))), e>>
  <2>1. todo[g] # << >> /\ e \in Effect /\ e.id \in Outputs
      BY <1>8, <1>e DEF Gather, Running, Effect
  <2>2. queue \in Seq(Sections)
      BY <2>1
  <2>3. ASSUME queue # << >> PROVE back \in Seq(Effect)
    <3>1. Head(queue) \in Sections
        BY <2>2, <2>3
    <3>2. LoadSection(Head(queue)) \in WorkItem
        BY <3>1 DEF LoadSection, WorkItem
    <3>3. Send(LoadSection(Head(queue))) \in Effect
        BY <3>2 DEF Send, Effect
    <3>4. \A a, b \in Effect : <<a, b>> \in Seq(Effect)
        OBVIOUS
    <3> QED  BY Zenon, <2>1, <3>3, <3>4
  <2>4. todo' \in [Groups -> Seq(Effect)]
    <3>1. Continue(g, << >>) \/ (queue # << >> /\ Continue(g, back))
        BY <1>8 DEF Gather
    <3> QED  BY Zenon, <2>1, <2>3, <3>1, ContinueType
  <2>5. startStop' \in [Outputs -> Seq(Sections)]
    <3>1. CASE queue = << >>
        BY <1>8, <3>1 DEF Gather
    <3>2. CASE queue # << >>
      <4>1. startStop' = [startStop EXCEPT ![e.id] = Tail(queue)]
          BY <1>8, <3>2 DEF Gather
      <4>2. Tail(queue) \in Seq(Sections)
          BY <2>2, <3>2
      <4> QED  BY <2>1, <4>1, <4>2
    <3> QED  BY <3>1, <3>2
  <2> QED  BY <1>8, <2>4, <2>5 DEF Gather
<1>9. CASE SendWork(g)
  <2> DEFINE item == Head(todo[g]).item
             to == file_group(item)
  <2>1. todo[g] # << >> /\ item \in WorkItem
      BY <1>9, <1>e DEF SendWork, Running, Effect
  <2>2. to \in Groups
      BY Zenon, <2>1, InputAssumption DEF file_group, WorkItem
  <2>3. todo' \in [Groups -> Seq(Effect)]
    <3>1. Continue(g, << >>)
        BY <1>9 DEF SendWork
    <3> QED  BY <2>1, <3>1, ContinueType
  <2>4. local' \in [Groups -> Seq(WorkItem)] /\ slotWork' \in [Groups -> Seq(WorkItem)]
    <3>1. \A h \in Groups : Append(local[h], item) \in Seq(WorkItem)
                            /\ Append(slotWork[h], item) \in Seq(WorkItem)
        BY <2>1
    <3>2. CASE to = g
        BY Zenon, <1>9, <3>1, <3>2 DEF SendWork
    <3>3. CASE to # g
      <4>1. slotWork' = [slotWork EXCEPT ![to] = Append(slotWork[to], item)] /\ local' = local
          BY <1>9, <3>3 DEF SendWork
      <4> QED  BY <2>2, <3>1, <4>1
    <3> QED  BY <3>2, <3>3
  <2>5. worker' \in [Groups -> WorkerState]
      BY Zenon, <1>9, <2>2 DEF SendWork, Wake, WorkerState
  <2> QED  BY <1>9, <2>3, <2>4, <2>5 DEF SendWork
<1>10. CASE ReportUndefined(g)
  <2>1. Continue(g, << >>) /\ todo[g] # << >>
      BY <1>10 DEF ReportUndefined, Running
  <2>2. todo' \in [Groups -> Seq(Effect)]
      BY <2>1, ContinueType
  <2> QED  BY <1>10, <2>2 DEF ReportUndefined, report_error
<1>11. CASE ActivationFails(g)
  <2>1. Continue(g, << >>) /\ todo[g] # << >>
      BY <1>11 DEF ActivationFails, Running
  <2>2. todo' \in [Groups -> Seq(Effect)]
      BY <2>1, ContinueType
  <2> QED  BY <1>11, <2>2 DEF ActivationFails, report_error
<1>12. CASE FinishActivation(g)
    BY Zenon, <1>12 DEF FinishActivation, TaskState, WorkerState
<1>13. CASE PopLocal(g)
  <2>1. local[g] \in Seq(WorkItem) /\ local[g][Len(local[g])] \in WorkItem
      BY <1>13 DEF PopLocal
  <2>2. todo' \in [Groups -> Seq(Effect)]
      BY <1>13, <2>1, do_workType DEF PopLocal
  <2>3. local' \in [Groups -> Seq(WorkItem)]
      BY <1>13, <2>1 DEF PopLocal
  <2> QED  BY <1>13, <2>2, <2>3 DEF PopLocal
<1>14. CASE LockSlot(g)
    BY Zenon, <1>14 DEF LockSlot, Return, TaskState, WorkerState
<1>15. CASE WorkFails(g)
    BY <1>15 DEF WorkFails, Return, report_error, TaskState, WorkerState
<1> QED
    BY Zenon, <1>1, <1>2, <1>3, <1>4, <1>5, <1>6, <1>7, <1>8, <1>9, <1>10, <1>11, <1>12, <1>13,
       <1>14, <1>15 DEF Work

-----------------------------------------------------------------------------
(* The inductive invariant of the control state. *)

\* The activations not yet counted in activations_remaining.
Uncounted == {g \in Groups : task[g] \notin {"draining", "done"}}

\* How the activation job of a group and the holder of its state go together.
Control(g) ==
    /\ worker[g] = "none" <=> task[g] = "spawned"
    /\ task[g] \in {"activating", "working"} => worker[g] = "running"
    /\ worker[g] # "running" => todo[g] = << >>
    /\ worker[g] = "parked" => slotWork[g] = << >>
    /\ worker[g] = "delayed" => g = Synthetic
    /\ worker[g] = "dropped" => g \in errors
    /\ g = Synthetic => task[g] # "working"

\* When all activations are counted, the synthetic group has been released or
\* the job that counted the last one still has to release it; and nobody
\* releases it earlier.
Release ==
    /\ \A g \in Groups : task[g] = "draining" => Uncounted = {}
    /\ worker[Synthetic] = "delayed" /\ Uncounted = {} => \E g \in Groups : task[g] = "draining"
    /\ worker[Synthetic] \notin {"none", "delayed"} /\ task[Synthetic] # "activating"
         => Uncounted = {}

IInv ==
    /\ TypeOK
    /\ remaining = Cardinality(Uncounted)
    /\ \A g \in Groups : Control(g)
    /\ Release
    /\ result # "none" => ScopeDone
    /\ result = "Ok" => errors = {}
\* The invariant holds before any activation job has run.
LEMMA InitIInv == Init => IInv
<1> SUFFICES ASSUME Init PROVE IInv
    OBVIOUS
<1>1. input \in Input /\ IsFiniteSet(Groups)
    BY InputAssumption DEF Init
<1>2. Cardinality(Groups) \in Nat
    BY <1>1, FS_CardinalityType
<1>3. TypeOK
    BY <1>1, <1>2 DEF Init, TypeOK, Input, TaskState, WorkerState
<1>4. Uncounted = Groups
    BY DEF Init, Uncounted
<1>5. \A g \in Groups : Control(g)
    BY DEF Init, Control
<1>6. Release
    BY InputAssumption DEF Init, Release
<1> QED  BY <1>3, <1>4, <1>5, <1>6 DEF Init, IInv

\* While someone runs, find_required_sections has not returned.
LEMMA RunningNotReturned ==
    ASSUME IInv, NEW g \in Groups, worker[g] = "running" \/ task[g] # "done"
    PROVE  result = "none"
BY DEF IInv, ScopeDone, TypeOK

\* Steps inside a handler leave the control state alone.
LEMMA HandlerStep ==
    ASSUME IInv, TypeOK', NEW g \in Groups, worker[g] = "running",
           \A h \in Groups : h # g => todo'[h] = todo[h],
           UNCHANGED <<task, worker, slotWork, remaining, result>>, errors \subseteq errors'
    PROVE  IInv'
<1>1. result' = "none"
    BY RunningNotReturned
<1>2. Uncounted' = Uncounted
    BY DEF Uncounted
<1>3. \A h \in Groups : Control(h)'
    BY DEF IInv, Control
<1>4. Release'
    BY <1>2 DEF IInv, Release
<1> QED  BY <1>1, <1>2, <1>3, <1>4 DEF IInv

\* Each step of a group's holder preserves the invariant.
LEMMA WorkIInv ==
    ASSUME IInv, NEW g \in Groups, Work(g)
    PROVE  IInv'
<1>t. TypeOK /\ TypeOK'
    BY WorkType DEF IInv
<1>c. \A q : Continue(g, q) => \A h \in Groups : h # g => todo'[h] = todo[h]
    BY <1>t DEF Continue, TypeOK
<1>1. CASE Activate(g)
  <2>1. result' = "none"
      BY <1>1, RunningNotReturned DEF Activate
  <2>2. Uncounted' = Uncounted
      BY <1>1, <1>t DEF Activate, Uncounted, TypeOK
  <2>3. \A h \in Groups : Control(h)'
      BY <1>1, <1>t DEF IInv, Control, Activate, TypeOK
  <2>4. Release'
    <3>1. \A h \in Groups : h # g => worker'[h] = worker[h] /\ task'[h] = task[h]
        BY <1>1, <1>t DEF Activate, TypeOK
    <3>2. task[g] = "spawned" /\ task'[g] = "activating" /\ worker'[g] = "running"
        BY <1>1, <1>t DEF Activate, TypeOK
    <3>3. Synthetic \in Groups /\ Release
        BY InputAssumption DEF IInv
    <3> QED  BY <2>2, <3>1, <3>2, <3>3 DEF Release
  <2> QED  BY <1>1, <1>t, <2>1, <2>2, <2>3, <2>4 DEF IInv, Activate
<1>2. CASE VisitSection(g)
    BY <1>2, <1>t, <1>c, HandlerStep DEF VisitSection, Running
<1>3. CASE FlagsLoad(g)
    BY <1>3, <1>t, <1>c, HandlerStep DEF FlagsLoad, Running
<1>4. CASE FlagsFetchOr(g)
    BY <1>4, <1>t, <1>c, HandlerStep DEF FlagsFetchOr, Running
<1>5. CASE LoadSymbol(g)
    BY <1>5, <1>t, <1>c, HandlerStep DEF LoadSymbol, Running
<1>6. CASE RecordSymbol(g)
    BY <1>6, <1>t, <1>c, HandlerStep DEF RecordSymbol, Running
<1>7. CASE SectionLoaded(g)
    BY <1>7, <1>t, <1>c, HandlerStep DEF SectionLoaded, Running
<1>8. CASE Gather(g)
    BY <1>8, <1>t, <1>c, HandlerStep DEF Gather, Running
<1>9. CASE SendWork(g)
  <2> DEFINE to == file_group(Head(todo[g]).item)
  <2>1. result' = "none" /\ worker[g] = "running"
      BY <1>9, RunningNotReturned DEF SendWork, Running
  <2>2. Uncounted' = Uncounted
      BY <1>9 DEF SendWork, Uncounted
  <2>3. CASE to = g
    <3>1. UNCHANGED <<task, worker, slotWork, remaining, result, errors>>
        BY <1>9, <2>3 DEF SendWork
    <3>2. \A h \in Groups : h # g => todo'[h] = todo[h]
        BY <1>9, <1>c DEF SendWork
    <3> QED  BY <1>t, <2>1, <3>1, <3>2, HandlerStep
  <2>4. CASE to # g
    <3>1. worker' = [worker EXCEPT ![to] = Wake(worker[to])]
        BY <1>9, <2>4 DEF SendWork
    <3>2. \A h \in Groups : worker'[h] = worker[h] \/ (worker[h] = "parked" /\ worker'[h] = "running")
        BY <1>t, <3>1 DEF Wake, TypeOK
    <3>3. \A h \in Groups : worker'[h] = "parked" => slotWork'[h] = slotWork[h]
        BY <1>9, <1>t, <2>4, <3>1 DEF SendWork, Wake, TypeOK
    <3>4. \A h \in Groups : h # g => todo'[h] = todo[h]
        BY <1>9, <1>c DEF SendWork
    <3>5. UNCHANGED <<task, remaining, errors>>
        BY <1>9 DEF SendWork
    <3>6. \A h \in Groups : Control(h)'
      <4> SUFFICES ASSUME NEW h \in Groups PROVE Control(h)'
          OBVIOUS
      <4>1. Control(h) /\ task'[h] = task[h] /\ errors' = errors
          BY <3>5 DEF IInv
      <4>2. CASE worker'[h] = worker[h]
        <5>1. worker'[h] # "running" => todo'[h] = << >>
            BY <2>1, <3>4, <4>1, <4>2 DEF Control
        <5> QED  BY <3>3, <4>1, <4>2, <5>1 DEF Control
      <4>3. CASE worker[h] = "parked" /\ worker'[h] = "running"
          BY <4>1, <4>3 DEF Control
      <4> QED  BY <3>2, <4>2, <4>3
    <3>7. Release'
      <4>1. Synthetic \in Groups /\ Release
          BY InputAssumption DEF IInv
      <4> QED  BY <2>2, <3>2, <3>5, <4>1 DEF Release
    <3> QED  BY <1>t, <2>1, <2>2, <3>5, <3>6, <3>7 DEF IInv
  <2> QED  BY <2>3, <2>4
<1>10. CASE ReportUndefined(g)
    BY <1>10, <1>t, <1>c, HandlerStep DEF ReportUndefined, report_error, Running
<1>11. CASE ActivationFails(g)
    BY <1>11, <1>t, <1>c, HandlerStep DEF ActivationFails, report_error, Running
<1>12. CASE FinishActivation(g)
  <2>1. result' = "none"
      BY <1>12, RunningNotReturned DEF FinishActivation
  <2>2. Uncounted' = Uncounted
      BY <1>12, <1>t DEF FinishActivation, Uncounted, TypeOK
  <2>3. ASSUME NEW h \in Groups PROVE Control(h)'
    <3>1. Control(h) /\ (h # g => worker'[h] = worker[h] /\ task'[h] = task[h])
        BY <1>12, <1>t DEF IInv, FinishActivation, TypeOK
    <3>2. UNCHANGED <<todo, slotWork, errors>>
        BY <1>12 DEF FinishActivation
    <3>3. CASE h = g
      <4>1. task[g] = "activating" /\ todo[g] = << >>
          BY <1>12 DEF FinishActivation
      <4>2. IF g = Synthetic THEN task'[g] = "countdown" /\ worker'[g] = "delayed"
            ELSE task'[g] = "working" /\ worker'[g] = worker[g]
          BY <1>12, <1>t DEF FinishActivation, Delayed, TypeOK
      <4> QED  BY <3>1, <3>2, <3>3, <4>1, <4>2 DEF Control
    <3>4. CASE h # g
        BY <3>1, <3>2, <3>4 DEF Control
    <3> QED  BY <3>3, <3>4
  <2>4. Release'
    <3>1. \A h \in Groups : h # g => worker'[h] = worker[h] /\ task'[h] = task[h]
        BY <1>12, <1>t DEF FinishActivation, TypeOK
    <3>2. /\ task[g] = "activating" /\ task'[g] \in {"countdown", "working"}
          /\ g = Synthetic => worker'[g] = "delayed"
        BY <1>12, <1>t DEF FinishActivation, Delayed, TypeOK
    <3>3. Synthetic \in Groups /\ Release /\ g \in Uncounted
        BY <3>2, InputAssumption DEF IInv, Uncounted
    <3> QED  BY <2>2, <3>1, <3>2, <3>3 DEF Release
  <2> QED  BY <1>12, <1>t, <2>1, <2>2, <2>3, <2>4 DEF IInv, FinishActivation
<1>13. CASE PopLocal(g)
  <2>1. worker[g] = "running" /\ UNCHANGED <<task, worker, slotWork, remaining, result, errors>>
      BY <1>13 DEF PopLocal, Idle
  <2>2. \A h \in Groups : h # g => todo'[h] = todo[h]
      BY <1>13, <1>t DEF PopLocal, TypeOK
  <2> QED  BY <1>t, <2>1, <2>2, HandlerStep
<1>14. CASE LockSlot(g)
  <2>1. result' = "none"
      BY <1>14, RunningNotReturned DEF LockSlot, Idle
  <2>2. Uncounted' = Uncounted
      BY <1>14, <1>t DEF LockSlot, Return, Uncounted, TypeOK
  <2>3. ASSUME NEW h \in Groups PROVE Control(h)'
    <3>1. Control(h) /\ UNCHANGED <<todo, errors>>
        BY <1>14 DEF IInv, LockSlot
    <3>2. CASE h = g
      <4>1. worker[g] = "running" /\ task[g] # "activating" /\ todo[g] = << >>
          BY <1>14 DEF LockSlot, Idle
      <4>2. CASE slotWork[g] = << >>
        <5>1. /\ worker'[g] = "parked" /\ slotWork'[g] = << >>
              /\ task'[g] = IF task[g] = "working" THEN "countdown" ELSE task[g]
            BY <1>14, <1>t, <4>2 DEF LockSlot, Return, TypeOK
        <5> QED  BY <3>1, <3>2, <4>1, <5>1 DEF Control
      <4>3. CASE slotWork[g] # << >>
        <5>1. UNCHANGED <<worker, task>>
            BY <1>14, <4>3 DEF LockSlot
        <5> QED  BY <3>1, <3>2, <4>1, <5>1 DEF Control
      <4> QED  BY <4>2, <4>3
    <3>3. CASE h # g
      <4>1. worker'[h] = worker[h] /\ task'[h] = task[h] /\ slotWork'[h] = slotWork[h]
          BY <1>14, <1>t, <3>3 DEF LockSlot, Return, TypeOK
      <4> QED  BY <3>1, <3>3, <4>1 DEF Control
    <3> QED  BY <3>2, <3>3
  <2>4. Release'
    <3>1. \A h \in Groups : worker'[h] = worker[h] \/ (h = g /\ worker'[h] = "parked")
        BY <1>14, <1>t DEF LockSlot, TypeOK
    <3>2. \A h \in Groups : task'[h] = task[h] \/ (task[h] = "working" /\ task'[h] = "countdown")
        BY <1>14, <1>t DEF LockSlot, Return, TypeOK
    <3>3. worker[g] = "running" /\ task[g] # "activating"
        BY <1>14 DEF LockSlot, Idle
    <3>4. Synthetic \in Groups /\ Release
        BY InputAssumption DEF IInv
    <3> QED  BY <2>2, <3>1, <3>2, <3>3, <3>4 DEF Release
  <2> QED  BY <1>14, <1>t, <2>1, <2>2, <2>3, <2>4 DEF IInv, LockSlot
<1>15. CASE WorkFails(g)
  <2>1. result' = "none"
      BY <1>15, RunningNotReturned DEF WorkFails, Running
  <2>2. Uncounted' = Uncounted
      BY <1>15, <1>t DEF WorkFails, Return, Uncounted, TypeOK
  <2>3. \A h \in Groups : Control(h)'
      BY <1>15, <1>t DEF IInv, Control, WorkFails, Running, Return, report_error, TypeOK
  <2>4. Release'
    <3>1. \A h \in Groups : worker'[h] = worker[h] \/ (h = g /\ worker'[h] = "dropped")
        BY <1>15, <1>t DEF WorkFails, TypeOK
    <3>2. \A h \in Groups : task'[h] = task[h] \/ (task[h] = "working" /\ task'[h] = "countdown")
        BY <1>15, <1>t DEF WorkFails, Return, TypeOK
    <3>3. worker[g] = "running" /\ task[g] # "activating"
        BY <1>15 DEF WorkFails, Running
    <3>4. Synthetic \in Groups /\ Release
        BY InputAssumption DEF IInv
    <3> QED  BY <2>2, <3>1, <3>2, <3>3, <3>4 DEF Release
  <2> QED  BY <1>15, <1>t, <2>1, <2>2, <2>3, <2>4 DEF IInv, WorkFails
<1> QED
    BY <1>1, <1>2, <1>3, <1>4, <1>5, <1>6, <1>7, <1>8, <1>9, <1>10, <1>11, <1>12, <1>13,
       <1>14, <1>15 DEF Work
\* Counting an activation down and releasing the synthetic group.
LEMMA JobEndIInv ==
    ASSUME IInv, NEW g \in Groups, JobEnd(g)
    PROVE  IInv'
<1>t. TypeOK /\ IsFiniteSet(Groups) /\ Synthetic \in Groups
    BY InputAssumption DEF IInv
<1>f. IsFiniteSet(Uncounted) /\ Cardinality(Uncounted) \in Nat /\ Cardinality(Groups) \in Nat
    BY <1>t, FS_Subset, FS_CardinalityType DEF Uncounted
<1>1. CASE CountDown(g)
  <2>1. g \in Uncounted /\ Uncounted' = Uncounted \ {g}
      BY <1>1, <1>t DEF CountDown, Uncounted, TypeOK
  <2>2. Cardinality(Uncounted \ {g}) = Cardinality(Uncounted) - 1
      BY <1>f, <2>1, FS_RemoveElement
  <2>3. remaining = Cardinality(Uncounted) /\ remaining' = remaining - 1 /\ remaining # 0
      BY <1>1, <1>f, <2>1, FS_EmptySet DEF CountDown, IInv
  <2>4. remaining' = Cardinality(Uncounted')
      BY <2>1, <2>2, <2>3
  <2>5. TypeOK'
    <3>1. task' \in [Groups -> TaskState]
        BY <1>1, <1>t DEF CountDown, TypeOK, TaskState
    <3>2. remaining' \in 0..Cardinality(Groups)
        BY <1>t, <1>f, <2>3 DEF TypeOK
    <3>3. UNCHANGED <<input, flags, slot, startStop, worker, todo, local, slotWork, errors, served, result>>
        BY <1>1 DEF CountDown
    <3> QED  BY <1>t, <3>1, <3>2, <3>3 DEF TypeOK
  <2>6. result' = "none"
      BY <1>1, RunningNotReturned DEF CountDown
  <2>7. \A h \in Groups : Control(h)'
      BY <1>1, <1>t DEF IInv, Control, CountDown, TypeOK
  <2>8. LastActivation(remaining) <=> Uncounted' = {}
    <3>1. IsFiniteSet(Uncounted \ {g})
        BY <1>f, FS_RemoveElement
    <3> QED  BY Zenon, <2>1, <2>2, <2>3, <3>1, FS_EmptySet DEF LastActivation
  <2>9. Release'
    <3>1. \A h \in Groups : h # g => task'[h] = task[h]
        BY <1>1, <1>t DEF CountDown, TypeOK
    <3>2. task'[g] = IF Uncounted' = {} THEN "draining" ELSE "done"
        BY <1>1, <1>t, <2>8 DEF CountDown, TypeOK
    <3>3. worker' = worker /\ Uncounted # {}
        BY <1>1, <2>1 DEF CountDown
    <3>4. Release /\ Control(Synthetic) /\ task[g] = "countdown"
        BY <1>1, <1>t DEF IInv, CountDown
    <3>5. \A h \in Groups : task'[h] = "draining" => Uncounted' = {}
        BY <3>1, <3>2, <3>3, <3>4 DEF Release
    <3>6. Uncounted' = {} => task'[g] = "draining"
        BY <3>2
    <3>7. task[Synthetic] # "activating" => task'[Synthetic] # "activating"
        BY <1>t, <3>1, <3>2
    <3>8. task'[Synthetic] # "activating" => task[Synthetic] # "activating"
        BY <1>t, <3>1, <3>4
    <3> QED  BY <3>3, <3>4, <3>5, <3>6, <3>8 DEF Release
  <2> QED  BY <2>4, <2>5, <2>6, <2>7, <2>9 DEF IInv
<1>2. CASE Drain(g)
  <2>1. TypeOK'
      BY Zenon, <1>2, <1>t DEF Drain, DrainEnds, TypeOK, TaskState, WorkerState
  <2>2. Uncounted' = Uncounted /\ Uncounted = {}
      BY <1>2, <1>t DEF Drain, DrainEnds, Uncounted, TypeOK, IInv, Release
  <2>3. result' = "none"
      BY <1>2, RunningNotReturned DEF Drain
  <2>4. \A h \in Groups : Control(h)'
      BY <1>2, <1>t DEF IInv, Control, Drain, DrainEnds, TypeOK
  <2>5. Release'
      BY <1>2, <1>t, <2>2 DEF IInv, Release, Drain, DrainEnds, TypeOK
  <2> QED  BY <1>2, <2>1, <2>2, <2>3, <2>4, <2>5 DEF IInv, Drain
<1> QED  BY <1>1, <1>2 DEF JobEnd

\* The invariant is inductive.
LEMMA NextIInv == IInv /\ [Next]_vars => IInv'
<1> SUFFICES ASSUME IInv, [Next]_vars PROVE IInv'
    OBVIOUS
<1>1. ASSUME NEW g \in Groups, Work(g) PROVE IInv'
    BY <1>1, WorkIInv
<1>2. ASSUME NEW g \in Groups, JobEnd(g) PROVE IInv'
    BY <1>2, JobEndIInv
<1>3. CASE Finish
    BY <1>3 DEF Finish, IInv, TypeOK, Uncounted, Control, Release, ScopeDone
<1>4. CASE Returned \/ UNCHANGED vars
  <2>1. UNCHANGED vars
      BY <1>4 DEF Returned
  <2>2. TypeOK'
      BY <2>1 DEF vars, IInv, TypeOK
  <2>3. Uncounted' = Uncounted /\ (ScopeDone => ScopeDone')
      BY <2>1 DEF vars, Uncounted, ScopeDone
  <2>4. ASSUME NEW g \in Groups PROVE Control(g)'
      BY <2>1 DEF vars, IInv, Control
  <2>5. Release'
      BY <2>1, <2>3 DEF vars, IInv, Release
  <2> QED  BY <2>1, <2>2, <2>3, <2>4, <2>5 DEF vars, IInv
<1> QED  BY <1>1, <1>2, <1>3, <1>4 DEF Next

\* The control invariant holds in every reachable state of the traversal.
THEOREM Invariance == Spec => []IInv
BY InitIInv, NextIInv, PTL DEF Spec

\* Type correctness of the traversal's state (layout.rs, find_required_sections).
THEOREM TypeCorrect == Spec => []TypeOK
<1>1. IInv => TypeOK
    BY DEF IInv
<1> QED  BY <1>1, Invariance, PTL

\* A parked group never has work in its slot: do_pending_work parks and
\* send_work wakes under the same mutex.
THEOREM NoWorkIsLost == Spec => []NoLostWork
<1>1. IInv => NoLostWork
    BY DEF IInv, Control, NoLostWork
<1> QED  BY <1>1, Invariance, PTL

\* The synthetic group runs only once all groups are activated: delay_processing
\* is drained by the job that takes activations_remaining to zero.
THEOREM StartStopAfterActivation == Spec => []StartStopComplete
<1>1. IInv => StartStopComplete
  <2> SUFFICES ASSUME IInv, worker[Synthetic] = "running", task[Synthetic] # "activating",
                      NEW g \in Groups
               PROVE  task[g] \notin {"spawned", "activating"}
      BY DEF StartStopComplete
  <2>1. Uncounted = {}
      BY DEF IInv, Release
  <2> QED  BY <2>1 DEF Uncounted
<1> QED  BY <1>1, Invariance, PTL

\* When the traversal succeeds, unwrap_worker_states finds every group: none
\* was dropped without an error and the delayed one has been released.
THEOREM EveryGroupReturned == Spec => []AllGroupsReturned
<1>1. IInv => AllGroupsReturned
  <2> SUFFICES ASSUME IInv, result = "Ok", NEW g \in Groups PROVE worker[g] = "parked"
      BY DEF AllGroupsReturned
  <2>1. \A h \in Groups : task[h] = "done" /\ worker[h] # "running"
      BY DEF IInv, ScopeDone
  <2>2. Uncounted = {}
      BY <2>1 DEF Uncounted
  <2>3. worker[g] # "delayed"
      BY <2>1, <2>2 DEF IInv, Release, Control
  <2> QED  BY Zenon, <2>1, <2>3 DEF IInv, Control, TypeOK, WorkerState
<1> QED  BY <1>1, Invariance, PTL
=============================================================================
