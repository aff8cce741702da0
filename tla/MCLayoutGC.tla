----------------------------- MODULE MCLayoutGC -----------------------------
(***************************************************************************)
(* Small links for LayoutGC, one family of inputs per configuration.        *)
(***************************************************************************)
EXTENDS LayoutGC, TLC

Uses(s) == [sym |-> s, flags |-> {"DIRECT"}]
Copies(s) == [sym |-> s, flags |-> {"DIRECT", "COPY_RELOCATION"}]
In(x) == [kind |-> "section", at |-> x]
Empty == [g \in Groups |-> << >>]
PreludeRoots == [g \in Groups |-> IF g = "prelude" THEN <<Uses("main")>> ELSE << >>]

-----------------------------------------------------------------------------
(* Reachability: two objects that refer to each other, a common symbol, and *)
(* a section b2 that only __start_o keeps.                                  *)

SecGroup1 == "a1" :> "a" @@ "b1" :> "b" @@ "b2" :> "b"
SecOutput1 == "a1" :> "none" @@ "b1" :> "none" @@ "b2" :> "o"
SymGroup1 == "main" :> "a" @@ "f" :> "b" @@ "c" :> "b" @@ "u" :> "a" @@ "st" :> "synthetic"
Def1 == "main" :> In("a1") @@ "f" :> In("b1") @@ "c" :> [kind |-> "common"]
          @@ "u" :> [kind |-> "other"]
          @@ "st" :> [kind |-> "startstop", at |-> "o"]
SecSeq1 == "prelude" :> << >> @@ "a" :> <<"a1">> @@ "b" :> <<"b1", "b2">> @@ "synthetic" :> << >>
SoundInputs ==
    {[refs |-> "a1" :> ra @@ "b1" :> <<Uses("st"), Uses("c")>> @@ "b2" :> <<Uses("main")>>,
      slots |-> "a1" :> sa @@ "b1" :> sb @@ "b2" :> "Unloaded",
      broken |-> {}, failing |-> {}, noGc |-> FALSE] :
        ra \in {<<Uses("f"), Uses("st")>>, <<Uses("c"), Uses("st")>>},
        sa \in {"Unloaded", "MustLoad"}, sb \in {"Unloaded", "MustLoad"}}
      \cup
    {[refs |-> "a1" :> <<Uses("c")>> @@ "b1" :> << >> @@ "b2" :> << >>,
      slots |-> "a1" :> "Unloaded" @@ "b1" :> s @@ "b2" :> "Unloaded",
      broken |-> {}, failing |-> {}, noGc |-> TRUE] :
        s \in {"Unloaded", "UnloadedDebugInfo", "MergeStrings"}}

-----------------------------------------------------------------------------
(* Errors: a section that cannot be processed, a discarded one, a failed    *)
(* activation, an undefined symbol u, a copy relocation of an object's      *)
(* symbol, alone and together.                                              *)

FailingInputs ==
    {[refs |-> "a1" :> ra @@ "b1" :> <<Uses("main")>> @@ "b2" :> rb,
      slots |-> "a1" :> "Unloaded" @@ "b1" :> sb @@ "b2" :> "Unloaded",
      broken |-> bad, failing |-> {}, noGc |-> FALSE] :
        ra \in {<<Uses("f"), Uses("st")>>, <<Copies("f")>>}, rb \in {<<Uses("u")>>, << >>},
        sb \in {"MustLoad", "Discard"}, bad \in {{}, {"b2"}}}
      \cup
    {[refs |-> [x \in Sections |-> IF x = "b1" THEN <<Uses("st")>> ELSE << >>],
      slots |-> [x \in Sections |-> "Unloaded"], broken |-> {}, failing |-> {"b"},
      noGc |-> TRUE]}

Inputs1 == SoundInputs \cup FailingInputs

-----------------------------------------------------------------------------
(* Dynamic symbols: the objects a and b both copy-relocate v of the shared  *)
(* object d, which in turn asks for f to be exported; a is a whole-archive  *)
(* member, b exports all of its symbols, the prelude stands for a linker    *)
(* script with a symbol p as well.                                          *)

SecGroup2 == "a1" :> "a" @@ "b1" :> "b"
SecOutput2 == [x \in Sections |-> "none"]
SymGroup2 == "main" :> "a" @@ "f" :> "b" @@ "v" :> "d" @@ "p" :> "prelude"
Def2 == "main" :> In("a1") @@ "f" :> In("b1") @@ "v" :> [kind |-> "dynamic"]
          @@ "p" :> [kind |-> "other"]
SecSeq2 == [g \in Groups |-> CASE g = "a" -> <<"a1">> [] g = "b" -> <<"b1">> [] OTHER -> << >>]
DynamicRefs2 == [g \in Groups |-> IF g = "d" THEN <<"f">> ELSE << >>]
WholeArchive2 == [g \in Groups |-> IF g = "a" THEN <<"main">> ELSE << >>]
ExportAll2 == [g \in Groups |-> IF g = "b" THEN <<"f">> ELSE << >>]
ScriptSymbols2 == [g \in Groups |-> IF g = "prelude" THEN <<"p">> ELSE << >>]
Inputs2 ==
    {[refs |-> "a1" :> <<Copies("v"), Uses("f")>> @@ "b1" :> <<Copies("v")>>,
      slots |-> [x \in Sections |-> "Unloaded"], broken |-> {}, failing |-> {},
      noGc |-> FALSE]}
=============================================================================
