------------------------- MODULE MCIncrementalLink -------------------------
(* Small instances of IncrementalLink: two inputs, a section of each, and a *)
(* header the writer generates.                                             *)
EXTENDS IncrementalLink, TLC

MCInputs == {"a", "b"}
MCSections == 1 .. 3
MCContributors == 1 :> {} @@ 2 :> {"a"} @@ 3 :> {"b"}

\* Contents 1 and 2 have the same size, 3 is larger.
MCVersions == 1 .. 3
TwoVersions == 1 .. 2
MCBulk == [i \in MCInputs |-> [v \in MCVersions |-> IF v = 3 THEN 2 ELSE 1]]

NoRefs == [i \in MCInputs |-> {}]
\* The data of a holds addresses of b's functions.
AtoB == "a" :> {"b"} @@ "b" :> {}

Inv(mode, opt, skips, daemon) == [mode |-> mode, opt |-> opt, skips |-> skips, daemon |-> daemon]

\* --incremental-cache=read-write, with and without the whole-link skip.
ReadWrite == {Inv("rw", "o1", skips, FALSE) : skips \in {{"pre"}, {}}}
ReadWriteTwoOpts == {Inv("rw", opt, {"pre"}, FALSE) : opt \in {"o1", "o2"}}
InDaemon == {Inv("rw", opt, {"pre"}, TRUE) : opt \in {"o1", "o2"}}
\* WILD_INCREMENTAL_DEBUG=1, which also enables the post-load skip.
DebugSkips == {Inv(mode, opt, IF mode = "off" THEN {"post"} ELSE {"pre", "post"}, FALSE) :
                 mode \in {"off", "write"}, opt \in {"o1", "o2"}}
PostOnly == {Inv("off", "o1", {"post"}, FALSE)}

Settings(elf, threads, versions, scripts, invocations, faults, maxClock) ==
    {[sizeAtLayout |-> elf, alwaysReplace |-> ~elf, background |-> threads, mmap |-> threads,
      versions |-> versions, scripts |-> scripts, invocations |-> invocations, faults |-> faults,
      maxClock |-> maxClock]}
MachO(invocations, faults) == Settings(FALSE, TRUE, TwoVersions, {"s1"}, invocations, faults, 6)
ElfExecutable(versions, scripts, invocations, faults, maxClock) ==
    Settings(TRUE, TRUE, versions, scripts, invocations, faults, maxClock)

\* read-write links of MachO and ELF executables that may fail; ELF links with
\* the debugging skips that are killed, and whose version script changes.
ReplaceAndRecover ==
    Settings(FALSE, TRUE, MCVersions, {"s1"}, ReadWrite, {"fail"}, 6)
    \cup ElfExecutable(MCVersions, {"s1"}, ReadWrite, {"fail"}, 6)
    \cup ElfExecutable(TwoVersions, {"s1", "s2"}, DebugSkips, {"fail", "crash", "script"}, 4)

Crashes == MachO(ReadWrite, {"crash"})
Races == MachO(ReadWrite, {"race"})
Quiet == MachO(ReadWrite, {})
TwoOpts == MachO(ReadWriteTwoOpts, {})
OneDaemon == MachO(InDaemon, {})
ScriptEdits == Settings(FALSE, TRUE, TwoVersions, {"s1", "s2"}, PostOnly, {"script"}, 6)
QuietElf == ElfExecutable(TwoVersions, {"s1"}, ReadWrite, {}, 6)
\* --no-threads --no-mmap-output-file
SingleThreaded == Settings(TRUE, FALSE, TwoVersions, {"s1"}, ReadWrite, {}, 6)
=============================================================================
