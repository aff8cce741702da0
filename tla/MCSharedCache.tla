--------------------------- MODULE MCSharedCache ---------------------------
(* Small instances of SharedCache.                                          *)
EXTENDS SharedCache

MCThreads == {"t1", "t2", "t3"}
TwoThreads == {"t1", "t2"}

Setup(kind, owner, extra, racy) == [kind |-> kind, owner |-> owner, extra |-> extra, racy |-> racy]
Apart == [t \in Threads |-> t]
Together == [t \in Threads |-> IF t = "t3" THEN "t3" ELSE "t1"]
NoExtra == [t \in Threads |-> {}]

\* Each thread in a process of its own.
Separate == {Setup(kind, Apart, NoExtra, FALSE) : kind \in {"sdk", "lto"}}
SdkOnly == {Setup("sdk", Apart, NoExtra, FALSE)}
\* Two threads of one link compile the same module.
SameModule == {Setup("lto", Together, NoExtra, FALSE)}
\* One link has collected the symbols of another library first.
OtherLibrary == {Setup("sdk", Apart, [t \in Threads |-> IF t = "t1" THEN {0} ELSE {}], FALSE)}
\* The SDK is updated while links run.
DuringLinks == {Setup("sdk", Apart, NoExtra, TRUE)}
=============================================================================
