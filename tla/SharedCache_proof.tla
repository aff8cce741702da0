------------------------- MODULE SharedCache_proof -------------------------
(***************************************************************************)
(* That hits are current, for any number of processes and updates.          *)
(***************************************************************************)
EXTENDS SharedCache, TLAPS

(* The setups the theorem is about: the source changes between links only,   *)
(* links store nothing but what the walk gave them, and threads that share   *)
(* the LTO cache are in processes of their own.                              *)
Sound(s) ==
    /\ s.kind \in {"sdk", "lto"} /\ ~s.racy
    /\ \A t \in Threads : s.extra[t] = {}
    /\ s.kind = "lto" => \A t, u \in Threads : s.owner[t] # Cache /\ (s.owner[t] = s.owner[u] => t = u)

Full(v) == Chunks(v, Symbols(v))

(* The file holds chunks of version v, or part of them.                      *)
FileOK(f, v) ==
    /\ f = [k \in 1 .. 2 |-> f[k]]
    /\ f[1] \in {Absent, Hole, Full(v)[1]} /\ f[2] \in {Absent, Full(v)[2]}

LEMMA EmptyFile == \A v : FileOK(Empty, v)
BY DEF FileOK, Empty

LEMMA FullFile == \A v : FileOK(Full(v), v)
BY DEF FileOK, Full, Chunks

LEMMA OverwrittenFile ==
    ASSUME NEW f, NEW v, FileOK(f, v), NEW k \in 1 .. 2
    PROVE  FileOK(Overwritten(f, k, Full(v)[k]), v)
<1> DEFINE g == Overwritten(f, k, Full(v)[k])
<1>1. g = [j \in 1 .. 2 |-> g[j]] BY DEF Overwritten
<1>2. g[1] \in {Absent, Hole, Full(v)[1]} BY DEF Overwritten, FileOK
<1>3. g[2] \in {Absent, Full(v)[2]} BY DEF Overwritten, FileOK
<1> QED BY <1>1, <1>2, <1>3 DEF FileOK

LEMMA ReadFile ==
    ASSUME NEW f, NEW b, NEW v, FileOK(f, v), FileOK(b, v), NEW k \in 1 .. 2
    PROVE  FileOK([b EXCEPT ![k] = f[k]], v)
<1> DEFINE g == [b EXCEPT ![k] = f[k]]
<1>1. g = [j \in 1 .. 2 |-> IF j = k THEN f[k] ELSE b[j]] BY DEF FileOK
<1>2. g[1] \in {Absent, Hole, Full(v)[1]} BY <1>1 DEF FileOK
<1>3. g[2] \in {Absent, Full(v)[2]} BY <1>1 DEF FileOK
<1> QED BY <1>1, <1>2, <1>3 DEF FileOK

LEMMA ValidFile ==
    ASSUME NEW b, NEW v, NEW w, FileOK(b, v), Valid(b, w)
    PROVE  v = w /\ b = Full(w)
<1>1. b[1] = Full(v)[1] BY DEF FileOK, Valid, Absent, Hole
<1>2. b[2] = Full(v)[2] BY DEF FileOK, Valid
<1>3. v = w BY <1>1 DEF Valid, Full, Chunks
<1>4. Full(v) = [k \in 1 .. 2 |-> Full(v)[k]] BY DEF Full, Chunks
<1>5. b = Full(v) BY <1>1, <1>2, <1>4 DEF FileOK
<1> QED BY <1>3, <1>5

LEMMA FullSet == \A v : Full(v)[2].set = Symbols(v) /\ Full(v)[1].stat = v /\ Full(v)[1].part = "head"
                        /\ Full(v)[1] # Absent /\ Full(v)[2] # Absent
BY DEF Full, Chunks, Absent

-----------------------------------------------------------------------------
(* The inductive invariant.                                                 *)

Versions == 1 .. version

(* Files and names: one version in each file, one name for each, and in the  *)
(* LTO cache a name only for a complete one.                                 *)
FilesInv ==
    /\ version \in Nat \ {0}
    /\ names = [n \in Names |-> names[n]] /\ \A n \in Names : names[n] \in Inodes \cup {None}
    /\ content = [i \in Inodes |-> content[i]]
    /\ \A i \in Inodes : \E v \in Versions : FileOK(content[i], v)
    /\ \A m, n \in Names : names[m] = names[n] /\ names[m] # None => m = n
    /\ setup.kind = "lto" /\ names[Cache] # None => content[names[Cache]] = Full(version)

MemInv ==
    /\ mem = [p \in Processes |-> mem[p]]
    /\ \A p \in Processes : mem[p] = Empty \/ \E v \in Versions : mem[p] = Full(v)

Places == {"idle", "open", "read", "validate", "insert", "hit", "walk", "save", "create", "write",
           "rename", "cleanup", "done"}

(* What a thread knows.  A reader's file is not a temporary one, so nobody    *)
(* truncates it; what it has read so far is of the version of the file.       *)
Reader(t) ==
    /\ fd[t] \in Inodes /\ pos[t] \in 0 .. 2
    /\ \E v \in Versions : FileOK(content[fd[t]], v) /\ FileOK(buf[t], v)
    /\ \A n \in Names \ {Cache} : names[n] # fd[t]
    /\ setup.kind = "lto" => /\ content[fd[t]] = Full(version)
                             /\ \A k \in 1 .. 2 : k <= pos[t] => buf[t][k] = Full(version)[k]

(* A writer's file holds the current version only; in the LTO cache it is its *)
(* own, and complete up to where it is.                                      *)
Writer(t) ==
    /\ fd[t] \in Inodes /\ buf[t] = Full(version) /\ pos[t] \in 0 .. 2
    /\ FileOK(content[fd[t]], version)
    /\ pc[t] = "write" => pos[t] \in 0 .. 1
    /\ setup.kind = "lto" => /\ names[TmpOf(t)] = fd[t]
                             /\ \A k \in 1 .. 2 : k <= pos[t] => content[fd[t]][k] = Full(version)[k]
                             /\ pc[t] = "rename" => pos[t] = 2

ThreadInv(t) ==
    /\ pc[t] \in Places
    /\ pc[t] # "idle" => since[t] = version
    /\ pc[t] \notin {"read", "write", "rename"} => fd[t] = None
    /\ pc[t] = "open" => buf[t] = Empty
    /\ pc[t] = "read" => Reader(t)
    /\ pc[t] = "validate" => \E v \in Versions : FileOK(buf[t], v)
    /\ pc[t] \in {"insert", "create"} => buf[t] = Full(version)
    /\ pc[t] = "save" => buf[t] = Chunks(None, Symbols(version))
    /\ pc[t] \in {"write", "rename"} => Writer(t)
    /\ pc[t] = "hit" => buf[t][2].set = Symbols(version)

(* What a reader has read of a file that is being written is current.        *)
Sharing ==
    \A t, u \in Threads : pc[t] = "read" /\ pc[u] \in {"write", "rename"} /\ fd[t] = fd[u] =>
        FileOK(buf[t], version)

Arrays ==
    /\ pc = [t \in Threads |-> pc[t]] /\ fd = [t \in Threads |-> fd[t]] /\ pos = [t \in Threads |-> pos[t]]
    /\ buf = [t \in Threads |-> buf[t]] /\ since = [t \in Threads |-> since[t]]

IInv == Sound(setup) => FilesInv /\ MemInv /\ Arrays /\ Sharing /\ \A t \in Threads : ThreadInv(t)

-----------------------------------------------------------------------------
(* Steps.                                                                   *)

USE DEF Versions

LEMMA Initially == Init => IInv
<1> SUFFICES ASSUME Init, Sound(setup) PROVE FilesInv /\ MemInv /\ Arrays /\ Sharing /\ \A t \in Threads : ThreadInv(t)
  BY DEF IInv
<1>1. FilesInv BY EmptyFile DEF Init, FilesInv, Names
<1>2. MemInv BY DEF Init, MemInv
<1>3. Arrays BY DEF Init, Arrays
<1>4. Sharing BY DEF Init, Sharing
<1>5. \A t \in Threads : ThreadInv(t) BY DEF Init, ThreadInv, Places
<1> QED BY <1>1, <1>2, <1>3, <1>4, <1>5

(* Nothing but the thread's own variables changes.                           *)
Locally(t) ==
    /\ UNCHANGED <<setup, version, names, content>>
    /\ \A u \in Threads \ {t} : /\ pc'[u] = pc[u] /\ fd'[u] = fd[u] /\ pos'[u] = pos[u]
                                /\ buf'[u] = buf[u] /\ since'[u] = since[u]

(* Constant parts of a behaviour.                                           *)
LEMMA SameSetup ==
    ASSUME setup' = setup
    PROVE  Names' = Names /\ Processes' = Processes /\ \A t \in Threads : TmpOf(t)' = TmpOf(t)
BY DEF Names, Processes, TmpOf

LEMMA OthersLocally ==
    ASSUME NEW t \in Threads, Locally(t), \A u \in Threads : ThreadInv(u)
    PROVE  \A u \in Threads \ {t} : ThreadInv(u)'
<1> SUFFICES ASSUME NEW u \in Threads \ {t} PROVE ThreadInv(u)'
  OBVIOUS
<1>1. Names' = Names /\ TmpOf(u)' = TmpOf(u) BY SameSetup DEF Locally
<1>2. pc[u] = "read" => Reader(u)' BY <1>1 DEF ThreadInv, Reader, Locally
<1>3. pc[u] \in {"write", "rename"} => Writer(u)' BY <1>1 DEF ThreadInv, Writer, Locally
<1> QED BY <1>1, <1>2, <1>3 DEF ThreadInv, Locally

LEMMA FilesLocally ==
    ASSUME NEW t \in Threads, Locally(t), FilesInv
    PROVE  FilesInv'
BY SameSetup DEF Locally, FilesInv

(* A thread that neither reads nor writes afterwards shares nothing.         *)
LEMMA SharingLocally ==
    ASSUME NEW t \in Threads, Locally(t), Sharing, pc'[t] \notin {"read", "write", "rename"}
    PROVE  Sharing'
BY DEF Sharing, Locally

LEMMA LocalSteps ==
    ASSUME IInv, Sound(setup), NEW t \in Threads,
           load_sdk_symbols(t) \/ validate(t) \/ insert(t) \/ work(t) \/ save_sdk_symbols(t) \/ finish(t)
    PROVE  IInv'
<1> USE DEF IInv
<1>a. FilesInv /\ MemInv /\ Arrays /\ Sharing /\ ThreadInv(t) /\ \A u \in Threads : ThreadInv(u) OBVIOUS
<1>b. Locally(t) /\ Arrays'
  BY <1>a DEF load_sdk_symbols, validate, insert, work, save_sdk_symbols, finish, Goto, Locally, Arrays
<1>c. Processes' = Processes BY <1>b, SameSetup DEF Locally
<1>p. setup.owner[t] \in Processes BY DEF Processes
<1>1. FilesInv' BY <1>a, <1>b, FilesLocally
<1>2. pc'[t] \notin {"read", "write", "rename"}
  BY <1>a DEF load_sdk_symbols, validate, insert, work, save_sdk_symbols, finish, Goto, Arrays
<1>3. Sharing' BY <1>a, <1>b, <1>2, SharingLocally
<1>4. \A u \in Threads \ {t} : ThreadInv(u)' BY <1>a, <1>b, OthersLocally
<1>5. MemInv' /\ ThreadInv(t)'
  <2>1. CASE load_sdk_symbols(t)
    <3>1. MemInv' BY <1>a, <1>b, <1>c, <2>1 DEF load_sdk_symbols, MemInv, Locally
    <3>2. pc[t] = "idle" /\ fd'[t] = None /\ since'[t] = version /\ version' = version
      BY <1>a, <2>1 DEF load_sdk_symbols, ThreadInv, Arrays
    <3>3. CASE setup.kind = "sdk" /\ mem[setup.owner[t]][1].part = "head" /\ mem[setup.owner[t]][1].stat = version
      <4>1. pc'[t] = "hit" /\ buf'[t] = mem[setup.owner[t]] BY <1>a, <2>1, <3>3 DEF load_sdk_symbols, Goto, Arrays
      <4>2. mem[setup.owner[t]] # Empty BY <3>3 DEF Empty, Absent
      <4>3. PICK v \in Versions : mem[setup.owner[t]] = Full(v) BY <1>a, <1>p, <4>2 DEF MemInv
      <4>4. v = version BY <3>3, <4>3, FullSet
      <4>5. buf'[t][2].set = Symbols(version) BY <4>1, <4>3, <4>4, FullSet
      <4>6. Symbols(version)' = Symbols(version) BY <3>2 DEF Symbols
      <4> QED BY <3>1, <3>2, <4>1, <4>5, <4>6 DEF ThreadInv, Places
    <3>4. CASE ~(setup.kind = "sdk" /\ mem[setup.owner[t]][1].part = "head" /\ mem[setup.owner[t]][1].stat = version)
      <4>1. pc'[t] = "open" /\ buf'[t] = Empty BY <1>a, <2>1, <3>4 DEF load_sdk_symbols, Goto, Arrays
      <4> QED BY <3>1, <3>2, <4>1 DEF ThreadInv, Places
    <3> QED BY <3>3, <3>4
  <2>2. CASE validate(t)
    <3>1. MemInv' BY <1>a, <1>b, <1>c, <2>2 DEF validate, MemInv, Locally
    <3>2. /\ pc[t] = "validate" /\ fd'[t] = None /\ since'[t] = version /\ version' = version
          /\ buf'[t] = buf[t] /\ pc'[t] \in {"insert", "walk"} /\ (pc'[t] = "insert" => Valid(buf[t], version))
      BY <1>a, <2>2 DEF validate, ThreadInv, Arrays, Goto
    <3>3. PICK v \in Versions : FileOK(buf[t], v) BY <1>a, <3>2 DEF ThreadInv
    <3>4. pc'[t] = "insert" => buf[t] = Full(version) BY <3>2, <3>3, ValidFile
    <3>5. Full(version)' = Full(version) BY <3>2 DEF Full, Chunks, Symbols
    <3> QED BY <3>1, <3>2, <3>4, <3>5 DEF ThreadInv, Places
  <2>3. CASE insert(t)
    <3>1. /\ pc[t] = "insert" /\ fd'[t] = None /\ since'[t] = version /\ version' = version
          /\ buf'[t] = buf[t] /\ pc'[t] = "hit" /\ buf[t] = Full(version)
      BY <1>a, <2>3 DEF insert, ThreadInv, Arrays, Goto
    <3>2. [buf[t] EXCEPT ![1].stat = version] = Full(version) BY <3>1 DEF Full, Chunks
    <3>3. mem' = [mem EXCEPT ![setup.owner[t]] = Full(version)] BY <2>3, <3>2 DEF insert
    <3>4. version \in Versions BY <1>a DEF FilesInv
    <3>5. MemInv' BY <1>a, <1>c, <3>1, <3>3, <3>4 DEF MemInv
    <3>6. Symbols(version)' = Symbols(version) BY <3>1 DEF Symbols
    <3> QED BY <3>1, <3>5, <3>6, FullSet DEF ThreadInv, Places
  <2>4. CASE work(t)
    <3>1. MemInv' BY <1>a, <1>b, <1>c, <2>4 DEF work, MemInv, Locally
    <3>2. Walked(t) = Symbols(version) BY DEF Walked, Sound
    <3>3. /\ pc[t] = "walk" /\ fd'[t] = None /\ since'[t] = version /\ version' = version
          /\ buf'[t] = Chunks(None, Symbols(version)) /\ pc'[t] = "save"
      BY <1>a, <2>4, <3>2 DEF work, ThreadInv, Arrays, Goto
    <3>4. Symbols(version)' = Symbols(version) BY <3>3 DEF Symbols
    <3>5. Chunks(None, Symbols(version))' = Chunks(None, Symbols(version)) BY <3>4 DEF Chunks
    <3> QED BY <3>1, <3>3, <3>5 DEF ThreadInv, Places
  <2>5. CASE save_sdk_symbols(t)
    <3>1. MemInv' BY <1>a, <1>b, <1>c, <2>5 DEF save_sdk_symbols, MemInv, Locally
    <3>2. pc[t] = "save" /\ buf[t] = Chunks(None, Symbols(version)) BY <1>a, <2>5 DEF save_sdk_symbols, ThreadInv
    <3>3. buf[t][2].set = Symbols(version) BY <3>2 DEF Chunks
    <3>4. /\ fd'[t] = None /\ since'[t] = version /\ version' = version
          /\ buf'[t] = Full(version) /\ pc'[t] = "create"
      BY <1>a, <2>5, <3>2, <3>3 DEF save_sdk_symbols, ThreadInv, Arrays, Goto, Full
    <3>5. Full(version)' = Full(version) BY <3>4 DEF Full, Chunks, Symbols
    <3> QED BY <3>1, <3>4, <3>5 DEF ThreadInv, Places
  <2>6. CASE finish(t)
    <3>1. MemInv' BY <1>a, <1>b, <1>c, <2>6 DEF finish, MemInv, Locally
    <3>2. pc'[t] = "idle" /\ fd'[t] = None BY <1>a, <2>6 DEF finish, ThreadInv, Arrays, Goto
    <3> QED BY <3>1, <3>2 DEF ThreadInv, Places
  <2> QED BY <2>1, <2>2, <2>3, <2>4, <2>5, <2>6
<1> QED BY <1>b, <1>1, <1>3, <1>4, <1>5

LEMMA None0 == None \notin Inodes
BY DEF None, Inodes

(* What Reclaim leaves: the files that have a name or are open.              *)
LEMMA Reclaimed ==
    ASSUME NEW n, NEW f, Reclaim(n, f)
    PROVE  /\ content' = [i \in Inodes |-> content'[i]]
           /\ \A i \in Inodes : content'[i] \in {content[i], Empty}
           /\ \A x \in Names : n[x] \in Inodes => content'[n[x]] = content[n[x]]
           /\ \A t \in Threads : f[t] \in Inodes => content'[f[t]] = content[f[t]]
BY DEF Reclaim

(* A thread whose variables and whose open file stay as they are.            *)
Spared(u) ==
    /\ pc'[u] = pc[u] /\ fd'[u] = fd[u] /\ pos'[u] = pos[u] /\ buf'[u] = buf[u] /\ since'[u] = since[u]
    /\ fd[u] \in Inodes => content'[fd[u]] = content[fd[u]]
    /\ \A n \in Names \ {Cache} : names'[n] = names[n] \/ names'[n] = None \/ names'[n] # fd[u]
    /\ setup.kind = "lto" /\ pc[u] \in {"write", "rename"} => names'[TmpOf(u)] = names[TmpOf(u)]

LEMMA SparedThread ==
    ASSUME NEW u \in Threads, ThreadInv(u), Spared(u), setup' = setup, version' = version
    PROVE  ThreadInv(u)'
<1>1. Names' = Names /\ TmpOf(u)' = TmpOf(u) BY SameSetup
<1>2. pc[u] = "read" => Reader(u)'
  <2> SUFFICES ASSUME pc[u] = "read" PROVE Reader(u)'
    OBVIOUS
  <2>1. Reader(u) /\ content'[fd[u]] = content[fd[u]] BY DEF ThreadInv, Spared, Reader
  <2>2. \A n \in Names' \ {Cache} : names'[n] # fd'[u] BY <1>1, <2>1, None0 DEF Spared, Reader
  <2>3. Full(version)' = Full(version) BY DEF Full, Chunks, Symbols
  <2> QED BY <2>1, <2>2, <2>3 DEF Spared, Reader
<1>3. pc[u] \in {"write", "rename"} => Writer(u)'
  <2> SUFFICES ASSUME pc[u] \in {"write", "rename"} PROVE Writer(u)'
    OBVIOUS
  <2>1. Writer(u) /\ content'[fd[u]] = content[fd[u]] BY DEF ThreadInv, Spared, Writer
  <2>2. Full(version)' = Full(version) BY DEF Full, Chunks, Symbols
  <2> QED BY <1>1, <2>1, <2>2 DEF Spared, Writer
<1>4. /\ Full(version)' = Full(version) /\ Symbols(version)' = Symbols(version)
      /\ Chunks(None, Symbols(version))' = Chunks(None, Symbols(version))
  BY DEF Full, Chunks, Symbols
<1> QED BY <1>2, <1>3, <1>4 DEF ThreadInv, Spared

LEMMA FilesAfter ==
    ASSUME FilesInv, setup' = setup, version' = version,
           names' = [n \in Names |-> names'[n]], \A n \in Names : names'[n] \in Inodes \cup {None},
           \A m, n \in Names : names'[m] = names'[n] /\ names'[m] # None => m = n,
           content' = [i \in Inodes |-> content'[i]],
           \A i \in Inodes : content'[i] = content[i] \/ \E v \in Versions : FileOK(content'[i], v),
           setup.kind = "lto" /\ names'[Cache] # None => content'[names'[Cache]] = Full(version)
    PROVE  FilesInv'
<1>1. Names' = Names BY SameSetup
<1>2. \A i \in Inodes : \E v \in Versions : FileOK(content'[i], v) BY DEF FilesInv
<1>3. Full(version)' = Full(version) BY DEF Full, Chunks, Symbols
<1> QED BY <1>1, <1>2, <1>3 DEF FilesInv

(* Threads that stop, while nothing but unreachable files is lost.           *)
LEMMA SharingAfter ==
    ASSUME Sharing, version' = version, NEW D \in SUBSET Threads,
           \A u \in D : pc'[u] \notin {"read", "write", "rename"},
           \A u \in Threads \ D : pc'[u] = pc[u] /\ fd'[u] = fd[u] /\ buf'[u] = buf[u]
    PROVE  Sharing'
<1> SUFFICES ASSUME NEW t \in Threads, NEW u \in Threads,
                    pc'[t] = "read", pc'[u] \in {"write", "rename"}, fd'[t] = fd'[u]
             PROVE  FileOK(buf'[t], version)
  BY DEF Sharing
<1>1. t \notin D /\ u \notin D OBVIOUS
<1> QED BY <1>1 DEF Sharing

LEMMA open_Step ==
    ASSUME IInv, Sound(setup), NEW t \in Threads, open(t)
    PROVE  IInv'
<1> USE DEF IInv
<1>a. FilesInv /\ MemInv /\ Arrays /\ Sharing /\ ThreadInv(t) /\ \A u \in Threads : ThreadInv(u) OBVIOUS
<1>b. Locally(t) /\ Arrays' BY <1>a DEF open, Goto, Locally, Arrays
<1>c. Processes' = Processes /\ Names' = Names BY <1>b, SameSetup DEF Locally
<1>1. FilesInv' BY <1>a, <1>b, FilesLocally
<1>2. MemInv' BY <1>a, <1>b, <1>c DEF open, MemInv, Locally
<1>3. \A u \in Threads \ {t} : ThreadInv(u)' BY <1>a, <1>b, OthersLocally
<1>4. pc[t] = "open" /\ buf'[t] = Empty /\ since'[t] = version /\ version' = version /\ fd[t] = None
  BY <1>a DEF open, ThreadInv
<1>5. Cache \in Names BY DEF Names
<1>6. CASE names[Cache] = None
  <2>1. pc'[t] = "walk" /\ fd'[t] = None BY <1>a, <1>4, <1>6 DEF open, Goto, Arrays
  <2>2. Sharing' BY <1>a, <1>b, <2>1, SharingLocally
  <2>3. ThreadInv(t)' BY <1>4, <2>1 DEF ThreadInv, Places
  <2> QED BY <1>b, <1>1, <1>2, <1>3, <2>2, <2>3
<1>7. CASE names[Cache] # None
  <2>1. pc'[t] = "read" /\ fd'[t] = names[Cache] /\ pos'[t] = 0 /\ fd'[t] \in Inodes
    BY <1>a, <1>5, <1>7 DEF open, Goto, Arrays, FilesInv
  <2>2. Sharing'
    <3> SUFFICES ASSUME NEW r \in Threads, NEW u \in Threads,
                        pc'[r] = "read", pc'[u] \in {"write", "rename"}, fd'[r] = fd'[u]
                 PROVE  FileOK(buf'[r], version)
      BY <1>4 DEF Sharing
    <3>1. CASE r = t BY <1>4, <3>1, EmptyFile
    <3>2. CASE r # t
      <4>1. u # t BY <2>1
      <4> QED BY <1>a, <1>b, <3>2, <4>1 DEF Sharing, Locally
    <3> QED BY <3>1, <3>2
  <2>3. PICK v \in Versions : FileOK(content[fd'[t]], v) BY <1>a, <2>1 DEF FilesInv
  <2>4. \A n \in Names \ {Cache} : names[n] # fd'[t] BY <1>a, <1>5, <1>7, <2>1 DEF FilesInv
  <2>5. setup.kind = "lto" => content[fd'[t]] = Full(version) BY <1>a, <1>7, <2>1 DEF FilesInv
  <2>6. \A k \in 1 .. 2 : ~(k <= pos'[t]) BY <2>1
  <2>7. Full(version)' = Full(version) BY <1>4 DEF Full, Chunks, Symbols
  <2>8. Reader(t)' BY <1>b, <1>c, <1>4, <2>1, <2>3, <2>4, <2>5, <2>6, <2>7, EmptyFile DEF Reader, Locally
  <2>9. ThreadInv(t)' BY <1>4, <2>1, <2>8 DEF ThreadInv, Places
  <2> QED BY <1>b, <1>1, <1>2, <1>3, <2>2, <2>9
<1> QED BY <1>6, <1>7

LEMMA read_to_end_Step ==
    ASSUME IInv, Sound(setup), NEW t \in Threads, read_to_end(t)
    PROVE  IInv'
<1> USE DEF IInv
<1>a. FilesInv /\ MemInv /\ Arrays /\ Sharing /\ ThreadInv(t) /\ \A u \in Threads : ThreadInv(u) OBVIOUS
<1>b. Arrays' BY <1>a DEF read_to_end, Goto, Arrays
<1>c. setup' = setup /\ version' = version /\ names' = names /\ mem' = mem /\ since' = since /\ Reclaim(names, fd')
  BY DEF read_to_end
<1>d. Processes' = Processes /\ Names' = Names BY <1>c, SameSetup
<1>e. /\ content' = [i \in Inodes |-> content'[i]]
      /\ \A i \in Inodes : content'[i] \in {content[i], Empty}
      /\ \A x \in Names : names[x] \in Inodes => content'[names[x]] = content[names[x]]
      /\ \A u \in Threads : fd'[u] \in Inodes => content'[fd'[u]] = content[fd'[u]]
  BY <1>c, Reclaimed
<1>1. FilesInv'
  <2>1. Cache \in Names BY DEF Names
  <2>2. setup.kind = "lto" /\ names'[Cache] # None => content'[names'[Cache]] = Full(version)
    BY <1>a, <1>c, <1>e, <2>1 DEF FilesInv
  <2>3. \A i \in Inodes : content'[i] = content[i] \/ \E v \in Versions : FileOK(content'[i], v)
    <3> SUFFICES ASSUME NEW i \in Inodes, content'[i] = Empty PROVE \E v \in Versions : FileOK(content'[i], v)
      BY <1>e
    <3>1. version \in Versions BY <1>a DEF FilesInv
    <3> QED BY <3>1, EmptyFile
  <2>4. /\ names' = [n \in Names |-> names'[n]] /\ \A n \in Names : names'[n] \in Inodes \cup {None}
        /\ \A m, n \in Names : names'[m] = names'[n] /\ names'[m] # None => m = n
    BY <1>a, <1>c DEF FilesInv
  <2> QED BY <1>a, <1>c, <1>e, <2>2, <2>3, <2>4, FilesAfter
<1>2. MemInv' BY <1>a, <1>c, <1>d DEF MemInv
<1>3. \A u \in Threads \ {t} : /\ pc'[u] = pc[u] /\ fd'[u] = fd[u] /\ pos'[u] = pos[u]
                               /\ buf'[u] = buf[u] /\ since'[u] = since[u]
  BY <1>a DEF read_to_end, Goto, Arrays
<1>4. \A u \in Threads \ {t} : ThreadInv(u)'
  <2> SUFFICES ASSUME NEW u \in Threads \ {t} PROVE ThreadInv(u)'
    OBVIOUS
  <2>1. Spared(u) BY <1>c, <1>e, <1>3 DEF Spared
  <2> QED BY <1>a, <1>c, <2>1, SparedThread
<1>5. pc[t] = "read" /\ Reader(t) /\ since'[t] = version BY <1>a, <1>c DEF read_to_end, ThreadInv
<1>6. PICK v \in Versions : FileOK(content[fd[t]], v) /\ FileOK(buf[t], v) BY <1>5 DEF Reader
<1>7. Full(version)' = Full(version) /\ Symbols(version)' = Symbols(version) BY <1>c DEF Full, Chunks, Symbols
<1>8. CASE pos[t] < 2 /\ content[fd[t]][pos[t] + 1] # Absent
  <2> DEFINE k == pos[t] + 1
  <2>1. /\ k \in 1 .. 2 /\ pc'[t] = "read" /\ fd'[t] = fd[t] /\ pos'[t] = k
        /\ buf'[t] = [buf[t] EXCEPT ![k] = content[fd[t]][k]]
    BY <1>a, <1>5, <1>8 DEF read_to_end, Arrays, Reader
  <2> HIDE DEF k
  <2>a. \A w : FileOK(content[fd[t]], w) /\ FileOK(buf[t], w) => FileOK([buf[t] EXCEPT ![k] = content[fd[t]][k]], w)
    BY <2>1, ReadFile
  <2>b. \A j \in 1 .. 2 : j <= k => j = k \/ j <= pos[t] BY <1>5 DEF Reader, k
  <2>2. FileOK(buf'[t], v) BY <1>6, <2>1, <2>a
  <2>3. content'[fd'[t]] = content[fd[t]] /\ fd'[t] \in Inodes BY <1>e, <1>5, <2>1 DEF Reader
  <2>4. \A n \in Names \ {Cache} : names[n] # fd'[t] BY <1>5, <2>1 DEF Reader
  <2>5. setup.kind = "lto" => /\ content[fd[t]] = Full(version)
                              /\ \A j \in 1 .. 2 : j <= k => buf'[t][j] = Full(version)[j]
    <3> SUFFICES ASSUME setup.kind = "lto", NEW j \in 1 .. 2, j <= k
                 PROVE  content[fd[t]] = Full(version) /\ buf'[t][j] = Full(version)[j]
      BY <1>5 DEF Reader
    <3>1. content[fd[t]] = Full(version) BY <1>5 DEF Reader
    <3>2. j = k \/ j <= pos[t] BY <2>b
    <3>3. buf'[t][j] = IF j = k THEN content[fd[t]][k] ELSE buf[t][j] BY <1>6, <2>1 DEF FileOK
    <3> QED BY <1>5, <3>1, <3>2, <3>3 DEF Reader
  <2>6. Reader(t)' BY <1>c, <1>d, <1>6, <1>7, <2>1, <2>2, <2>3, <2>4, <2>5 DEF Reader
  <2>7. ThreadInv(t)' BY <1>c, <1>5, <2>1, <2>6 DEF ThreadInv, Places
  <2>8. Sharing'
    <3> SUFFICES ASSUME NEW r \in Threads, NEW u \in Threads,
                        pc'[r] = "read", pc'[u] \in {"write", "rename"}, fd'[r] = fd'[u]
                 PROVE  FileOK(buf'[r], version)
      BY <1>c DEF Sharing
    <3>1. u # t /\ pc[u] \in {"write", "rename"} /\ fd'[u] = fd[u] BY <1>3, <2>1
    <3>2. CASE r = t
      <4>1. FileOK(buf[t], version) BY <1>a, <1>5, <2>1, <3>1, <3>2 DEF Sharing
      <4>2. FileOK(content[fd[t]], version) BY <1>a, <2>1, <3>1, <3>2 DEF ThreadInv, Writer
      <4> QED BY <2>1, <2>a, <3>2, <4>1, <4>2
    <3>3. CASE r # t BY <1>a, <1>3, <3>1, <3>3 DEF Sharing
    <3> QED BY <3>2, <3>3
  <2> QED BY <1>b, <1>1, <1>2, <1>4, <2>7, <2>8
<1>9. CASE ~(pos[t] < 2 /\ content[fd[t]][pos[t] + 1] # Absent)
  <2>1. /\ pc'[t] = (IF setup.kind = "sdk" THEN "validate" ELSE "hit")
        /\ fd'[t] = None /\ buf'[t] = buf[t]
    BY <1>a, <1>9 DEF read_to_end, Arrays, Goto
  <2>a. {t} \in SUBSET Threads /\ \A u \in {t} : pc'[u] \notin {"read", "write", "rename"} BY <2>1
  <2>2. Sharing' BY <1>a, <1>c, <1>3, <2>a, SharingAfter
  <2>3. setup.kind = "lto" => buf[t][2] = Full(version)[2]
    <3> SUFFICES ASSUME setup.kind = "lto" PROVE buf[t][2] = Full(version)[2]
      OBVIOUS
    <3>1. content[fd[t]] = Full(version) /\ pos[t] \in 0 .. 2 BY <1>5 DEF Reader
    <3>2. Full(version)[1] # Absent /\ Full(version)[2] # Absent BY FullSet
    <3>3. pos[t] = 2 BY <1>9, <3>1, <3>2
    <3> QED BY <1>5, <3>3 DEF Reader
  <2>4. ThreadInv(t)'
    <3>1. CASE setup.kind = "sdk"
      <4>1. pc'[t] = "validate" BY <2>1, <3>1
      <4> QED BY <1>c, <1>5, <1>6, <2>1, <4>1 DEF ThreadInv, Places
    <3>2. CASE setup.kind = "lto"
      <4>1. pc'[t] = "hit" BY <2>1, <3>2
      <4>2. buf'[t][2].set = Symbols(version) BY <2>1, <2>3, <3>2, FullSet
      <4> QED BY <1>c, <1>5, <1>7, <2>1, <4>1, <4>2 DEF ThreadInv, Places
    <3> QED BY <3>1, <3>2 DEF Sound
  <2> QED BY <1>b, <1>1, <1>2, <1>4, <2>2, <2>4
<1> QED BY <1>8, <1>9

LEMMA create_Step ==
    ASSUME IInv, Sound(setup), NEW t \in Threads, create(t)
    PROVE  IInv'
<1> USE DEF IInv
<1> DEFINE tmp == TmpOf(t)
<1>a. FilesInv /\ MemInv /\ Arrays /\ Sharing /\ ThreadInv(t) /\ \A u \in Threads : ThreadInv(u) OBVIOUS
<1>b. Arrays' BY <1>a DEF create, Goto, Arrays
<1>c. /\ setup' = setup /\ version' = version /\ mem' = mem /\ since' = since /\ buf' = buf
      /\ pc[t] = "create"
  BY DEF create
<1>d. Processes' = Processes /\ Names' = Names /\ TmpOf(t)' = TmpOf(t) BY <1>c, SameSetup
<1>n. tmp \in Names /\ Cache \in Names /\ tmp # Cache BY DEF TmpOf, Names, Processes, Sound, Cache
<1> HIDE DEF tmp
<1>e. PICK i \in IF names[tmp] # None THEN {names[tmp]} ELSE {j \in Free : \A k \in Free : j <= k} :
        /\ names' = [names EXCEPT ![tmp] = i]
        /\ content' = [content EXCEPT ![i] = Empty]
        /\ fd' = [fd EXCEPT ![t] = i]
  BY DEF create, tmp
<1>f. i \in Inodes /\ (names[tmp] = i \/ i \in Free) BY <1>a, <1>n DEF FilesInv, Free
(* Nobody reads the file, and it has no other name.                          *)
<1>g. \A u \in Threads : pc[u] = "read" => fd[u] # i
  <2> SUFFICES ASSUME NEW u \in Threads, pc[u] = "read" PROVE fd[u] # i
    OBVIOUS
  <2>1. names[tmp] # fd[u] BY <1>a, <1>n DEF ThreadInv, Reader
  <2> QED BY <1>f, <2>1 DEF Free
<1>h. \A n \in Names : names[n] = i => n = tmp
  <2> SUFFICES ASSUME NEW n \in Names, names[n] = i PROVE n = tmp
    OBVIOUS
  <2>1. i \notin Free BY DEF Free
  <2> QED BY <1>a, <1>n, <1>f, <2>1, None0 DEF FilesInv
<1>i. /\ \A n \in Names : names'[n] = IF n = tmp THEN i ELSE names[n]
      /\ names' = [n \in Names |-> names'[n]]
      /\ content' = [j \in Inodes |-> content'[j]]
      /\ \A j \in Inodes : content'[j] = IF j = i THEN Empty ELSE content[j]
  BY <1>a, <1>e DEF FilesInv
<1>j. /\ \A u \in Threads \ {t} : pc'[u] = pc[u] /\ fd'[u] = fd[u] /\ pos'[u] = pos[u]
      /\ pc'[t] = "write" /\ fd'[t] = i /\ pos'[t] = 0
  BY <1>a, <1>e DEF create, Goto, Arrays
<1>v. version \in Versions BY <1>a DEF FilesInv
<1>k. Full(version)' = Full(version) BY <1>c DEF Full, Chunks, Symbols
<1>1. FilesInv'
  <2>1. \A m, n \in Names : names'[m] = names'[n] /\ names'[m] # None => m = n
    BY <1>a, <1>h, <1>i DEF FilesInv
  <2>2. \A n \in Names : names'[n] \in Inodes \cup {None} BY <1>a, <1>f, <1>i DEF FilesInv
  <2>3. \A j \in Inodes : content'[j] = content[j] \/ \E v \in Versions : FileOK(content'[j], v)
    BY <1>i, <1>v, EmptyFile
  <2>4. setup.kind = "lto" /\ names'[Cache] # None => content'[names'[Cache]] = Full(version)
    <3> SUFFICES ASSUME setup.kind = "lto", names'[Cache] # None PROVE content'[names'[Cache]] = Full(version)
      OBVIOUS
    <3>1. names'[Cache] = names[Cache] /\ names[Cache] \in Inodes BY <1>a, <1>n, <1>i DEF FilesInv
    <3>2. names[Cache] # i BY <1>h, <1>n
    <3> QED BY <1>a, <1>i, <3>1, <3>2 DEF FilesInv
  <2> QED BY <1>a, <1>c, <1>i, <2>1, <2>2, <2>3, <2>4, FilesAfter
<1>2. MemInv' BY <1>a, <1>c, <1>d DEF MemInv
<1>3. \A u \in Threads \ {t} : ThreadInv(u)'
  <2> SUFFICES ASSUME NEW u \in Threads \ {t} PROVE ThreadInv(u)'
    OBVIOUS
  <2>0. ThreadInv(u) /\ TmpOf(u) \in Names BY <1>a DEF TmpOf, Names, Processes
  <2>1. CASE fd[u] # i
    <3>1. setup.kind = "lto" /\ pc[u] \in {"write", "rename"} => names'[TmpOf(u)] = names[TmpOf(u)]
      <4> SUFFICES ASSUME setup.kind = "lto" PROVE names'[TmpOf(u)] = names[TmpOf(u)]
        OBVIOUS
      <4>1. TmpOf(u) # tmp BY DEF TmpOf, Sound, tmp
      <4> QED BY <1>i, <2>0, <4>1
    <3>2. Spared(u) BY <1>c, <1>i, <1>j, <2>1, <3>1 DEF Spared
    <3> QED BY <1>c, <2>0, <3>2, SparedThread
  <2>2. CASE fd[u] = i
    <3>1. pc[u] \in {"write", "rename"} BY <1>f, <1>g, <2>0, <2>2, None0 DEF ThreadInv
    <3>2. Writer(u) BY <2>0, <3>1 DEF ThreadInv
    <3>3. setup.kind # "lto"
      <4> SUFFICES ASSUME setup.kind = "lto" PROVE FALSE
        OBVIOUS
      <4>1. names[TmpOf(u)] = i BY <2>2, <3>2 DEF Writer
      <4>2. TmpOf(u) = tmp BY <1>h, <2>0, <4>1
      <4> QED BY <4>2 DEF TmpOf, Sound, tmp
    <3>4. FileOK(content'[fd'[u]], version) BY <1>f, <1>i, <1>j, <2>2, EmptyFile
    <3>5. Writer(u)' BY <1>c, <1>f, <1>j, <1>k, <2>2, <3>2, <3>3, <3>4 DEF Writer
    <3> QED BY <1>c, <1>j, <2>0, <3>1, <3>5 DEF ThreadInv
  <2> QED BY <2>1, <2>2
<1>4. ThreadInv(t)'
  <2>1. names'[TmpOf(t)'] = fd'[t] BY <1>d, <1>i, <1>j, <1>n DEF tmp
  <2>2. FileOK(content'[fd'[t]], version) BY <1>f, <1>i, <1>j, EmptyFile
  <2>3. buf'[t] = Full(version) /\ since'[t] = version BY <1>a, <1>c DEF ThreadInv
  <2>4. \A k \in 1 .. 2 : ~(k <= pos'[t]) BY <1>j
  <2>5. Writer(t)' BY <1>c, <1>f, <1>j, <1>k, <2>1, <2>2, <2>3, <2>4 DEF Writer
  <2> QED BY <1>c, <1>j, <2>3, <2>5 DEF ThreadInv, Places
<1>5. Sharing'
  <2> SUFFICES ASSUME NEW r \in Threads, NEW u \in Threads,
                      pc'[r] = "read", pc'[u] \in {"write", "rename"}, fd'[r] = fd'[u]
               PROVE  FileOK(buf'[r], version)
    BY <1>c DEF Sharing
  <2>1. r # t /\ pc[r] = "read" /\ fd'[r] = fd[r] BY <1>j
  <2>2. u # t BY <1>g, <1>j, <2>1
  <2> QED BY <1>a, <1>c, <1>j, <2>1, <2>2 DEF Sharing
<1> QED BY <1>b, <1>1, <1>2, <1>3, <1>4, <1>5

LEMMA write_all_Step ==
    ASSUME IInv, Sound(setup), NEW t \in Threads, write_all(t)
    PROVE  IInv'
<1> DEFINE i == fd[t]
           k == pos[t] + 1
<1>a. FilesInv /\ MemInv /\ Arrays /\ Sharing /\ ThreadInv(t) /\ \A u \in Threads : ThreadInv(u) BY DEF IInv
<1>b. Arrays' BY <1>a DEF write_all, Written, Goto, Arrays
<1>c. /\ setup' = setup /\ version' = version /\ mem' = mem /\ since' = since /\ buf' = buf
      /\ fd' = fd /\ names' = names /\ pc[t] = "write"
  BY DEF write_all
<1>d. Processes' = Processes /\ Names' = Names /\ TmpOf(t)' = TmpOf(t) BY <1>c, SameSetup
<1>e. Writer(t) /\ i \in Inodes /\ k \in 1 .. 2 /\ buf[t] = Full(version)
  <2>1. Writer(t) BY <1>a, <1>c DEF ThreadInv
  <2>2. i \in Inodes /\ buf[t] = Full(version) /\ pos[t] \in 0 .. 1 BY <1>c, <2>1 DEF Writer
  <2>3. \A n \in 0 .. 1 : n + 1 \in 1 .. 2 OBVIOUS
  <2>4. k \in 1 .. 2 BY <2>2, <2>3
  <2> QED BY <2>1, <2>2, <2>4
<1>f. content' = [content EXCEPT ![i] = Overwritten(content[i], k, Full(version)[k])]
  BY <1>e DEF write_all, Written
<1>j. /\ \A u \in Threads \ {t} : pc'[u] = pc[u] /\ pos'[u] = pos[u]
      /\ pc'[t] = (IF k = 2 THEN "rename" ELSE "write") /\ pos'[t] = k
  <2>1. \A u \in Threads \ {t} : pc'[u] = pc[u] /\ pos'[u] = pos[u] BY <1>a DEF write_all, Written, Goto, Arrays
  <2>2. pc'[t] = (IF pos[t] = 1 THEN "rename" ELSE "write") BY <1>a DEF write_all, Goto, Arrays
  <2>3. pos'[t] = k BY <1>a DEF write_all, Written, Arrays
  <2>4. pos[t] \in 0 .. 1 BY <1>e, <1>c DEF Writer
  <2>5. pos[t] = 1 <=> k = 2 BY <2>4
  <2> QED BY <2>1, <2>2, <2>3, <2>5
<1>p. \A j \in 1 .. 2 : j <= k => j = k \/ j <= pos[t] BY <1>e DEF Writer
<1> HIDE DEF i, k
<1>g. FileOK(Overwritten(content[i], k, Full(version)[k]), version) BY <1>e, OverwrittenFile DEF Writer, i
<1>i. /\ content' = [j \in Inodes |-> content'[j]]
      /\ \A j \in Inodes \ {i} : content'[j] = content[j]
      /\ content'[i] = Overwritten(content[i], k, Full(version)[k])
  BY <1>a, <1>e, <1>f DEF FilesInv
<1>v. version \in Versions
  <2>1. version \in Nat \ {0} BY <1>a DEF FilesInv
  <2> QED BY <2>1 DEF Versions
<1>k. Full(version)' = Full(version) BY <1>c DEF Full, Chunks, Symbols
<1>n. TmpOf(t) \in Names /\ Cache \in Names /\ TmpOf(t) # Cache BY DEF TmpOf, Names, Processes, Sound, Cache
<1>1. FilesInv'
  <2>1. \A j \in Inodes : content'[j] = content[j] \/ \E v \in Versions : FileOK(content'[j], v)
    BY <1>i, <1>v, <1>g
  <2>2. setup.kind = "lto" /\ names'[Cache] # None => content'[names'[Cache]] = Full(version)
    <3> SUFFICES ASSUME setup.kind = "lto", names[Cache] # None PROVE content'[names[Cache]] = Full(version)
      BY <1>c
    <3>1. names[Cache] \in Inodes BY <1>a, <1>n DEF FilesInv
    <3>2. names[TmpOf(t)] = i BY <1>e DEF Writer, i
    <3>3. names[Cache] # i BY <1>a, <1>n, <3>2 DEF FilesInv
    <3> QED BY <1>a, <1>i, <3>1, <3>3 DEF FilesInv
  <2>3. /\ names' = [n \in Names |-> names'[n]] /\ \A n \in Names : names'[n] \in Inodes \cup {None}
        /\ \A m, n \in Names : names'[m] = names'[n] /\ names'[m] # None => m = n
    BY <1>a, <1>c DEF FilesInv
  <2> QED BY <1>a, <1>c, <1>i, <2>1, <2>2, <2>3, FilesAfter
<1>2. MemInv' BY <1>a, <1>c, <1>d DEF MemInv
<1>3. \A u \in Threads \ {t} : ThreadInv(u)'
  <2> SUFFICES ASSUME NEW u \in Threads \ {t} PROVE ThreadInv(u)'
    OBVIOUS
  <2>0. ThreadInv(u) /\ TmpOf(u) \in Names /\ TmpOf(u)' = TmpOf(u) BY <1>a, <1>c, SameSetup DEF TmpOf, Names, Processes
  <2>1. CASE fd[u] # i
    <3>1. Spared(u) BY <1>c, <1>i, <1>j, <2>1 DEF Spared
    <3> QED BY <1>c, <2>0, <3>1, SparedThread
  <2>2. CASE fd[u] = i /\ pc[u] = "read"
    <3>1. Reader(u) BY <2>0, <2>2 DEF ThreadInv
    <3>2. FileOK(buf[u], version) BY <1>a, <1>c, <2>2 DEF Sharing, i
    <3>3. setup.kind # "lto" BY <1>e, <1>n, <2>2, <3>1 DEF Reader, Writer, i
    <3>4. Reader(u)' BY <1>c, <1>d, <1>g, <1>i, <1>j, <1>v, <2>2, <3>1, <3>2, <3>3 DEF Reader
    <3> QED BY <1>c, <1>j, <2>0, <2>2, <3>4 DEF ThreadInv
  <2>3. CASE fd[u] = i /\ pc[u] # "read"
    <3>1. pc[u] \in {"write", "rename"} BY <1>e, <2>0, <2>3, None0 DEF ThreadInv
    <3>2. Writer(u) BY <2>0, <3>1 DEF ThreadInv
    <3>3. setup.kind # "lto"
      <4> SUFFICES ASSUME setup.kind = "lto" PROVE FALSE
        OBVIOUS
      <4>1. names[TmpOf(u)] = i /\ names[TmpOf(t)] = i BY <1>e, <2>3, <3>2 DEF Writer, i
      <4>2. TmpOf(u) = TmpOf(t) BY <1>a, <1>e, <1>n, <2>0, <4>1, None0 DEF FilesInv
      <4> QED BY <4>2 DEF TmpOf, Sound
    <3>4. Writer(u)' BY <1>c, <1>g, <1>i, <1>j, <1>k, <2>3, <3>2, <3>3 DEF Writer
    <3> QED BY <1>c, <1>j, <2>0, <3>1, <3>4 DEF ThreadInv
  <2> QED BY <2>1, <2>2, <2>3
<1>4. ThreadInv(t)'
  <2>1. setup.kind = "lto" => \A j \in 1 .. 2 : j <= k => content'[i][j] = Full(version)[j]
    <3> SUFFICES ASSUME setup.kind = "lto", NEW j \in 1 .. 2, j <= k PROVE content'[i][j] = Full(version)[j]
      OBVIOUS
    <3>1. CASE j = k BY <1>i, <3>1 DEF Overwritten
    <3>2. CASE j # k
      <4>1. j <= pos[t] /\ content[i][j] = Full(version)[j] BY <1>e, <1>p, <3>2 DEF Writer, i
      <4>2. Full(version)[1] # Absent /\ Full(version)[2] # Absent BY FullSet
      <4>3. j = 1 \/ j = 2 OBVIOUS
      <4>4. content[i][j] # Absent BY <4>1, <4>2, <4>3
      <4> QED BY <1>i, <3>2, <4>1, <4>4 DEF Overwritten
    <3> QED BY <3>1, <3>2
  <2>2. pc'[t] \in {"write", "rename"} /\ (pc'[t] = "write" => k = 1) /\ (pc'[t] = "rename" => k = 2)
    <3>1. CASE k = 2 BY <1>j, <3>1
    <3>2. CASE k # 2
      <4>1. k = 1 BY <1>e, <3>2
      <4> QED BY <1>j, <3>2, <4>1
    <3> QED BY <3>1, <3>2
  <2>3. Writer(t)'
    <3>a. fd'[t] \in Inodes /\ buf'[t] = Full(version)' BY <1>c, <1>e, <1>k DEF i
    <3>b. \A n \in 1 .. 2 : n \in 0 .. 2 OBVIOUS
    <3>1. fd'[t] \in Inodes /\ buf'[t] = Full(version)' /\ pos'[t] \in 0 .. 2 BY <1>e, <1>j, <3>a, <3>b
    <3>2. FileOK(content'[fd'[t]], version') BY <1>c, <1>g, <1>i DEF i
    <3>3. pc'[t] = "write" => pos'[t] \in 0 .. 1 BY <1>j, <2>2
    <3>4. setup'.kind = "lto" => names'[TmpOf(t)'] = fd'[t] BY <1>c, <1>d, <1>e DEF Writer
    <3>5. setup'.kind = "lto" => \A j \in 1 .. 2 : j <= pos'[t] => content'[fd'[t]][j] = Full(version)'[j]
      BY <1>c, <1>j, <1>k, <2>1 DEF i
    <3>6. pc'[t] = "rename" => pos'[t] = 2 BY <1>j, <2>2
    <3>7. FileOK(content[fd[t]], version)' BY <3>2 DEF FileOK, Full, Chunks, Symbols
    <3> QED BY <3>1, <3>3, <3>4, <3>5, <3>6, <3>7 DEF Writer
  <2>4. since[t] = version BY <1>a, <1>c DEF ThreadInv
  <2> QED BY <1>c, <2>2, <2>3, <2>4 DEF ThreadInv, Places
<1>5. Sharing'
  <2>1. \A u \in Threads : /\ pc'[u] = "read" => pc[u] = "read"
                           /\ pc'[u] \in {"write", "rename"} => pc[u] \in {"write", "rename"}
    BY <1>c, <1>j
  <2> QED BY <1>a, <1>c, <2>1 DEF Sharing
<1> QED BY <1>b, <1>1, <1>2, <1>3, <1>4, <1>5 DEF IInv

(* Threads of D stop and give up their files; of the names only those of      *)
(* temporary files are lost.                                                 *)
LEMMA Stop ==
    ASSUME IInv, Sound(setup), NEW D \in SUBSET Threads, setup' = setup, version' = version,
           Arrays', MemInv', Reclaim(names', fd'),
           names' = [n \in Names |-> names'[n]],
           \A n \in Names : names'[n] \in {names[n], None},
           \A u \in Threads \ D : /\ pc'[u] = pc[u] /\ fd'[u] = fd[u] /\ pos'[u] = pos[u]
                                  /\ buf'[u] = buf[u] /\ since'[u] = since[u]
                                  /\ setup.kind = "lto" => names'[TmpOf(u)] = names[TmpOf(u)],
           \A u \in D : pc'[u] \in {"idle", "cleanup", "done"} /\ fd'[u] = None /\ (pc'[u] = "idle" \/ since'[u] = version)
    PROVE  IInv'
<1> USE DEF IInv
<1>a. FilesInv /\ Sharing /\ \A u \in Threads : ThreadInv(u) OBVIOUS
<1>e. /\ content' = [i \in Inodes |-> content'[i]]
      /\ \A i \in Inodes : content'[i] \in {content[i], Empty}
      /\ \A x \in Names : names'[x] \in Inodes => content'[names'[x]] = content[names'[x]]
      /\ \A u \in Threads : fd'[u] \in Inodes => content'[fd'[u]] = content[fd'[u]]
  BY Reclaimed
<1>1. FilesInv'
  <2>1. Cache \in Names BY DEF Names
  <2>2. setup.kind = "lto" /\ names'[Cache] # None => content'[names'[Cache]] = Full(version)
    <3> SUFFICES ASSUME setup.kind = "lto", names'[Cache] # None PROVE content'[names'[Cache]] = Full(version)
      OBVIOUS
    <3>1. names'[Cache] = names[Cache] /\ names[Cache] \in Inodes BY <1>a, <2>1 DEF FilesInv
    <3>2. content[names[Cache]] = Full(version) BY <1>a, <3>1 DEF FilesInv
    <3>3. content'[names[Cache]] = content[names[Cache]] BY <1>e, <2>1, <3>1
    <3> QED BY <3>1, <3>2, <3>3
  <2>3. \A i \in Inodes : content'[i] = content[i] \/ \E v \in Versions : FileOK(content'[i], v)
    <3>1. version \in Versions BY <1>a DEF FilesInv
    <3> QED BY <1>e, <3>1, EmptyFile
  <2>4. /\ \A n \in Names : names'[n] \in Inodes \cup {None}
        /\ \A m, n \in Names : names'[m] = names'[n] /\ names'[m] # None => m = n
    BY <1>a DEF FilesInv
  <2> QED BY <1>a, <1>e, <2>2, <2>3, <2>4, FilesAfter
<1>2. \A u \in Threads \ D : ThreadInv(u)'
  <2> SUFFICES ASSUME NEW u \in Threads \ D PROVE ThreadInv(u)'
    OBVIOUS
  <2>1. Spared(u) BY <1>e DEF Spared
  <2> QED BY <1>a, <2>1, SparedThread
<1>3. \A u \in D : ThreadInv(u)' BY DEF ThreadInv, Places
<1>4. \A u \in D : pc'[u] \notin {"read", "write", "rename"} OBVIOUS
<1>5. Sharing' BY <1>a, <1>4, SharingAfter
<1> QED BY <1>1, <1>2, <1>3, <1>5

LEMMA write_fails_Step ==
    ASSUME IInv, Sound(setup), NEW t \in Threads, write_fails(t)
    PROVE  IInv'
<1>a. FilesInv /\ MemInv /\ Arrays /\ ThreadInv(t) BY DEF IInv
<1>1. /\ setup' = setup /\ version' = version /\ names' = names /\ Reclaim(names', fd') /\ mem' = mem
      /\ buf' = buf /\ since' = since /\ pos' = pos
  BY DEF write_fails
<1>2. MemInv' BY <1>a, <1>1, SameSetup DEF MemInv
<1>3. Arrays' BY <1>a DEF write_fails, Goto, Arrays
<1>4. \A u \in Threads \ {t} : pc'[u] = pc[u] /\ fd'[u] = fd[u] BY <1>a DEF write_fails, Goto, Arrays
<1>5. pc'[t] \in {"cleanup", "done"} /\ fd'[t] = None BY <1>a DEF write_fails, Goto, Arrays
<1>6. since[t] = version BY <1>a DEF write_fails, ThreadInv
<1>7. names' = [n \in Names |-> names'[n]] /\ \A n \in Names : names'[n] \in {names[n], None} BY <1>a, <1>1 DEF FilesInv
<1>8. {t} \in SUBSET Threads OBVIOUS
<1>9. \A u \in {t} : pc'[u] \in {"idle", "cleanup", "done"} /\ fd'[u] = None /\ (pc'[u] = "idle" \/ since'[u] = version)
  BY <1>1, <1>5, <1>6
<1>10. \A u \in Threads \ {t} : /\ pc'[u] = pc[u] /\ fd'[u] = fd[u] /\ pos'[u] = pos[u]
                                /\ buf'[u] = buf[u] /\ since'[u] = since[u]
                                /\ setup.kind = "lto" => names'[TmpOf(u)] = names[TmpOf(u)]
  BY <1>1, <1>4
<1> QED BY <1>1, <1>2, <1>3, <1>7, <1>8, <1>9, <1>10, Stop

LEMMA remove_file_Step ==
    ASSUME IInv, Sound(setup), NEW t \in Threads, remove_file(t)
    PROVE  IInv'
<1>a. FilesInv /\ MemInv /\ Arrays /\ ThreadInv(t) BY DEF IInv
<1>1. /\ setup' = setup /\ version' = version /\ Reclaim(names', fd) /\ mem' = mem /\ pc[t] = "cleanup"
      /\ buf' = buf /\ since' = since /\ pos' = pos /\ fd' = fd /\ names' = [names EXCEPT ![TmpOf(t)] = None]
  BY DEF remove_file
<1>r. Reclaim(names', fd') BY <1>1
<1>2. MemInv' BY <1>a, <1>1, SameSetup DEF MemInv
<1>3. Arrays' BY <1>a DEF remove_file, Goto, Arrays
<1>4. \A u \in Threads \ {t} : pc'[u] = pc[u] BY <1>a DEF remove_file, Goto, Arrays
<1>5. pc'[t] = "done" /\ fd'[t] = None /\ since[t] = version
  BY <1>a, <1>1 DEF remove_file, Goto, Arrays, ThreadInv
<1>7. /\ names' = [n \in Names |-> names'[n]] /\ \A n \in Names : names'[n] \in {names[n], None}
      /\ \A n \in Names \ {TmpOf(t)} : names'[n] = names[n]
  BY <1>a, <1>1 DEF FilesInv
<1>8. {t} \in SUBSET Threads OBVIOUS
<1>9. \A u \in {t} : pc'[u] \in {"idle", "cleanup", "done"} /\ fd'[u] = None /\ (pc'[u] = "idle" \/ since'[u] = version)
  BY <1>1, <1>5
<1>10. \A u \in Threads \ {t} : setup.kind = "lto" => names'[TmpOf(u)] = names[TmpOf(u)]
  <2> SUFFICES ASSUME NEW u \in Threads \ {t}, setup.kind = "lto" PROVE names'[TmpOf(u)] = names[TmpOf(u)]
    OBVIOUS
  <2>1. TmpOf(u) # TmpOf(t) /\ TmpOf(u) \in Names BY DEF TmpOf, Sound, Names, Processes
  <2> QED BY <1>7, <2>1
<1>11. \A u \in Threads \ {t} : /\ pc'[u] = pc[u] /\ fd'[u] = fd[u] /\ pos'[u] = pos[u]
                                /\ buf'[u] = buf[u] /\ since'[u] = since[u]
                                /\ setup.kind = "lto" => names'[TmpOf(u)] = names[TmpOf(u)]
  BY <1>1, <1>4, <1>10
<1> QED BY <1>1, <1>r, <1>2, <1>3, <1>7, <1>8, <1>9, <1>11, Stop

LEMMA Kill_Step ==
    ASSUME IInv, Sound(setup), NEW p \in Processes, Kill(p)
    PROVE  IInv'
<1> DEFINE mine == {t \in Threads : setup.owner[t] = p}
<1>a. FilesInv /\ MemInv /\ Arrays BY DEF IInv
<1>1. /\ setup' = setup /\ version' = version /\ names' = names /\ Reclaim(names, fd')
      /\ mem' = [mem EXCEPT ![p] = Empty]
  BY DEF Kill
<1>r. Reclaim(names', fd') BY <1>1
<1>2. MemInv' BY <1>a, <1>1, SameSetup DEF MemInv
<1>3. Arrays' BY DEF Kill, Arrays
<1>7. names' = [n \in Names |-> names'[n]] /\ \A n \in Names : names'[n] \in {names[n], None} BY <1>a, <1>1 DEF FilesInv
<1>8. mine \in SUBSET Threads OBVIOUS
<1>9. \A u \in mine : pc'[u] \in {"idle", "cleanup", "done"} /\ fd'[u] = None /\ (pc'[u] = "idle" \/ since'[u] = version)
  BY DEF Kill
<1>10. \A u \in Threads \ mine : /\ pc'[u] = pc[u] /\ fd'[u] = fd[u] /\ pos'[u] = pos[u]
                                 /\ buf'[u] = buf[u] /\ since'[u] = since[u]
                                 /\ setup.kind = "lto" => names'[TmpOf(u)] = names[TmpOf(u)]
  BY DEF Kill
<1> HIDE DEF mine
<1> QED BY <1>1, <1>r, <1>2, <1>3, <1>7, <1>8, <1>9, <1>10, Stop

LEMMA rename_Step ==
    ASSUME IInv, Sound(setup), NEW t \in Threads, rename(t)
    PROVE  IInv'
<1> DEFINE tmp == TmpOf(t)
<1>a. FilesInv /\ MemInv /\ Arrays /\ Sharing /\ ThreadInv(t) /\ \A u \in Threads : ThreadInv(u) BY DEF IInv
<1>n. tmp \in Names /\ Cache \in Names /\ tmp # Cache BY DEF TmpOf, Names, Processes, Sound, Cache
<1>1. /\ setup' = setup /\ version' = version /\ Reclaim(names', fd') /\ mem' = mem
      /\ buf' = buf /\ since' = since /\ pos' = pos /\ pc[t] = "rename" /\ Writer(t)
  BY <1>a DEF rename, ThreadInv
<1>2. MemInv' BY <1>a, <1>1, SameSetup DEF MemInv
<1>3. Arrays' BY <1>a DEF rename, Goto, Arrays
<1>4. \A u \in Threads \ {t} : pc'[u] = pc[u] /\ fd'[u] = fd[u] BY <1>a DEF rename, Goto, Arrays
<1>5. pc'[t] \in {"cleanup", "done"} /\ fd'[t] = None BY <1>a DEF rename, Goto, Arrays
<1>6. since'[t] = version BY <1>a, <1>1 DEF ThreadInv
<1>8. {t} \in SUBSET Threads OBVIOUS
<1>9. \A u \in {t} : pc'[u] \in {"idle", "cleanup", "done"} /\ fd'[u] = None /\ (pc'[u] = "idle" \/ since'[u] = version)
  BY <1>1, <1>5, <1>6
<1>10. CASE names[tmp] = None
  <2>1. names' = names BY <1>10 DEF rename
  <2>2. names' = [n \in Names |-> names'[n]] /\ \A n \in Names : names'[n] \in {names[n], None} BY <1>a, <2>1 DEF FilesInv
  <2>3. \A u \in Threads \ {t} : /\ pc'[u] = pc[u] /\ fd'[u] = fd[u] /\ pos'[u] = pos[u]
                                 /\ buf'[u] = buf[u] /\ since'[u] = since[u]
                                 /\ setup.kind = "lto" => names'[TmpOf(u)] = names[TmpOf(u)]
    BY <1>1, <1>4, <2>1
  <2> QED BY <1>1, <1>2, <1>3, <1>8, <1>9, <2>2, <2>3, Stop
<1>11. CASE names[tmp] # None
  <2>1. names' = [names EXCEPT ![Cache] = names[tmp], ![tmp] = None] BY <1>11 DEF rename
  <2> HIDE DEF tmp
  <2>2. /\ names' = [n \in Names |-> names'[n]]
        /\ names'[Cache] = names[tmp] /\ names'[tmp] = None
        /\ \A n \in Names \ {Cache, tmp} : names'[n] = names[n]
    BY <1>a, <1>n, <2>1 DEF FilesInv
  <2>3. /\ content' = [i \in Inodes |-> content'[i]]
        /\ \A i \in Inodes : content'[i] \in {content[i], Empty}
        /\ \A x \in Names : names'[x] \in Inodes => content'[names'[x]] = content[names'[x]]
        /\ \A u \in Threads : fd'[u] \in Inodes => content'[fd'[u]] = content[fd'[u]]
    <3>1. Reclaim(names', fd') /\ setup' = setup BY <1>1
    <3> QED BY <3>1, Reclaimed
  <2>4. FilesInv'
    <3>1. \A n \in Names : names'[n] \in Inodes \cup {None} BY <1>a, <1>n, <2>2 DEF FilesInv
    <3>2. \A m, n \in Names : names'[m] = names'[n] /\ names'[m] # None => m = n
      <4> SUFFICES ASSUME NEW m \in Names, NEW n \in Names, names'[m] = names'[n], names'[m] # None PROVE m = n
        OBVIOUS
      <4>1. m # tmp /\ n # tmp BY <2>2
      <4>2. \A x \in Names \ {tmp} : names'[x] = IF x = Cache THEN names[tmp] ELSE names[x] BY <2>2
      <4> QED BY <1>a, <1>n, <4>1, <4>2 DEF FilesInv
    <3>3. \A i \in Inodes : content'[i] = content[i] \/ \E v \in Versions : FileOK(content'[i], v)
      <4>1. version \in Versions BY <1>a DEF FilesInv
      <4> QED BY <2>3, <4>1, EmptyFile
    <3>4. setup.kind = "lto" => content'[names'[Cache]] = Full(version)
      <4> SUFFICES ASSUME setup.kind = "lto" PROVE content'[names'[Cache]] = Full(version)
        OBVIOUS
      <4>1. names'[Cache] = fd[t] /\ fd[t] \in Inodes /\ pos[t] = 2 BY <1>1, <2>2 DEF Writer, tmp
      <4>2. content'[fd[t]] = content[fd[t]] BY <1>n, <2>3, <4>1
      <4>a. \A k \in 1 .. 2 : k <= pos[t] => content[fd[t]][k] = Full(version)[k] BY <1>1 DEF Writer
      <4>b. \A k \in 1 .. 2 : k <= 2 OBVIOUS
      <4>3. \A k \in 1 .. 2 : content[fd[t]][k] = Full(version)[k] BY <4>1, <4>a, <4>b
      <4>4. content[fd[t]] = [k \in 1 .. 2 |-> content[fd[t]][k]] BY <1>1 DEF Writer, FileOK
      <4>5. Full(version) = [k \in 1 .. 2 |-> Full(version)[k]] BY DEF Full, Chunks
      <4> QED BY <4>1, <4>2, <4>3, <4>4, <4>5
    <3> QED BY <1>a, <1>1, <2>2, <2>3, <3>1, <3>2, <3>3, <3>4, FilesAfter
  <2>5. \A u \in Threads \ {t} : ThreadInv(u)'
    <3> SUFFICES ASSUME NEW u \in Threads \ {t} PROVE ThreadInv(u)'
      OBVIOUS
    <3>1. setup.kind = "lto" => names'[TmpOf(u)] = names[TmpOf(u)]
      <4> SUFFICES ASSUME setup.kind = "lto" PROVE names'[TmpOf(u)] = names[TmpOf(u)]
        OBVIOUS
      <4>1. TmpOf(u) # tmp /\ TmpOf(u) \in Names /\ TmpOf(u) # Cache BY DEF TmpOf, Sound, Names, Processes, tmp
      <4> QED BY <2>2, <4>1
    <3>a. pc'[u] = pc[u] /\ fd'[u] = fd[u] /\ pos'[u] = pos[u] /\ buf'[u] = buf[u] /\ since'[u] = since[u]
      BY <1>1, <1>4
    <3>b. fd[u] \in Inodes => content'[fd[u]] = content[fd[u]] BY <2>3, <3>a
    <3>c. \A n \in Names \ {Cache} : names'[n] = names[n] \/ names'[n] = None BY <2>2
    <3>2. Spared(u) BY <3>a, <3>b, <3>c, <3>1 DEF Spared
    <3> QED BY <1>a, <1>1, <3>2, SparedThread
  <2>6. ThreadInv(t)' BY <1>1, <1>5, <1>6 DEF ThreadInv, Places
  <2>7. /\ \A u \in {t} : pc'[u] \notin {"read", "write", "rename"}
        /\ \A u \in Threads \ {t} : pc'[u] = pc[u] /\ fd'[u] = fd[u] /\ buf'[u] = buf[u]
    BY <1>1, <1>4, <1>5
  <2>8. Sharing' BY <1>a, <1>1, <1>8, <2>7, SharingAfter
  <2> QED BY <1>2, <1>3, <2>4, <2>5, <2>6, <2>8 DEF IInv
<1> QED BY <1>10, <1>11

LEMMA Update_Step ==
    ASSUME IInv, Sound(setup), Update
    PROVE  IInv'
<1>a. FilesInv /\ MemInv /\ Arrays /\ \A u \in Threads : ThreadInv(u) BY DEF IInv
<1>1. /\ setup' = setup /\ version' = version + 1 /\ setup.kind = "sdk"
      /\ names' = names /\ content' = content /\ mem' = mem
      /\ \A t \in Threads : pc[t] = "idle"
      /\ pc' = pc /\ fd' = fd /\ pos' = pos /\ buf' = buf /\ since' = since
  BY DEF Update, Sound
<1>2. Names' = Names /\ Processes' = Processes BY <1>1, SameSetup
<1>3. \A v \in Versions : v \in Versions' BY <1>a, <1>1 DEF FilesInv
<1>4. FilesInv'
  <2>1. version' \in Nat \ {0} BY <1>a, <1>1 DEF FilesInv
  <2>2. \A i \in Inodes : \E v \in Versions' : FileOK(content'[i], v) BY <1>a, <1>1, <1>3 DEF FilesInv
  <2> QED BY <1>a, <1>1, <1>2, <2>1, <2>2 DEF FilesInv
<1>5. MemInv' BY <1>a, <1>1, <1>2, <1>3 DEF MemInv
<1>6. Arrays' BY <1>a, <1>1 DEF Arrays
<1>7. Sharing' BY <1>1 DEF Sharing
<1>8. \A u \in Threads : ThreadInv(u)' BY <1>a, <1>1 DEF ThreadInv, Places
<1> QED BY <1>4, <1>5, <1>6, <1>7, <1>8 DEF IInv

LEMMA Stutter ==
    ASSUME IInv, UNCHANGED vars
    PROVE  IInv'
<1>1. Names' = Names /\ Processes' = Processes /\ \A t \in Threads : TmpOf(t)' = TmpOf(t)
  BY SameSetup DEF vars
<1>2. FilesInv => FilesInv' BY <1>1 DEF FilesInv, vars
<1>3. MemInv => MemInv' BY <1>1 DEF MemInv, vars
<1>4. \A t \in Threads : ThreadInv(t) => ThreadInv(t)'
  <2> SUFFICES ASSUME NEW t \in Threads, ThreadInv(t) PROVE ThreadInv(t)'
    OBVIOUS
  <2>1. Reader(t) => Reader(t)' BY <1>1 DEF Reader, vars
  <2>2. Writer(t) => Writer(t)' BY <1>1 DEF Writer, vars
  <2> QED BY <2>1, <2>2 DEF ThreadInv, vars
<1>5. (Sharing => Sharing') /\ (Arrays => Arrays') /\ setup' = setup BY DEF Sharing, Arrays, vars
<1> QED BY <1>2, <1>3, <1>4, <1>5 DEF IInv, Sound

(* Lookups that succeed are current (HitsAreCurrent) for any number of        *)
(* threads, processes and updates, whoever writes, is killed while it writes, *)
(* or truncates or renames the temporary file of someone else: for the        *)
(* SDK cache because each file holds chunks of one version and a header       *)
(* without symbols is refused, for the LTO cache, which refuses nothing,      *)
(* because a file gets its name only when it is complete.                     *)
THEOREM HitsAlwaysCurrent == Spec => [](Sound(setup) => HitsAreCurrent)
<1>1. Init => IInv BY Initially
<1>2. IInv /\ [Next]_vars => IInv'
  <2> SUFFICES ASSUME IInv, [Next]_vars PROVE IInv'
    OBVIOUS
  <2>1. CASE UNCHANGED vars BY <2>1, Stutter
  <2>2. CASE Next
    <3>1. CASE ~Sound(setup)
      <4>1. setup' = setup
        BY <2>2 DEF Next, load_sdk_symbols, open, read_to_end, validate, insert, work, save_sdk_symbols, create,
                    write_all, write_fails, rename, remove_file, finish, Kill, Update
      <4> QED BY <3>1, <4>1 DEF IInv, Sound
    <3>2. CASE Sound(setup)
      <4>1. CASE Update BY <3>2, <4>1, Update_Step
      <4>2. CASE \E p \in Processes : Kill(p) BY <3>2, <4>2, Kill_Step
      <4>3. ASSUME NEW t \in Threads,
                   load_sdk_symbols(t) \/ validate(t) \/ insert(t) \/ work(t) \/ save_sdk_symbols(t) \/ finish(t)
            PROVE  IInv'
        BY <3>2, <4>3, LocalSteps
      <4>4. ASSUME NEW t \in Threads,
                   open(t) \/ read_to_end(t) \/ create(t) \/ write_all(t) \/ write_fails(t) \/ rename(t) \/ remove_file(t)
            PROVE  IInv'
        BY <3>2, <4>4, open_Step, read_to_end_Step, create_Step, write_all_Step, write_fails_Step, rename_Step,
           remove_file_Step
      <4> QED BY <2>2, <4>1, <4>2, <4>3, <4>4 DEF Next
    <3> QED BY <3>1, <3>2
  <2> QED BY <2>1, <2>2
<1>3. IInv => (Sound(setup) => HitsAreCurrent)
  <2> SUFFICES ASSUME IInv, Sound(setup), NEW t \in Threads, pc[t] = "hit"
               PROVE  \E v \in since[t] .. version : Answer(t) = Symbols(v)
    BY DEF HitsAreCurrent
  <2>1. since[t] = version /\ Answer(t) = Symbols(version) BY DEF IInv, ThreadInv, Answer
  <2>2. version \in since[t] .. version BY <2>1 DEF IInv, FilesInv
  <2> QED BY <2>1, <2>2
<1> QED BY <1>1, <1>2, <1>3, PTL DEF Spec

=============================================================================
