--------------------------- MODULE StringMerging ---------------------------
(***************************************************************************)
(* String merging (libwild/src/string_merging.rs) for one output section.   *)
(* The input sections are cut into groups of about GroupSize bytes.  Input  *)
(* tasks split a group into strings, one Vec of them per hash bucket; each  *)
(* bucket takes the Vecs of the groups in order and deduplicates them.  A   *)
(* bucket whose next Vec is not there yet is parked in the slot of that Vec *)
(* and woken by the task that fills it.  The number of Vecs is limited by a *)
(* pool, and only a bucket that gave one back starts further input tasks.   *)
(*                                                                         *)
(* Bytes are numbers, 0 is NUL.  A linear offset is an offset into the      *)
(* concatenation of the input sections, each padded to whole blocks.        *)
(***************************************************************************)
EXTENDS Naturals, Sequences, FiniteSets, SequencesExt, FiniteSetsExt

CONSTANTS
    NumBuckets,   \* MERGE_STRING_BUCKETS
    Bucket(_),    \* hash of a string, modulo NumBuckets
    Parallelism,  \* split_parallelism
    BlockSize,    \* MAP_BLOCK_SIZE
    BlockCap,     \* offsets that fit in a block of the offset map
    GroupSize,    \* target_group_size, a multiple of BlockSize
    OffsetLimit,  \* 1 << (32 - MERGE_STRING_BUCKET_BITS)
    Inputs        \* the possible lists of input sections

Buckets == 0 .. NumBuckets - 1
Main == NumBuckets     \* the caller of add_input_sections
Capacity == NumBuckets * Parallelism

\* stride 0: none.
Section == [data : Seq(Nat), is_string : BOOLEAN, stride : Nat]

-----------------------------------------------------------------------------
(* Splitting the input. *)

padded_len(sec) == ((Len(sec.data) + BlockSize - 1) \div BlockSize) * BlockSize

start_input_offset(secs, i) == MapThenSumSet(LAMBDA j : padded_len(secs[j]), 1 .. i - 1)

\* The inner loop of split_sections: a string section is cut after exactly
\* GroupSize bytes, any other is taken whole.
Fill(secs) ==
    LET f[i \in 1 .. Len(secs), offset \in Nat, remaining \in Nat] ==
            LET available == padded_len(secs[i]) - offset
            IN  IF available > remaining /\ secs[i].is_string
                THEN [last |-> i, offset |-> offset + remaining, ended |-> FALSE]
                ELSE IF remaining <= available \/ i = Len(secs)
                THEN [last |-> i, offset |-> offset + available, ended |-> TRUE]
                ELSE f[i + 1, 0, remaining - available]
    IN  f

split_sections(secs) ==
    LET from[i \in 1 .. Len(secs) + 1, offset \in Nat] ==
            IF i > Len(secs) THEN << >>
            ELSE LET e == Fill(secs)[i, offset, GroupSize]
                 IN  <<[first |-> i, last |-> e.last, start |-> start_input_offset(secs, i) + offset,
                        end |-> start_input_offset(secs, e.last) + e.offset]>>
                       \o (IF e.ended THEN from[e.last + 1, 0] ELSE from[e.last, e.offset])
    IN  from[1, 0]

\* Just after the first NUL at or after offset p of a section, or its length.
memchr(sec, p) == Min({q \in p + 1 .. Len(sec.data) : sec.data[q] = 0} \cup {Len(sec.data)})

\* (mutant) takes the end of a string for a string
SkipPartial_never(sec, p) == p

\* A range that starts part way through a string starts after it.
SkipPartial(sec, p) == IF p = 0 \/ sec.data[p] = 0 THEN p ELSE memchr(sec, p)

\* The offsets in section i at which process_input_section takes a string.
StringStarts(secs, i, group) ==
    LET sec == secs[i]
        base == start_input_offset(secs, i)
        first == IF group.start > base THEN SkipPartial(sec, group.start - base) ELSE 0
        taken == CASE sec.is_string -> {p \in first .. Len(sec.data) : p = first \/ sec.data[p] = 0}
                   [] ~sec.is_string /\ sec.stride > 0 ->
                        {p \in 0 .. Len(sec.data) : p % sec.stride = 0}
                   [] ~sec.is_string /\ sec.stride = 0 -> {0}
    IN  {p \in taken : /\ sec.is_string \/ sec.stride > 0 => /\ p < Len(sec.data)
                                                              /\ base + p < group.end}

take_string(sec, p) ==
    IF sec.is_string THEN SubSeq(sec.data, p + 1, memchr(sec, p))
    ELSE IF sec.stride > 0 THEN SubSeq(sec.data, p + 1, p + sec.stride) ELSE sec.data

\* All that a group contributes, in input order.
StringsOf(secs, group) ==
    LET all == UNION {{[at |-> start_input_offset(secs, i) + p, str |-> take_string(secs[i], p)] :
                           p \in StringStarts(secs, i, group)} : i \in group.first .. group.last}
    IN  SetToSortSeq(all, LAMBDA x, y : x.at < y.at)

\* take_string_hashed fails on a string that is not null-terminated.
Unterminated(secs, group) ==
    \E i \in group.first .. group.last : /\ secs[i].is_string
                                         /\ \E p \in StringStarts(secs, i, group) :
                                                secs[i].data[memchr(secs[i], p)] # 0

\* Shard::insert has no room: the string's offset is kept in a hash map.
Spilled(strings, at) ==
    Cardinality({k \in DOMAIN strings : /\ strings[k].at < at
                                        /\ strings[k].at \div BlockSize = at \div BlockSize}) >= BlockCap

Split(secs) ==
    LET groups == split_sections(secs)
    IN  [g \in 1 .. Len(groups) |-> [strings |-> StringsOf(secs, groups[g]),
                                     fails |-> Unterminated(secs, groups[g])]]

ASSUME MergeAssumption ==
    /\ NumBuckets \in Nat \ {0} /\ Parallelism \in Nat \ {0}
    /\ {BlockSize, BlockCap, GroupSize, OffsetLimit} \subseteq Nat \ {0} /\ GroupSize % BlockSize = 0
    /\ \A in \in Inputs : in \in Seq(Section) /\ Len(Split(in)) \in Nat \ {0}

-----------------------------------------------------------------------------
VARIABLES
    secs,         \* the input sections; never change
    groups,       \* the section groups, with what splitting them gives; never change
    unprocessed,  \* the queue of groups no task has taken
    spawned,      \* input tasks that were spawned and have not started
    gpc,          \* how far the input task of a group is
    handed,       \* how many buckets have been given their Vec of a group
    slot,         \* strings_by_bucket_and_group
    pc,           \* what the task of a bucket (or the caller) is doing
    seen,         \* the value of available it loaded
    next,         \* next_input_group_index
    out,          \* the Vecs that are not in the pool, by group and bucket
    available,    \* Vecs that have not been reserved
    merged,       \* the strings of each bucket
    shard,        \* the offset map: BucketOffsets by linear offset
    spill,        \* overflowed_offsets
    errors,       \* whether an error was pushed
    result        \* what add_input_sections returned

data == <<merged, shard, spill>>
vars == <<secs, groups, unprocessed, spawned, gpc, handed, slot, pc, seen, next, out,
          available, merged, shard, spill, errors, result>>

Groups == 1 .. Len(groups)
None == OffsetLimit * NumBuckets     \* no BucketOffset

\* create_split_resources
Init ==
    /\ secs \in Inputs
    /\ groups = Split(secs)
    /\ unprocessed = [g \in Groups |-> g]
    /\ spawned = 0
    /\ gpc = [g \in Groups |-> "queued"]
    /\ handed = [g \in Groups |-> 0]
    /\ slot = [g \in Groups |-> [b \in Buckets |-> IF g = 1 THEN "Waiting" ELSE "Empty"]]
    /\ pc = [x \in Buckets \cup {Main} |-> IF x = Main THEN "load" ELSE "parked"]
    /\ seen = [x \in Buckets \cup {Main} |-> 0]
    /\ next = [b \in Buckets |-> 1]
    /\ out = {}
    /\ available = Capacity
    /\ merged = [b \in Buckets |-> << >>]
    /\ shard = << >> /\ spill = << >>
    /\ errors = FALSE /\ result = "none"

-----------------------------------------------------------------------------
(* try_spawn_input_processing: reserve and spawn until a reservation fails. *)

\* The loop is left.  A bucket goes on with the next group.
LoopEnds(x) ==
    IF x = Main THEN pc' = [pc EXCEPT ![x] = "finished"] /\ UNCHANGED next
    ELSE /\ next' = [next EXCEPT ![x] = @ + 1]
         /\ pc' = [pc EXCEPT ![x] = IF next[x] = Len(groups) THEN "finished" ELSE "ready"]

\* (mutant) reserves when there is any Vec left
ReserveLoad_any(x) ==
    /\ pc[x] = "load"
    /\ seen' = [seen EXCEPT ![x] = available]
    /\ IF available = 0 THEN LoopEnds(x)
       ELSE pc' = [pc EXCEPT ![x] = "cas"] /\ UNCHANGED next
    /\ UNCHANGED <<secs, groups, unprocessed, spawned, gpc, handed, slot, out, available, data,
                   errors, result>>

ReserveLoad(x) ==
    /\ pc[x] = "load"
    /\ seen' = [seen EXCEPT ![x] = available]
    /\ IF available < NumBuckets THEN LoopEnds(x)
       ELSE pc' = [pc EXCEPT ![x] = "cas"] /\ UNCHANGED next
    /\ UNCHANGED <<secs, groups, unprocessed, spawned, gpc, handed, slot, out, available, data,
                   errors, result>>

\* A compare_exchange that fails ends the loop as well.
ReserveExchange(x) ==
    /\ pc[x] = "cas"
    /\ IF available = seen[x]
       THEN /\ available' = seen[x] - NumBuckets
            /\ spawned' = spawned + 1
            /\ pc' = [pc EXCEPT ![x] = "load"]
            /\ UNCHANGED next
       ELSE LoopEnds(x) /\ UNCHANGED <<available, spawned>>
    /\ UNCHANGED <<secs, groups, unprocessed, gpc, handed, slot, seen, out, data, errors, result>>

-----------------------------------------------------------------------------
(* Input tasks. *)

\* A task that finds no group gives its reservation back.
TaskUnreserves ==
    /\ spawned > 0 /\ unprocessed = << >>
    /\ spawned' = spawned - 1
    /\ available' = available + NumBuckets
    /\ UNCHANGED <<secs, groups, unprocessed, gpc, handed, slot, pc, seen, next, out, data,
                   errors, result>>

\* process_input_section_group up to finished_shards: takes a Vec per bucket
\* and splits the sections.  On an error the Vecs are dropped.
TaskSplits ==
    /\ spawned > 0 /\ unprocessed # << >>
    /\ LET g == Head(unprocessed) IN
        /\ out' = out \cup ({g} \X Buckets)
        /\ gpc' = [gpc EXCEPT ![g] = IF groups[g].fails THEN "failed" ELSE "handing"]
        /\ errors' = (errors \/ groups[g].fails)
        /\ shard' = LET inShard == {k \in DOMAIN groups[g].strings :
                                        ~Spilled(groups[g].strings, groups[g].strings[k].at)}
                    IN  shard @@ [at \in {groups[g].strings[k].at : k \in inShard} |-> 0]
    /\ unprocessed' = Tail(unprocessed)
    /\ spawned' = spawned - 1
    /\ UNCHANGED <<secs, groups, handed, slot, pc, seen, next, available, merged, spill, result>>

\* (mutant) forgets the bucket that waited in the slot
Wake_forgotten(g, b) == UNCHANGED pc

\* A bucket that was in the slot is spawned.
Wake(g, b) == pc' = IF slot[g][b] = "Waiting" THEN [pc EXCEPT ![b] = "ready"] ELSE pc

\* (mutant) does not advance
NextBucket_same(g) == UNCHANGED <<handed, gpc>>

NextBucket(g) ==
    /\ handed' = [handed EXCEPT ![g] = @ + 1]
    /\ gpc' = IF handed[g] + 1 = NumBuckets THEN [gpc EXCEPT ![g] = "done"] ELSE gpc

\* One round of the loop over swap_strings_slot.
HandOver(g) ==
    /\ gpc[g] = "handing"
    /\ slot' = [slot EXCEPT ![g][handed[g]] = "Strings"]
    /\ Wake(g, handed[g])
    /\ NextBucket(g)
    /\ UNCHANGED <<secs, groups, unprocessed, spawned, seen, next, out, available, data,
                   errors, result>>

-----------------------------------------------------------------------------
(* work_with_bucket. *)

\* Under the slot's mutex: take the strings, or wait for them in the slot.
LockSlot(b) ==
    /\ pc[b] = "ready"
    /\ LET strings == slot[next[b]][b] = "Strings" IN
        /\ slot' = [slot EXCEPT ![next[b]][b] = IF strings THEN "Empty" ELSE "Waiting"]
        /\ pc' = [pc EXCEPT ![b] = IF strings THEN "merge" ELSE "parked"]
    /\ UNCHANGED <<secs, groups, unprocessed, spawned, gpc, handed, seen, next, out, available,
                   data, errors, result>>

\* add_string: only a string that is not there yet is appended.
add_string(strings, s) == IF s \in ToSet(strings) THEN strings ELSE Append(strings, s)

TotalLen(strings) == FoldLeft(LAMBDA n, s : n + Len(s), 0, strings)

OffsetIn(strings, s) ==
    LET k == CHOOSE i \in DOMAIN strings : strings[i] = s
    IN  TotalLen(SubSeq(strings, 1, k - 1))

BucketStrings(g, b) == SelectSeq(groups[g].strings, LAMBDA x : Bucket(x.str) = b)

\* BucketOffset::new
TooLarge(offset) == offset >= OffsetLimit
BucketOffset(offset, b) == b * OffsetLimit + offset

ToMerge(b) == ToSet(BucketStrings(next[b], b))

\* process_split_output: the bucket's strings afterwards, and the offsets of
\* those of the Vec's strings whose linear offset is in P.
Processed(b) == FoldLeft(LAMBDA m, x : add_string(m, x.str), merged[b], BucketStrings(next[b], b))
Offsets(b, P) ==
    [p \in {x.at : x \in ToMerge(b)} \cap P |->
        BucketOffset(OffsetIn(Processed(b), (CHOOSE x \in ToMerge(b) : x.at = p).str), b)]

\* process_split_output, then return_strings_to_merge.
MergeStrings(b) ==
    /\ pc[b] = "merge"
    /\ IF \E x \in ToMerge(b) : TooLarge(OffsetIn(Processed(b), x.str))
       THEN /\ errors' = TRUE
            /\ pc' = [pc EXCEPT ![b] = "dropped"]
            /\ UNCHANGED <<out, available, data>>
       ELSE /\ merged' = [merged EXCEPT ![b] = Processed(b)]
            /\ shard' = Offsets(b, DOMAIN shard) @@ shard
            /\ spill' = Offsets(b, Nat \ DOMAIN shard) @@ spill
            /\ out' = out \ {<<next[b], b>>}
            /\ available' = available + 1
            /\ pc' = [pc EXCEPT ![b] = "load"]
            /\ UNCHANGED errors
    /\ UNCHANGED <<secs, groups, unprocessed, spawned, gpc, handed, slot, seen, next, result>>

-----------------------------------------------------------------------------
ScopeDone ==
    /\ spawned = 0 /\ \A g \in Groups : gpc[g] # "handing"
    /\ \A x \in Buckets \cup {Main} : pc[x] \in {"parked", "finished", "dropped"}

\* add_input_sections after the scope: it indexes all buckets and takes every
\* shard; merge_strings then asserts that the pool is full again.
Finish ==
    /\ result = "none" /\ ScopeDone
    /\ result' = IF errors THEN "Err"
                 ELSE IF /\ \A b \in Buckets : pc[b] = "finished"
                         /\ \A g \in Groups : gpc[g] = "done"
                         /\ available = Capacity
                 THEN "Ok" ELSE "panic"
    /\ UNCHANGED <<secs, groups, unprocessed, spawned, gpc, handed, slot, pc, seen, next, out,
                   available, data, errors>>

Returned == result # "none" /\ UNCHANGED vars

InputTask == TaskUnreserves \/ TaskSplits
Thread(x) == ReserveLoad(x) \/ ReserveExchange(x) \/ (x \in Buckets /\ (LockSlot(x) \/ MergeStrings(x)))

Next ==
    \/ \E x \in Buckets \cup {Main} : Thread(x)
    \/ InputTask
    \/ \E g \in Groups : HandOver(g)
    \/ Finish \/ Returned

Spec == Init /\ [][Next]_vars

\* A rayon scope runs every task that was spawned in it.
Fairness == /\ \A x \in Buckets \cup {Main} : WF_vars(Thread(x))
            /\ WF_vars(InputTask)
            /\ WF_vars(\E g \in Groups : HandOver(g))
            /\ WF_vars(Finish)

FairSpec == Spec /\ Fairness

-----------------------------------------------------------------------------
(* Using the result. *)

string_offsets == shard @@ spill

\* (mutant) forgets how far into the string the offset is
find_string_start(i, p) ==
    LET base == start_input_offset(secs, i)
    IN  string_offsets[base + Max({o \in 0 .. p : base + o \in DOMAIN string_offsets})]

\* find_string: the nearest string that starts at or before the offset.
find_string(i, p) ==
    LET base == start_input_offset(secs, i)
        q == Max({o \in 0 .. p : base + o \in DOMAIN string_offsets})
    IN  string_offsets[base + q] + (p - q)

bucket_offsets == [b \in Buckets |-> MapThenSumSet(LAMBDA c : TotalLen(merged[c]), 0 .. b - 1)]

\* get_merged_string_output_address, relative to the start of the section.
OutputAddress(i, p) ==
    LET o == find_string(i, p) IN bucket_offsets[o \div OffsetLimit] + (o % OffsetLimit)

\* The buckets are written one after the other.
OutputBytes == FlattenSeq([k \in 1 .. NumBuckets |-> FlattenSeq(merged[k - 1])])

-----------------------------------------------------------------------------
(* Properties. *)

\* The types of the control state.
TypeOK ==
    /\ secs \in Inputs /\ Len(groups) \in Nat \ {0}
    /\ unprocessed \in Seq(Groups)
    /\ spawned \in Nat /\ available \in Nat
    /\ gpc \in [Groups -> {"queued", "handing", "done", "failed"}]
    /\ handed \in [Groups -> 0 .. NumBuckets]
    /\ slot \in [Groups -> [Buckets -> {"Empty", "Waiting", "Strings"}]]
    /\ pc \in [Buckets \cup {Main} -> {"parked", "ready", "merge", "load", "cas", "finished", "dropped"}]
    /\ seen \in [Buckets \cup {Main} -> Nat]
    /\ next \in [Buckets -> 1 .. Len(groups) + 1]
    /\ out \subseteq Groups \X Buckets
    /\ errors \in BOOLEAN
    /\ result \in {"none", "Ok", "Err", "panic"}

\* The scope never ends early.  Although a reservation that loses a race is
\* not retried, and input tasks do not start others, without an error every
\* group is processed, every bucket finishes, and every Vec is back in the
\* pool (the assertion of merge_strings).
NothingStranded == result # "panic"

\* All strings of the input, cut only where the sections say.
AllStrings == StringsOf(secs, [first |-> 1, last |-> Len(secs), start |-> 0,
                               end |-> start_input_offset(secs, Len(secs) + 1)])
ExpectedStrings(b) ==
    FoldLeft(LAMBDA m, x : add_string(m, x.str), << >>,
             SelectSeq(AllStrings, LAMBDA x : Bucket(x.str) = b))

\* Any byte of a merged section, at the start of a string or inside it, is
\* found in the output, whichever map its offset ended in.
ReferencesResolve ==
    result = "Ok" => \A i \in DOMAIN secs : \A p \in 0 .. Len(secs[i].data) - 1 :
                        OutputBytes[OutputAddress(i, p) + 1] = secs[i].data[p + 1]

MustFail ==
    \/ \E i \in DOMAIN secs : /\ secs[i].is_string /\ secs[i].data # << >>
                              /\ Last(secs[i].data) # 0
    \/ \E b \in Buckets : \E s \in ToSet(ExpectedStrings(b)) :
           OffsetIn(ExpectedStrings(b), s) >= OffsetLimit

\* The output depends neither on the schedule nor on how the input was cut
\* into groups: each bucket holds its strings once, in input order.  Whether
\* merging fails does not depend on them either, although after one error
\* groups may be left unprocessed.
OutputIsDeterministic ==
    /\ result # "none" => (result = "Err" <=> MustFail)
    /\ result = "Ok" => \A b \in Buckets : merged[b] = ExpectedStrings(b)

\* Every group is processed, whoever wins the races for the pool.
EveryGroupProcessed == <>(errors \/ \A g \in Groups : gpc[g] = "done")
=============================================================================
