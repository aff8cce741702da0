-------------------------- MODULE MCSectionLayout --------------------------
(* Links for SectionLayout, in the order OutputOrder gives their sections.   *)
EXTENDS SectionLayout, TLC

O == INSTANCE OutputOrder

MCAlignments == <<4, 1>>

Plain == [alloc |-> TRUE, write |-> FALSE, exec |-> FALSE, nobits |-> FALSE, tls |-> FALSE,
          relro |-> FALSE, null |-> FALSE, regular |-> TRUE, packed |-> FALSE, forced |-> FALSE,
          align |-> 1, location |-> NoLocation, primary |-> NoPrimary, priority |-> 0]
Data == [Plain EXCEPT !.write = TRUE]
Exec == [Plain EXCEPT !.exec = TRUE]
NonAlloc == [Plain EXCEPT !.alloc = FALSE]

BuiltIn ==
    [header |-> [Plain EXCEPT !.null = TRUE, !.regular = FALSE, !.forced = TRUE],
     phdr |-> [Plain EXCEPT !.null = TRUE, !.regular = FALSE, !.forced = TRUE, !.align = 2],
     shdr |-> [Plain EXCEPT !.null = TRUE, !.regular = FALSE, !.forced = TRUE],
     rodata |-> Plain,
     text |-> Exec,
     init |-> [Exec EXCEPT !.packed = TRUE],
     tdata |-> [Data EXCEPT !.tls = TRUE, !.relro = TRUE],
     tbss |-> [Data EXCEPT !.tls = TRUE, !.nobits = TRUE, !.relro = TRUE],
     init_array |-> [Data EXCEPT !.relro = TRUE],
     got |-> [Data EXCEPT !.relro = TRUE, !.regular = FALSE, !.align = 4],
     relro_padding |-> [Data EXCEPT !.relro = TRUE, !.nobits = TRUE, !.forced = TRUE,
                                    !.regular = FALSE],
     data |-> Data,
     bss |-> [Data EXCEPT !.nobits = TRUE],
     comment |-> NonAlloc]
BuiltInIds == <<"header", "phdr", "shdr", "rodata", "text", "init", "tdata", "tbss", "init_array", "got",
                "relro_padding", "data", "bss", "comment">>

In(s, j, n) == [sec |-> s, k |-> j, size |-> n]
Plainly == [base |-> 0, page |-> 8, partial |-> FALSE, pads |-> FALSE, relax |-> FALSE, relro |-> TRUE,
            must_keep |-> {}]

\* customs: the sections that are not built in, as <<name, info>> in id order
LinkOf(options, customs, groups) ==
    LET names == [j \in DOMAIN customs |-> customs[j][1]]
        infos == BuiltIn @@ [s \in {names[j] : j \in DOMAIN names} |->
                                customs[CHOOSE j \in DOMAIN names : names[j] = s][2]]
        order == O!OutputOrderOf(BuiltInIds \o names, infos, DOMAIN BuiltIn, options.partial)
    IN  [infos |-> infos, order |-> order.events, segments |-> order.segments,
         groups |-> groups, base |-> options.base, page |-> options.page,
         partial |-> options.partial, pads |-> options.pads, relax |-> options.relax,
         relro |-> options.relro, must_keep |-> options.must_keep]

Small == << <<In("text", 2, 3), In("data", 2, 1)>>,
            <<In("text", 2, 2), In("rodata", 1, 3)>> >>
Tls == << <<In("text", 1, 5), In("tdata", 2, 1), In("tbss", 1, 3), In("got", 1, 4)>>,
          <<In("tdata", 2, 1), In("data", 1, 5), In("data", 2, 1), In("bss", 1, 6), In("bss", 2, 1),
            In("comment", 2, 5)>> >>

MCLinks ==
    { \* alignments mixed in a section; TLS, RELRO and zero-initialised data
      LinkOf(Plainly, << >>, Tls),
      LinkOf([Plainly EXCEPT !.base = 64, !.page = 2, !.relro = FALSE], << >>, Tls),
      LinkOf([Plainly EXCEPT !.pads = TRUE, !.page = 4], << >>, Tls),
      LinkOf([Plainly EXCEPT !.partial = TRUE], << >>, Tls),
      \* custom sections of every list
      LinkOf(Plainly,
             << <<"ro", Plain>>, <<"ex", Exec>>,
                <<"bs", [Data EXCEPT !.nobits = TRUE, !.align = 16]>>,
                <<"da", Data>>, <<"na", NonAlloc>>,
                <<"td", [Data EXCEPT !.tls = TRUE]>>,
                <<"tb", [Data EXCEPT !.tls = TRUE, !.nobits = TRUE]>> >>,
             << <<In("ro", 2, 3), In("ex", 1, 2), In("bs", 2, 5), In("td", 2, 3)>>,
                <<In("da", 2, 3), In("na", 1, 3), In("bss", 2, 3), In("data", 2, 1),
                  In("tb", 1, 2)>> >>),
      \* addresses set by a linker script
      LinkOf(Plainly,
             << <<"da", [Data EXCEPT !.location = 100]>>, <<"ro", [Plain EXCEPT !.location = 52]>> >>,
             << <<In("ro", 2, 3), In("data", 2, 1)>>, <<In("da", 1, 3), In("bss", 1, 3)>> >>),
      LinkOf([Plainly EXCEPT !.page = 2],
             << <<"ro", [Plain EXCEPT !.location = 50]>>, <<"aligned", Plain>> >>,
             << <<In("ro", 2, 1)>>, <<In("aligned", 1, 4), In("data", 2, 1)>> >>),
      \* writable and executable: in no segment
      LinkOf(Plainly, << <<"wx", [Exec EXCEPT !.write = TRUE]>> >>,
             << <<In("wx", 1, 3)>>, <<In("text", 1, 1)>> >>),
      \* secondary sections by priority, and a section kept though it is empty
      LinkOf([Plainly EXCEPT !.must_keep = {"data", "keep"}],
             << <<"i2", [Data EXCEPT !.relro = TRUE, !.primary = "init_array", !.priority = 2]>>,
                <<"i1", [Data EXCEPT !.relro = TRUE, !.primary = "init_array", !.priority = 1]>>,
                <<"keep", Data>> >>,
             << <<In("i2", 1, 4), In("init_array", 1, 4), In("init", 2, 3)>>,
                <<In("i1", 1, 4), In("i2", 1, 4), In("init", 2, 1)>> >>),
      \* relaxation, with a section that forces the alignment of its segment
      LinkOf([Plainly EXCEPT !.relax = TRUE], << <<"ex", [Exec EXCEPT !.align = 16]>> >>,
             << <<In("text", 1, 5), In("ex", 2, 3)>>,
                <<In("text", 1, 4), In("data", 1, 4)>> >>),
      LinkOf([Plainly EXCEPT !.relax = TRUE, !.base = 32, !.page = 16], << >>, Small) }
=============================================================================
