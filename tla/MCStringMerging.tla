-------------------------- MODULE MCStringMerging --------------------------
(* Small inputs for StringMerging.                                          *)
EXTENDS StringMerging

\* The hash of a string: its first byte.
FirstByte(s) == Head(s) % NumBuckets

Strings(d) == [data |-> d, is_string |-> TRUE, stride |-> 0]
Literals(d, n) == [data |-> d, is_string |-> FALSE, stride |-> n]

\* Strings that end at, before and after the end of a group, duplicates in
\* several groups, a string longer than a group, empty strings, literal pools
\* and sections that are not split, an unterminated string, a full bucket.
MCInputs == {
    <<Strings(<<1, 0, 1, 0, 2, 0>>)>>,
    <<Strings(<<1, 2, 1, 2, 2, 0, 1, 0>>)>>,
    <<Strings(<<0, 0, 0, 0>>), Strings(<<2, 0>>)>>,
    <<Strings(<<1, 0, 2>>), Strings(<<1, 0, 2, 0>>)>>,
    <<Strings(<<1, 0>>), Strings(<<1, 0>>), Strings(<<2, 1>>)>>,
    <<Literals(<<1, 2, 1, 2, 2, 1>>, 2), Strings(<<2, 1, 0>>)>>,
    <<Literals(<<1, 1, 1, 1, 1>>, 0), Strings(<<1, 0>>), Literals(<<1, 1, 1, 1, 1>>, 0)>>,
    <<Strings(<<1, 1, 1, 0, 1, 1, 0, 1>>), Strings(<<1, 0>>)>>,
    <<Strings(<<1, 1, 1, 1, 1, 1, 1, 0, 1, 0>>)>> }
=============================================================================
