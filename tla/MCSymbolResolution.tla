------------------------ MODULE MCSymbolResolution ------------------------
(***************************************************************************)
(* Small links for SymbolResolution, one family per configuration.          *)
(***************************************************************************)
EXTENDS SymbolResolution, TLC

Obj(optional) == [kind |-> "object", optional |-> optional]
Dyn(optional) == [kind |-> "dynamic", optional |-> optional]
Pre == [kind |-> "prelude", optional |-> FALSE]
Script == [kind |-> "script", optional |-> FALSE]

S(f, n, k) == [file |-> f, name |-> n, version |-> NoVersion, default |-> TRUE, kind |-> k,
               size |-> 1, vis |-> "Default", comdat |-> FALSE, malformed |-> FALSE]
Versioned(s, v) == [s EXCEPT !.version = v]
Hidden(s) == [s EXCEPT !.vis = "Hidden"]

OneBucket == [k \in Key |-> 1]
ByVersion == [k \in Key |-> IF k[2] = NoVersion THEN 1 ELSE 2]

-----------------------------------------------------------------------------
(* Archives: main.o (2), the archive members 3, 4 and 5, an as-needed shared *)
(* object 6 and a linker script 7.                                           *)

ArchiveLinks ==
    {[files |-> <<Pre, Obj(FALSE), Obj(TRUE), Obj(TRUE), Obj(TRUE), Dyn(TRUE), Script>>,
      syms |-> <<S(1, "u", "force"),
                 S(2, "main", "Strong"), S(2, "f", rf), S(2, "w", rw),
                 S(3, "f", df), S(3, "g", "undefined"),
                 S(4, "g", "Strong"), S(4, "w", "Strong"), S(4, "f", "Strong"),
                 S(5, "u", "Strong"), [S(5, "f", "weakref") EXCEPT !.malformed = bad],
                 S(6, "g", "Strong"), S(6, "w", "undefined"),
                 S(7, "main", "internal")>>,
      entry |-> "main", startStop |-> {}, output |-> "dynamic", allowMultiple |-> multiple] :
        rf \in {"undefined", "weakref"}, rw \in {"undefined", "weakref"},
        df \in {"Strong", "Weak"}, bad \in BOOLEAN, multiple \in BOOLEAN}
-----------------------------------------------------------------------------
(* Definitions of f in the objects 2 and 3, in the archive member 4 and in   *)
(* the shared object 5, and references to it and to the undefined x, y and   *)
(* __start_s.                                                                *)

Kinds == {"Strong", "Weak", "Common"}
DefinitionLinks ==
    {[files |-> <<Pre, Obj(FALSE), Obj(FALSE), Obj(TRUE), Dyn(FALSE)>>,
      syms |-> <<S(1, "f", IF grouped THEN "force" ELSE "internal"),
                 S(2, "main", "Strong"), S(2, "f", k2), [S(2, "x", "weakref") EXCEPT !.vis = v],
                 S(2, "start", "undefined"),
                 [S(3, "f", k3) EXCEPT !.size = 2, !.comdat = grouped, !.vis = v],
                 S(3, "x", "undefined"), S(3, "start", "weakref"),
                 S(3, "y", IF k3 = "Weak" THEN "weakref" ELSE "undefined"),
                 [S(4, "f", "Strong") EXCEPT !.comdat = TRUE, !.version = "V1", !.default = grouped],
                 S(4, "y", "Strong"),
                 Versioned(S(5, "f", "Strong"), "V1"),
                 [Versioned(S(5, "x", "weakref"), "V1") EXCEPT !.default = FALSE]>>,
      entry |-> "main", startStop |-> {"start"}, allowMultiple |-> FALSE,
      output |-> IF v = "Default" THEN "dynamic" ELSE "shared"] :
        k2 \in Kinds \cup {"undefined"}, k3 \in Kinds, v \in Visibility, grouped \in BOOLEAN}

AllLinks == ArchiveLinks \cup DefinitionLinks

-----------------------------------------------------------------------------
(* The links of the four findings. *)

One(files, syms) == {[files |-> files, syms |-> syms, entry |-> "main", startStop |-> {},
                      output |-> "shared", allowMultiple |-> FALSE]}

\* Two shared objects with f@@V1 come before an object that defines f.
VersionedTwiceLinks ==
    One(<<Pre, Obj(FALSE), Dyn(FALSE), Dyn(FALSE), Obj(FALSE)>>,
        <<S(2, "main", "Strong"), S(2, "f", "undefined"), Versioned(S(3, "f", "Strong"), "V1"),
          Versioned(S(4, "f", "Strong"), "V1"), S(5, "f", "Weak")>>)

\* An archive member that nothing loads comes before an object that defines f.
UnloadedFirstLinks ==
    One(<<Pre, Obj(FALSE), Obj(TRUE), Obj(FALSE)>>,
        <<S(2, "main", "Strong"), S(2, "f", "weakref"), S(3, "f", "Strong"), S(4, "f", "Strong")>>)

\* A hidden reference to f, and a strong definition after a weak one.
HiddenReferenceLinks ==
    One(<<Pre, Obj(FALSE), Obj(FALSE), Obj(FALSE)>>,
        <<S(2, "main", "Strong"), Hidden(S(2, "f", "undefined")), S(3, "f", "Weak"),
          S(4, "f", "Strong")>>)

\* A shared object with more undefined symbols than fit in a work item.
LargeDynamicLinks ==
    One(<<Pre, Obj(FALSE), Dyn(FALSE)>>,
        <<S(2, "main", "Strong"), Versioned(S(3, "f", "undefined"), "V1"), S(3, "g", "undefined"),
          Versioned(S(3, "h", "undefined"), "V2")>>)
=============================================================================
