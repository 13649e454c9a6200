------------------------------ MODULE MCDiscover ------------------------------
(***************************************************************************)
(* Roots for TLC: every archive of up to three items out of a few, and     *)
(* pairs of entries of each kind.                                          *)
(***************************************************************************)
EXTENDS Discover

SomeItem(type, path) == [type |-> type, path |-> path, data |-> "ok"]

SomeItems ==
    {SomeItem("dir", <<>>), SomeItem("file", <<>>), SomeItem("dir", <<"d">>), SomeItem("file", <<"d">>),
     SomeItem("file", <<"d", "package.json">>), SomeItem("file", <<"d", "index.js">>),
     SomeItem("file", <<"package.json">>), SomeItem("dir", <<"package.json">>),
     [SomeItem("file", <<"package.json">>) EXCEPT !.data = "bad"],
     SomeItem("special", <<"index.js">>), SomeItem("file", <<"index.js">>),
     SomeItem("corrupt", <<"index.js">>)}

SomeArchives ==
    [kind : {"zip", "tar"}, opens : {TRUE},
     items : UNION {[1 .. n -> SomeItems] : n \in 0 .. 3}]

AtTop == <<SomeItem("file", <<"index.js">>), SomeItem("file", <<"package.json">>)>>
Nested == <<SomeItem("dir", <<"d">>), SomeItem("file", <<"d", "index.js">>),
            SomeItem("file", <<"d", "package.json">>)>>
Crowded == Append(Nested, SomeItem("file", <<"index.js">>))

SomeEntries ==
    [kind : {"dir", "zip", "tar", "other"}, opens : {TRUE}, items : {AtTop, Nested, Crowded}]
        \union [kind : {"zip", "tar"}, opens : {FALSE}, items : {AtTop}]

SomeRoots ==
    {<<a>> : a \in SomeArchives} \union [1 .. 2 -> SomeEntries]

=============================================================================
