------------------------------- MODULE Discover -------------------------------
(***************************************************************************)
(* How automation bundles are found: Discover and Load (internal/          *)
(* automation/bundle/bundle.go), unpackTar and unpackZip (unpack.go).      *)
(*                                                                         *)
(* A path is a sequence of names, a file tree a function on the paths it   *)
(* has: a directory is "dir", a file "ok" or - a package.json that cannot  *)
(* be parsed - "bad".  An archive is the sequence of its items; "special"  *)
(* ones are links, devices and the like, "corrupt" ones cannot be read.    *)
(***************************************************************************)
EXTENDS Integers, Sequences, SequencesExt

CONSTANTS
    Names,   \* names of files and directories
    Roots    \* what the root directory may hold: sequences of entries

Paths == Seq(Names)

Items ==
    [type : {"dir", "file", "special", "corrupt"}, path : Paths, data : {"ok", "bad"}]

(* A directory with its files, an archive (a .tar may be in a .gz), which  *)
(* may fail to open, or anything else.                                     *)
Entries == [kind : {"dir", "zip", "tar", "other"}, opens : BOOLEAN, items : Seq(Items)]

(* Every item can be read, no path is both a file and a directory, and the *)
(* root is a directory.                                                    *)
Consistent(items) ==
    \A i, j \in DOMAIN items :
        /\ items[i].type # "corrupt"
        /\ items[i].type # "dir" =>
              /\ items[i].path # <<>>
              /\ items[i].path \in Prefixes(items[j].path) =>
                    items[j].path = items[i].path /\ items[j].type # "dir"

(* What is on the disk as a directory is a file tree.                      *)
ASSUME DiscoverAssumption ==
    /\ {"package.json", "index.js"} \subseteq Names
    /\ Roots \subseteq Seq(Entries)
    /\ \A r \in Roots : \A i \in DOMAIN r : r[i].kind = "dir" => Consistent(r[i].items)

VARIABLES
    root,      \* what os.ReadDir(root) returned
    next,      \* the entry Discover works on
    step,      \* what it does with it
    item,      \* the item of its archive that is unpacked next
    tree,      \* the files of its bundle, as far as they are unpacked
    at,        \* the directory Load looks at
    temps,     \* the entries whose temporary directory exists
    result     \* the entries that are bundles, and the directory of each

vars == <<root, next, step, item, tree, at, temps, result>>

Entry == root[next]

(* Every variable has its type.                                            *)
TypeOK ==
    /\ root \in Roots
    /\ next \in 1 .. Len(root) + 1
    /\ step \in {"entry", "unpack", "load"}
    /\ item \in Nat
    /\ DOMAIN tree \subseteq Paths /\ \A p \in DOMAIN tree : tree[p] \in {"dir", "ok", "bad"}
    /\ at \in Paths
    /\ temps \subseteq 1 .. Len(root)
    /\ result \in Seq((1 .. Len(root)) \X Paths)

-----------------------------------------------------------------------------
(* File trees.                                                             *)

Empty == [p \in {<<>>} |-> "dir"]

Parent(p) == IF p = <<>> THEN p ELSE Front(p)

IsDir(t, p) == p \in DOMAIN t /\ t[p] = "dir"
IsFile(t, p) == p \in DOMAIN t /\ t[p] # "dir"
Children(t, p) == {q \in DOMAIN t : q # <<>> /\ Parent(q) = p}

Put(t, p, v) == [q \in DOMAIN t \union {p} |-> IF q = p THEN v ELSE t[q]]

MkdirAll(t, p) ==
    [q \in DOMAIN t \union Prefixes(p) |-> IF q \in DOMAIN t THEN t[q] ELSE "dir"]
CanMkdirAll(t, p) == \A q \in Prefixes(p) : ~IsFile(t, q)

(* os.Create, in writeFile.                                                *)
CanCreate(t, p) == IsDir(t, Parent(p)) /\ ~IsDir(t, p)

(* The files that items describe: each with the data of its last item.     *)
Described(items) ==
    [p \in {<<>>} \union UNION {Prefixes(items[i].path) : i \in DOMAIN items} |->
        LET files == {i \in DOMAIN items : items[i].path = p /\ items[i].type # "dir"}
        IN  IF files = {} THEN "dir"
            ELSE items[Max(files)].data]

-----------------------------------------------------------------------------
Init ==
    /\ root \in Roots
    /\ next = 1 /\ step = "entry"
    /\ item = 1 /\ tree = Empty /\ at = <<>>
    /\ temps = {} /\ result = <<>>

(* Slip: after `continue` the loop steps over an entry.                    *)
NextEntryButOne == next' = next + 2 /\ step' = "entry" /\ tree' = Empty

(* `continue`, and the next round of the loop.                             *)
NextEntry == next' = next + 1 /\ step' = "entry" /\ tree' = Empty

Working(s) == next <= Len(root) /\ step = s

(* Not a bundle's name, or an archive that does not open: by then there is *)
(* no temporary directory, or (zip.NewReader) none any more.               *)
Skip ==
    /\ Working("entry")
    /\ Entry.kind = "other" \/ (Entry.kind # "dir" /\ ~Entry.opens)
    /\ NextEntry
    /\ UNCHANGED <<root, item, at, temps, result>>

OpenDir ==
    /\ Working("entry")
    /\ Entry.kind = "dir"
    /\ step' = "load" /\ tree' = Described(Entry.items) /\ at' = <<>>
    /\ UNCHANGED <<root, next, item, temps, result>>

OpenArchive ==
    /\ Working("entry")
    /\ Entry.kind \in {"zip", "tar"} /\ Entry.opens
    /\ step' = "unpack" /\ item' = 1
    /\ temps' = temps \union {next}
    /\ UNCHANGED <<root, next, tree, at, result>>

-----------------------------------------------------------------------------
(* unpackTar and unpackZip.                                                *)

Item == Entry.items[item]

(* Can the item be unpacked?  A tar makes the directories it lists, each   *)
(* once; a zip whatever directories its items need.                        *)
CanWrite(x) ==
    /\ x.type # "corrupt"
    /\ Entry.kind = "tar" =>
          /\ x.type # "special"
          /\ x.type = "dir" => IsDir(tree, Parent(x.path)) /\ x.path \notin DOMAIN tree
          /\ x.type # "dir" => CanCreate(tree, x.path)
    /\ Entry.kind = "zip" =>
          /\ x.type = "dir" => CanMkdirAll(tree, x.path)
          /\ x.type # "dir" =>
                CanMkdirAll(tree, Parent(x.path)) /\ CanCreate(MkdirAll(tree, Parent(x.path)), x.path)

(* Slip: a file that is there already is left as it is.                    *)
WrittenOnce(x) ==
    IF x.type = "dir" THEN MkdirAll(tree, x.path)
    ELSE IF x.path \in DOMAIN tree THEN tree
    ELSE Put(MkdirAll(tree, Parent(x.path)), x.path, x.data)

Written(x) ==
    IF x.type = "dir" THEN MkdirAll(tree, x.path)
    ELSE Put(MkdirAll(tree, Parent(x.path)), x.path, x.data)

UnpackItem ==
    /\ Working("unpack") /\ item <= Len(Entry.items)
    /\ CanWrite(Item)
    /\ tree' = Written(Item)
    /\ item' = item + 1
    /\ UNCHANGED <<root, next, step, at, temps, result>>

(* Slip: the temporary directory is left behind.                           *)
UnpackErrorLeft ==
    /\ Working("unpack") /\ item <= Len(Entry.items)
    /\ ~CanWrite(Item)
    /\ NextEntry
    /\ UNCHANGED <<root, item, at, temps, result>>

(* Everything that has been unpacked is removed.                           *)
UnpackError ==
    /\ Working("unpack") /\ item <= Len(Entry.items)
    /\ ~CanWrite(Item)
    /\ temps' = temps \ {next}
    /\ NextEntry
    /\ UNCHANGED <<root, item, at, result>>

Unpacked ==
    /\ Working("unpack") /\ item > Len(Entry.items)
    /\ step' = "load" /\ at' = <<>>
    /\ UNCHANGED <<root, next, item, tree, temps, result>>

-----------------------------------------------------------------------------
(* Load.                                                                   *)

Package == Append(at, "package.json")

(* Slip: the directory may hold files beside the one directory.            *)
LoadDownAny ==
    /\ Working("load") /\ Package \notin DOMAIN tree
    /\ \E child \in Children(tree, at) : IsDir(tree, child) /\ at' = child
    /\ UNCHANGED <<root, next, step, item, tree, temps, result>>

(* No package.json, but a single directory: Load calls itself.             *)
LoadDown ==
    /\ Working("load") /\ Package \notin DOMAIN tree
    /\ \E child \in Children(tree, at) :
          Children(tree, at) = {child} /\ IsDir(tree, child) /\ at' = child
    /\ UNCHANGED <<root, next, step, item, tree, temps, result>>

(* package.json can be parsed and the entry point - the one it names, or   *)
(* index.js - is a file.                                                   *)
IsBundle(t, p) ==
    /\ IsFile(t, Append(p, "package.json")) /\ t[Append(p, "package.json")] = "ok"
    /\ IsFile(t, Append(p, "index.js"))

LoadBundle ==
    /\ Working("load") /\ IsBundle(tree, at)
    /\ result' = Append(result, <<next, at>>)
    /\ NextEntry
    /\ UNCHANGED <<root, item, at, temps>>

LoadError ==
    /\ Working("load")
    /\ IF Package \in DOMAIN tree THEN ~IsBundle(tree, at)
       ELSE ~ \E child \in Children(tree, at) : Children(tree, at) = {child} /\ IsDir(tree, child)
    /\ NextEntry
    /\ UNCHANGED <<root, item, at, temps, result>>

Next ==
    \/ Skip \/ OpenDir \/ OpenArchive
    \/ UnpackItem \/ UnpackError \/ Unpacked
    \/ LoadDown \/ LoadBundle \/ LoadError

Spec == Init /\ [][Next]_vars

-----------------------------------------------------------------------------
(* What Discover is to find, without saying how.                           *)

(* Directories come before what is in them, and once.                      *)
Ordered(items) ==
    \A i \in DOMAIN items :
        LET before == {items[j].path : j \in {j \in 1 .. i - 1 : items[j].type = "dir"}}
        IN  /\ items[i].type # "special"
            /\ Parent(items[i].path) \in before \union {<<>>}
            /\ items[i].type = "dir" => items[i].path \notin before \union {<<>>}

Unpackable(e) ==
    /\ e.opens
    /\ Consistent(e.items)
    /\ e.kind = "tar" => Ordered(e.items)

(* The directories on the way to the bundle hold nothing but the next.     *)
BundleAt(t, p) ==
    /\ IsBundle(t, p)
    /\ \A q \in Prefixes(p) \ {p} :
          Append(q, "package.json") \notin DOMAIN t /\ \E c \in DOMAIN t : Children(t, q) = {c}

Holds(e, p) ==
    /\ e.kind = "dir" \/ (e.kind \in {"zip", "tar"} /\ Unpackable(e))
    /\ p \in DOMAIN Described(e.items)
    /\ BundleAt(Described(e.items), p)

(* unpack.go:50-85 and 117-147: an archive that has been unpacked left     *)
(* exactly the files its items describe, with the data of the last item of *)
(* each, whichever of the two formats it has.                              *)
UnpackedExactly ==
    step = "load" => tree = Described(Entry.items)

(* bundle.go:75-135 and 138-199: Discover finds the bundles in the entries *)
(* that hold one, in the order of the entries and whatever is wrong with   *)
(* the others.                                                             *)
BundlesFound ==
    next > Len(root) =>
        /\ \A k \in DOMAIN result : Holds(root[result[k][1]], result[k][2])
        /\ \A i \in DOMAIN root : \A p \in DOMAIN Described(root[i].items) :
              Holds(root[i], p) => \E k \in DOMAIN result : result[k] = <<i, p>>
        /\ \A k, l \in DOMAIN result : k < l => result[k][1] < result[l][1]

(* unpack.go:80-83 and 138-144, "in case of an error, remove everything we *)
(* already unpacked": of the entries that have been dealt with, those have *)
(* a temporary directory whose archive could be unpacked as a whole.       *)
NothingLeft ==
    \A i \in DOMAIN root :
        i < next \/ (step = "load" /\ i = next) =>
            (i \in temps <=> root[i].kind \in {"zip", "tar"} /\ Unpackable(root[i]))

=============================================================================
