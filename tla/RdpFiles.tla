------------------------------- MODULE RdpFiles -------------------------------
(***************************************************************************)
(* The file lists of the RDP clipboard: how the paths the host offers are  *)
(* walked into a list for the server while the disk may change, how their  *)
(* contents are read afterwards, and how a list of the server is checked   *)
(* and laid out below a staging directory.  A path is the sequence of its  *)
(* components, a name is one wire unit long, and Lower folds its case.     *)
(***************************************************************************)
EXTENDS Naturals, FiniteSets, Sequences, SequencesExt

CONSTANTS Names, Invalid,     \* names, numbered in the order they sort, and those validate_component refuses
          Lower,              \* Lower[n]: the name in lower case
          MaxEntries, MaxDepth, MaxSingle, MaxTotal, MaxWire,   \* limits of path.rs
          MaxChunk,           \* MAX_LOCAL_RESPONSE_CHUNK_BYTES
          FileSizes,          \* sizes of files on either side
          Trees,              \* disks the host may start from
          Offers,             \* lists of top-level names the host may offer
          MaxChanges,         \* changes of the disk
          MaxList             \* descriptors in a list of the server

\* What the constants are.
FilesAssumption ==
  /\ Names \subseteq Nat /\ Invalid \subseteq Names /\ FileSizes \subseteq Nat /\ MaxChunk \in Nat \ {0}
  /\ \A n \in Names : Lower[n] \in Names

VARIABLES disk,      \* disk[p]: what is at path p (external)
          phase,     \* "idle", "collecting", "announced" or "rejected"
          roots,     \* top-level paths still to walk
          pending,   \* stack of the walk
          entries,   \* entries collected
          total,     \* bytes collected
          changes,   \* changes of the disk so far
          read,      \* bytes of the entries the server has, a sequence of counts
          wire       \* the list a server offers

vars == <<disk, phase, roots, pending, entries, total, changes, read, wire>>
walk == <<roots, pending, entries, total>>
-----------------------------------------------------------------------------
(* Paths *)

ValidateComponents(p) == Len(p) \in 1..MaxDepth /\ \A i \in DOMAIN p : p[i] \notin Invalid
WireLength(p) == 2 * Len(p) - 1
FromLocalComponents(p) == ValidateComponents(p) /\ WireLength(p) <= MaxWire

NormalizedKey(p) == [i \in DOMAIN p |-> Lower[p[i]]]
ParentKey(p) == Front(NormalizedKey(p))

ValidateTopLevelPaths(names) ==
  /\ \A i \in DOMAIN names : names[i] \notin Invalid
  /\ \A i, j \in DOMAIN names : i # j => Lower[names[i]] # Lower[names[j]]
-----------------------------------------------------------------------------
(* The layout of a list: a descriptor is a path, a kind and perhaps a size *)

Empty == [ok |-> TRUE, hierarchy |-> {}, total |-> 0, directories |-> <<>>, files |-> <<>>, tops |-> <<>>]

ValidateParent(path, hierarchy) == Len(path) = 1 \/ [key |-> ParentKey(path), dir |-> TRUE] \in hierarchy

AccountAdvertisedSize(size, sum) == size = <<>> \/ (size[1] <= MaxSingle /\ sum + size[1] <= MaxTotal)

AddToLayout(layout, d, index) ==
  IF d.kind = "dir" THEN [layout EXCEPT !.directories = Append(@, d.path)]
  ELSE IF ~AccountAdvertisedSize(d.size, layout.total) THEN [layout EXCEPT !.ok = FALSE]
  ELSE [layout EXCEPT !.total = IF d.size = <<>> THEN @ ELSE @ + d.size[1],
                      !.files = Append(@, [index |-> index, path |-> d.path, size |-> d.size])]

ValidateDescriptor(layout, d, index) ==
  IF \/ ~layout.ok \/ ~FromLocalComponents(d.path) \/ d.kind = "link"
     \/ ~ValidateParent(d.path, layout.hierarchy)
     \/ \E h \in layout.hierarchy : h.key = NormalizedKey(d.path)
  THEN [layout EXCEPT !.ok = FALSE]
  ELSE LET key == [key |-> NormalizedKey(d.path), dir |-> d.kind = "dir"]
           new == \A i \in DOMAIN layout.tops : Lower[layout.tops[i]] # Lower[d.path[1]]
       IN AddToLayout([layout EXCEPT !.hierarchy = @ \cup {key},
                                     !.tops = IF new THEN Append(@, d.path[1]) ELSE @], d, index)

Validate(list) ==
  IF list = <<>> \/ Len(list) > MaxEntries THEN [Empty EXCEPT !.ok = FALSE]
  ELSE FoldLeftDomain(LAMBDA layout, i : ValidateDescriptor(layout, list[i], i), Empty, list)

\* create_directories, then create_output_file for one file after the other, on
\* a disk that does not tell cases apart: each has its parent and is new.
CreateDirectories(paths) ==
  \A i \in DOMAIN paths :
    LET there == {NormalizedKey(paths[j]) : j \in 1..(i - 1)} IN
    (Len(paths[i]) = 1 \/ ParentKey(paths[i]) \in there) /\ NormalizedKey(paths[i]) \notin there
-----------------------------------------------------------------------------
(* The walk *)

Nothing == [kind |-> "none", size |-> 0]
\* What symlink_metadata sees: nothing below a path that is not a directory.
Node(p) == IF /\ p \in DOMAIN disk
              /\ \A n \in 1..(Len(p) - 1) : disk[SubSeq(p, 1, n)].kind = "dir"
           THEN disk[p] ELSE Nothing

Children(p) == SetToSortSeq({n \in Names : Append(p, n) \in DOMAIN disk /\ Node(Append(p, n)) # Nothing},
                            <)

AccountFile(node) == node.kind = "dir" \/ (node.size <= MaxSingle /\ total + node.size <= MaxTotal)

BuildEntry(p) == [path |-> p, kind |-> Node(p).kind, size |-> IF Node(p).kind = "dir" THEN <<>> ELSE <<Node(p).size>>]

\* The children of a directory, the last on top; FALSE if one may not be walked.
PushChildren(p) ==
  [ok |-> \A i \in DOMAIN Children(p) :
            Node(Append(p, Children(p)[i])).kind # "link" /\ FromLocalComponents(Append(p, Children(p)[i])),
   more |-> Reverse([i \in DOMAIN Children(p) |-> Append(p, Children(p)[i])])]

Init == /\ disk \in Trees /\ phase = "idle" /\ roots = <<>> /\ pending = <<>> /\ entries = <<>>
        /\ total = 0 /\ changes = 0 /\ read = <<>> /\ wire = <<>>

Reject == phase' = "rejected" /\ UNCHANGED <<walk, read>>

\* collect: the offer is checked and its first path is next.
Collect ==
  /\ phase = "idle"
  /\ \E names \in Offers :
       IF names = <<>> \/ ~ValidateTopLevelPaths(names) THEN Reject /\ UNCHANGED roots
       ELSE /\ phase' = "collecting" /\ roots' = [i \in DOMAIN names |-> <<names[i]>>]
            /\ UNCHANGED <<pending, entries, total, read>>
  /\ UNCHANGED <<disk, changes, wire>>

\* collect_entries: the next root, or the list is whole and is announced.
CollectEntries ==
  /\ phase = "collecting" /\ pending = <<>>
  /\ IF roots = <<>>
     THEN /\ phase' = "announced" /\ read' = [i \in DOMAIN entries |-> 0]
          /\ UNCHANGED <<roots, pending, entries, total>>
     ELSE IF Node(Head(roots)).kind \in {"none", "link"} \/ ~FromLocalComponents(Head(roots)) THEN Reject
     ELSE /\ pending' = <<Head(roots)>> /\ roots' = Tail(roots)
          /\ UNCHANGED <<phase, entries, total, read>>
  /\ UNCHANGED <<disk, changes, wire>>

\* Mutant: a directory's children are walked before it is listed.
CollectTreeChildrenFirst ==
  /\ phase = "collecting" /\ pending # <<>>
  /\ LET p == Last(pending) IN
     IF Len(entries) >= MaxEntries \/ Node(p).kind \notin {"file", "dir"} \/ ~AccountFile(Node(p)) THEN Reject
     ELSE /\ entries' = <<BuildEntry(p)>> \o entries
          /\ total' = IF Node(p).kind = "dir" THEN total ELSE total + Node(p).size
          /\ pending' = Front(pending) \o IF Node(p).kind = "dir" THEN PushChildren(p).more ELSE <<>>
          /\ UNCHANGED <<phase, roots, read>>
  /\ UNCHANGED <<disk, changes, wire>>

\* collect_tree: one turn of its loop.
CollectTree ==
  /\ phase = "collecting" /\ pending # <<>>
  /\ LET p == Last(pending)
         push == IF Node(p).kind = "dir" THEN PushChildren(p) ELSE [ok |-> TRUE, more |-> <<>>]
     IN IF Len(entries) >= MaxEntries \/ Node(p).kind \notin {"file", "dir"} \/ ~AccountFile(Node(p)) \/ ~push.ok
        THEN Reject
        ELSE /\ entries' = Append(entries, BuildEntry(p))
             /\ total' = IF Node(p).kind = "dir" THEN total ELSE total + Node(p).size
             /\ pending' = Front(pending) \o push.more
             /\ UNCHANGED <<phase, roots, read>>
  /\ UNCHANGED <<disk, changes, wire>>

\* External: another program replaces, removes or adds something.
DiskChanges ==
  /\ changes < MaxChanges /\ changes' = changes + 1
  /\ \E p \in DOMAIN disk, n \in {Nothing, [kind |-> "dir", size |-> 0], [kind |-> "link", size |-> 0]}
                                 \cup [kind : {"file"}, size : FileSizes] :
       n # disk[p] /\ disk' = [disk EXCEPT ![p] = n]
  /\ UNCHANGED <<phase, walk, read, wire>>

\* open_verified: still the file that was listed, as far as its size tells.
OpenVerified(e) == Node(e.path).kind = "file" /\ <<Node(e.path).size>> = e.size

Least(S) == CHOOSE x \in S : \A y \in S : x <= y
Amount(e, position, requested) == Least({requested, MaxChunk, e.size[1] - position})

\* range_response: how many bytes the answer holds, or <<>> for an error; between
\* the check and the read the file may shrink to "there" bytes.
RangeResponse(e, position, requested, there) ==
  IF position <= e.size[1] /\ OpenVerified(e) /\ position + Amount(e, position, requested) <= there
  THEN <<Amount(e, position, requested)>> ELSE <<>>

\* read: the server reads on where it is; a directory or an error moves nothing.
Read ==
  /\ phase = "announced"
  /\ \E i \in DOMAIN entries, requested \in 1..(MaxChunk + 1), there \in FileSizes \cup {0} :
       /\ entries[i].kind = "file"
       /\ LET answer == RangeResponse(entries[i], read[i], requested, there) IN
          /\ answer # <<>>
          /\ read' = [read EXCEPT ![i] = @ + answer[1]]
          /\ read[i] < entries[i].size[1]
  /\ UNCHANGED <<disk, phase, walk, changes, wire>>

LocalNext == Collect \/ CollectEntries \/ CollectTree \/ DiskChanges \/ Read
LocalSpec == Init /\ [][LocalNext]_vars
-----------------------------------------------------------------------------
(* Lists of a server, grown by one descriptor at a time *)

Paths == UNION {[1..n -> Names] : n \in 1..(MaxDepth + 1)}
Descriptors == [path : Paths, kind : {"dir", "link"}, size : {<<>>}]
                 \cup [path : Paths, kind : {"file"}, size : {<<>>} \cup {<<s>> : s \in FileSizes}]

RemoteNext ==
  /\ Len(wire) < MaxList /\ (wire # <<>> => Validate(wire).ok)   \* one fault ends a list
  /\ \E d \in Descriptors : wire' = Append(wire, d)
  /\ UNCHANGED <<disk, phase, walk, changes, read>>

RemoteSpec == Init /\ [][RemoteNext]_vars
-----------------------------------------------------------------------------
Listed == {entries[i].path : i \in DOMAIN entries}
Below(names) == {p \in DOMAIN disk : Node(p) # Nothing /\ p[1] \in names}
CaseClash(paths) == \E p, q \in paths : p # q /\ NormalizedKey(p) = NormalizedKey(q)

\* Types, and the limits that hold of a walk at every moment.
TypeOK == /\ phase \in {"idle", "collecting", "announced", "rejected"}
          /\ Len(entries) <= MaxEntries /\ total <= MaxTotal
          /\ \A i \in DOMAIN entries : entries[i].kind \in {"file", "dir"} /\ FromLocalComponents(entries[i].path)
          /\ phase = "announced" => DOMAIN read = DOMAIN entries

\* A list that is announced is one this same program would accept from a server:
\* parents first, no path twice, within the limits, although the disk changed
\* under the walk.  Only names that differ in case alone are not looked for.
AnnouncedIsAcceptable ==
  phase = "announced" => (CaseClash(Listed) \/ Validate(entries).ok)

\* On a disk that holds still everything below the offered paths is listed, once.
AnnouncedIsComplete ==
  (phase = "announced" /\ changes = 0) =>
    /\ Listed = Below({entries[i].path[1] : i \in DOMAIN entries})
    /\ Cardinality(Listed) = Len(entries)

\* The server, reading on from where it is, gets on with every answer that is not
\* an error and never beyond the size it was told, whatever happens to the file.
ContentsFit ==
  phase = "announced" =>
    \A i \in DOMAIN entries, requested \in 1..(MaxChunk + 1), there \in FileSizes \cup {0} :
      (entries[i].kind = "file" /\ read[i] < entries[i].size[1]) =>
        LET a == RangeResponse(entries[i], read[i], requested, there) IN
        a # <<>> => a[1] \in 1..(entries[i].size[1] - read[i])

\* A list of the server that is accepted can be laid out: in the order the program
\* makes them every directory and every file has its parent and is new, each file
\* is asked for by the place it has in the list, and all lies below a path that is
\* handed to the host.
LayoutIsSound ==
  LET l == Validate(wire) IN
  l.ok => /\ CreateDirectories(l.directories \o [i \in DOMAIN l.files |-> l.files[i].path])
          /\ \A i \in DOMAIN l.files : wire[l.files[i].index].path = l.files[i].path
          /\ \A i \in DOMAIN wire : \E t \in DOMAIN l.tops : Lower[l.tops[t]] = Lower[wire[i].path[1]]

\* The lists of either side: what is announced is acceptable, complete and read as
\* announced, and what is accepted can be laid out.
ListsAreSound == TypeOK /\ AnnouncedIsAcceptable /\ AnnouncedIsComplete /\ ContentsFit /\ LayoutIsSound
=============================================================================
