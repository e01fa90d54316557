-------------------------------- MODULE MCRdp --------------------------------
(***************************************************************************)
(* The parts of the RDP helper, for TLC: the clipboard (downloads of files;*)
(* texts, locks and local files), the lists of files of either side, the   *)
(* way of the picture to the host and the way of input to the server.      *)
(* They share no state; a behaviour is one of the part it begins with, and *)
(* the others stay at their first state.                                   *)
(***************************************************************************)
EXTENDS RdpClipboard, RdpOutput

VARIABLES part,
          disk, phase, roots, stack, entries, total, changes, read, wire,
          database, move, busy, queue, server, faults, user, closed

FilesThenFiles == <<"files", "files">>
TwoSizes == <<<<2, 0>>, <<1>>>>

\* Two copies of files; a text and then files, with locks: on two
\* local clipboards, and on one that the server also asks for.
TextAndFiles == <<"text", "files">>
Transfers == INSTANCE RdpClipboard WITH Locks <- {}, LocalSets <- 0
Texts == INSTANCE RdpClipboard WITH Copies <- TextAndFiles, MaxReconnects <- 0
Formats == INSTANCE RdpClipboard WITH Copies <- TextAndFiles, LocalSets <- 1, MaxLists <- 1

\* Names 1 and 2 are one name in two cases, 9 is reserved.
FileNames == {1, 2, 3, 9}
FoldCase == [n \in FileNames |-> IF n = 2 THEN 1 ELSE n]
File(n) == [kind |-> "file", size |-> n]
Dir == [kind |-> "dir", size |-> 0]
Link == [kind |-> "link", size |-> 0]
Absent == [kind |-> "none", size |-> 0]
Places == {<<1>>, <<3>>, <<1, 1>>, <<1, 2>>, <<1, 3>>, <<1, 1, 3>>, <<1, 9>>}
SmallTrees ==
  {t \in [Places -> {Absent, Dir, Link, File(1), File(2)}] :
     /\ t[<<1>>] = Dir /\ t[<<3>>] \notin {Dir, Link}
     /\ t[<<1, 2>>] \in {Absent, File(1)} /\ t[<<1, 9>>] \in {Absent, File(1)}
     /\ t[<<1, 3>>] \in {Absent, File(2), Link} /\ t[<<1, 1, 3>>] \notin {Dir, Link} /\ t[<<1, 1>>] # Link
     /\ t[<<1, 1>>] # Dir => t[<<1, 1, 3>>] = Absent}

\* The host's files: every small tree, and one change of the disk.
Local == INSTANCE RdpFiles WITH
  Names <- FileNames, Invalid <- {9}, Lower <- FoldCase, MaxSingle <- 2, MaxWire <- 5, MaxChunk <- 1,
  FileSizes <- {0, 1, 2, 3}, MaxEntries <- 4, MaxDepth <- 3, MaxTotal <- 4,
  Trees <- SmallTrees, Offers <- {<<>>, <<1>>, <<3, 1>>, <<1, 2>>}, MaxChanges <- 1, MaxList <- 0,
  pending <- stack

\* The server's lists, of at most four descriptors.
Remote == INSTANCE RdpFiles WITH
  Names <- FileNames, Invalid <- {9}, Lower <- FoldCase, MaxSingle <- 2, MaxWire <- 5, MaxChunk <- 1,
  FileSizes <- {1, 3}, MaxEntries <- 4, MaxDepth <- 2, MaxTotal <- 2,
  Trees <- {[p \in {<<1>>} |-> Absent]}, Offers <- {}, MaxChanges <- 0, MaxList <- 4,
  pending <- stack

Input == INSTANCE RdpInput WITH
  Positions <- {1, 2}, Buttons <- {"left"}, Keys <- {"a"}, Capacity <- 2, MaxRequests <- 6,
  pending <- move, host <- user

ASSUME PartsAssumption ==
  /\ Transfers!ClipboardAssumption /\ Texts!ClipboardAssumption /\ Formats!ClipboardAssumption
  /\ Local!FilesAssumption /\ Remote!FilesAssumption /\ Input!InputAssumption

filesVars == <<disk, phase, roots, stack, entries, total, changes, read, wire>>
inputVars == <<database, move, busy, queue, server, faults, user, closed>>
allVars == <<part, vars, filesVars, outVars, inputVars>>

InClipboard == UNCHANGED <<part, filesVars, outVars, inputVars>>
InFiles == UNCHANGED <<part, vars, outVars, inputVars>>

AllInit == /\ part \in {"transfers", "texts", "formats", "local", "remote", "output", "input"}
           /\ Init /\ OutInit /\ Input!Init
           /\ IF part = "local" THEN Local!Init ELSE Remote!Init

AllNext == \/ part = "transfers" /\ Transfers!Next /\ InClipboard
           \/ part = "texts" /\ Texts!Next /\ InClipboard
           \/ part = "formats" /\ Formats!Next /\ InClipboard
           \/ part = "local" /\ Local!LocalNext /\ InFiles
           \/ part = "remote" /\ Remote!RemoteNext /\ InFiles
           \/ part = "output" /\ OutNext /\ UNCHANGED <<part, vars, filesVars, inputVars>>
           \/ part = "input" /\ Input!Next /\ UNCHANGED <<part, vars, filesVars, outVars>>

AllSpec == AllInit /\ [][AllNext]_allVars
-----------------------------------------------------------------------------
\* What the host's walk announces is acceptable to the other side, complete and
\* read as announced; what is accepted of a server can be laid out.
ListsAreSound == CASE part = "local" -> Local!ListsAreSound [] part = "remote" -> Remote!ListsAreSound
                   [] OTHER -> TRUE

\* The input database is what the server was sent, a click lands where the pointer
\* was and a move is of the desktop of its time.
InputIsFaithful == part = "input" => Input!InputIsFaithful
=============================================================================
