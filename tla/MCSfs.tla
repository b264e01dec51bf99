-------------------------------- MODULE MCSfs --------------------------------
(***************************************************************************)
(* Models of modules SfsTree and SfsFile for TLC.  One of six instances is  *)
(* chosen at the beginning.  The modules share freemap and din; the         *)
(* variables that only the other one has stay at 0.                         *)
(***************************************************************************)
EXTENDS Integers, TLC

CONSTANTS p1, p2, p3, p4, p5, p6, root, i1, i2, i3, name1, name2, NoIno, NoName

VARIABLES part, freemap, din, sin, lock, proc,
          data, rest, disk, dirty, desc, written, dropped, panic

tree == <<sin, lock, proc>>
file == <<data, rest, disk, dirty, desc, written, dropped, panic>>

\* One file that is opened twice, and two files with one descriptor on a smaller disk.
\* A file has one direct block and blocks of two cells, so that a few bytes need an
\* indirect and a doubly indirect block.
OneFile == INSTANCE SfsFile WITH Fd <- {1, 2}, File <- {1}, NBlocks <- 8, MaxRest <- 1,
             SFS_NDIRECT <- 1, SFS_BLKSIZE <- 2, SFS_MAX_FILE_SIZE <- 8, Lens <- {3}, Seeks <- {0, 7}
TwoFiles == INSTANCE SfsFile WITH Fd <- {1}, File <- {1, 2}, NBlocks <- 7, MaxRest <- 0,
              SFS_NDIRECT <- 1, SFS_BLKSIZE <- 2, SFS_MAX_FILE_SIZE <- 8, Lens <- {3}, Seeks <- {0}

\* Two processes that do everything, in two directories with one name each, and in one
\* with two names.
TwoDirs == INSTANCE SfsTree WITH Proc <- {p1, p2}, Reader <- {}, Asker <- {p1, p2},
             Ino <- {root, i1, i2}, Root <- root, Name <- {name1}, Common <- {name1},
             LosesName <- FALSE, FromRemoved <- FALSE
TwoNames == INSTANCE SfsTree WITH Proc <- {p1, p2}, Reader <- {}, Asker <- {p1, p2},
              Ino <- {root, i3}, Root <- root, Name <- {name1, name2}, Common <- {name1, name2},
              LosesName <- FALSE, FromRemoved <- FALSE

\* One that changes a name and two that look it up.
OneName == INSTANCE SfsTree WITH Proc <- {p3, p4, p5}, Reader <- {p4, p5}, Asker <- {},
             Ino <- {root, i1, i2}, Root <- root, Name <- {name1}, Common <- {name1},
             LosesName <- FALSE, FromRemoved <- FALSE

\* A process that runs out of memory half-way through a rename, and one that looks up.
LostName == INSTANCE SfsTree WITH Proc <- {p3, p6}, Reader <- {p6}, Asker <- {p3},
              Ino <- {root, i1, i2}, Root <- root, Name <- {name1, name2}, Common <- {name1},
              LosesName <- TRUE, FromRemoved <- FALSE

NoTree == sin = 0 /\ lock = 0 /\ proc = 0
NoFiles == /\ data = 0 /\ rest = 0 /\ disk = 0 /\ dirty = 0
           /\ desc = 0 /\ written = 0 /\ dropped = 0 /\ panic = 0

Init ==
  \/ part = "two directories" /\ TwoDirs!Init /\ NoFiles
  \/ part = "two names" /\ TwoNames!Init /\ NoFiles
  \/ part = "one name" /\ OneName!Init /\ NoFiles
  \/ part = "lost name" /\ LostName!Init /\ NoFiles
  \/ part = "one file" /\ OneFile!Init /\ NoTree
  \/ part = "two files" /\ TwoFiles!Init /\ NoTree

Next ==
  \/ part = "two directories" /\ TwoDirs!Next /\ UNCHANGED <<part, file>>
  \/ part = "two names" /\ TwoNames!Next /\ UNCHANGED <<part, file>>
  \/ part = "one name" /\ OneName!Next /\ UNCHANGED <<part, file>>
  \/ part = "lost name" /\ LostName!Next /\ UNCHANGED <<part, file>>
  \/ part = "one file" /\ OneFile!Next /\ UNCHANGED <<part, tree>>
  \/ part = "two files" /\ TwoFiles!Next /\ UNCHANGED <<part, tree>>

Spec == Init /\ [][Next]_<<part, freemap, din, tree, file>>

MCSymmetry == Permutations({p1, p2}) \cup Permutations({i1, i2})
-----------------------------------------------------------------------------
\* SfsTree: ref_count and reclaim_count of each inode are exact.
RefsExact ==
  /\ part = "two directories" => TwoDirs!RefsExact
  /\ part = "two names" => TwoNames!RefsExact
  /\ part = "one name" => OneName!RefsExact
  /\ part = "lost name" => LostName!RefsExact

\* SfsTree: nlinks is the number of names of each inode.
LinksExact ==
  /\ part = "two directories" => TwoDirs!LinksExact
  /\ part = "two names" => TwoNames!LinksExact
  /\ part = "one name" => OneName!LinksExact
  /\ part = "lost name" => LostName!LinksExact

\* SfsTree: a name that was found can be loaded.
FoundIsLoadable ==
  /\ part = "two directories" => TwoDirs!FoundIsLoadable
  /\ part = "two names" => TwoNames!FoundIsLoadable
  /\ part = "one name" => OneName!FoundIsLoadable
  /\ part = "lost name" => LostName!FoundIsLoadable

\* SfsTree: processes wait for each other in a circle only if a directory was moved into
\* itself or below.
NoCircularWait ==
  /\ part = "two directories" => TwoDirs!NoCircularWait
  /\ part = "two names" => TwoNames!NoCircularWait
  /\ part = "one name" => OneName!NoCircularWait
  /\ part = "lost name" => LostName!NoCircularWait

\* SfsFile: no block is given out twice, and none is lost.
BlocksOwned ==
  /\ part = "one file" => OneFile!BlocksOwned
  /\ part = "two files" => TwoFiles!BlocksOwned

\* SfsFile: a file holds the bytes written to it last, or zero.
FileContents ==
  /\ part = "one file" => OneFile!FileContents
  /\ part = "two files" => TwoFiles!FileContents
=============================================================================
