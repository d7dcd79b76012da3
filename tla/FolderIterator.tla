--------------------------- MODULE FolderIterator ---------------------------
(***************************************************************************)
(* FolderIterator.h: the files below a folder, with a queue of the folders *)
(* still to be read and one open search (FindFirstFile, FindNextFile),     *)
(* while other processes create, move and delete what is being read.       *)
(*                                                                         *)
(* The iterator knows folders by their path; a search that is open follows *)
(* its folder wherever that is moved.                                      *)
(***************************************************************************)
EXTENDS Naturals, Sequences, FiniteSets, SequencesExt

CONSTANTS
  Base,        \* the folder that is iterated through
  Folders,     \* other folders
  Files,
  Gone,        \* the parent of what does not exist
  Dot,         \* "." and "..", which every search returns
  MaxChanges   \* bound: changes by other processes

Entries == Folders \cup Files

\* What has different names is different.
ASSUME FolderAssumption ==
  /\ MaxChanges \in Nat
  /\ Folders \cap Files = {} /\ Base # Gone
  /\ {Base, Gone, Dot} \cap Entries = {}

VARIABLES
  parent,    \* the folder of each entry, or Gone
  queue,     \* queue: paths of folders
  folder,    \* folder: the path being read
  hff,       \* hff: the folder of the open search and what it returned
  fd,        \* fd: the entry the search returned last
  valid,     \* valid
  at,        \* "ready" (for the caller), "outer" or "inner" (in getNext),
             \* "over": the iterator is deleted
  returned,  \* history: paths that next() returned
  moved,     \* history: entries whose path changed
  changes

fsVars == <<parent, moved, changes>>
folderVars == <<parent, queue, folder, hff, fd, valid, at, returned, moved, changes>>

NoSearch == [of |-> Gone, seen |-> {}]

(* What is below d: the least set that holds all that is in d or in itself.*)
Under(d) ==
  {e \in Entries : \A S \in SUBSET Entries :
     (\A c \in Entries : parent[c] \in S \cup {d} => c \in S) => e \in S}

(* The path s, from Base to an entry below it, leads there now.            *)
IsPath(s) ==
  /\ s # <<>> /\ s[1] = Base
  /\ \A i \in 2..Len(s) : s[i] \in Entries /\ parent[s[i]] = s[i - 1]

(* Any folders and files below Base; getNext() is called by the            *)
(* constructor.                                                            *)
FolderInit ==
  /\ parent \in [Entries -> Folders \cup {Base, Gone}]
  /\ \A e \in Entries : parent[e] # Gone => e \in Under(Base)
  /\ queue = << <<Base>> >>
  /\ folder = <<>> /\ hff = NoSearch /\ fd = Dot /\ valid = FALSE
  /\ at = "outer"
  /\ returned = <<>>
  /\ moved = {} /\ changes = 0

---------------------------------------------------------------------------
(* Another process creates, moves or deletes an entry and what is in it.   *)
Change(e, d) ==
  /\ changes < MaxChanges
  /\ at # "over"
  /\ d # parent[e] /\ d \notin Under(e) \cup {e}
  /\ d \in Folders => parent[d] # Gone
  /\ parent' = [c \in Entries |->
       IF c = e THEN d ELSE IF d = Gone /\ c \in Under(e) THEN Gone ELSE parent[c]]
  /\ moved' = moved \cup Under(e) \cup {e}
  /\ changes' = changes + 1
  /\ UNCHANGED <<queue, folder, hff, fd, valid, at, returned>>

(* FindFirstFile and FindNextFile return what the folder has and they have *)
(* not returned yet, in any order.                                         *)
Left(h) ==
  ({Dot} \cup {e \in Entries : parent[e] = h.of}) \ h.seen

(* The next folder of the queue, if it is still where it was.              *)
FindFirst ==
  /\ at = "outer" /\ hff = NoSearch /\ queue # <<>>
  /\ folder' = Head(queue)
  /\ queue' = Tail(queue)
  /\ IF IsPath(folder')
     THEN \E e \in Left([of |-> Last(folder'), seen |-> {}]) :
            /\ hff' = [of |-> Last(folder'), seen |-> {e}]
            /\ fd' = e
            /\ valid' = TRUE
            /\ at' = "inner"
     ELSE valid' = FALSE /\ UNCHANGED <<hff, fd, at>>
  /\ UNCHANGED <<fsVars, returned>>

(* The queue is empty: getNext() returns false.                            *)
NoMore ==
  /\ at = "outer" /\ hff = NoSearch /\ queue = <<>>
  /\ valid' = FALSE
  /\ at' = "ready"
  /\ UNCHANGED <<fsVars, queue, folder, hff, fd, returned>>

IsFile == valid /\ fd \in Files

(* Mutant: the last entry of a folder is lost if it is a folder.           *)
FindNext_LastFolder ==
  /\ at = "inner" /\ ~IsFile
  /\ IF Left(hff) = {}
     THEN /\ valid' = FALSE /\ hff' = NoSearch /\ at' = "outer"
          /\ UNCHANGED <<fd, queue>>
     ELSE \E e \in Left(hff) :
            /\ hff' = [hff EXCEPT !.seen = @ \cup {e}]
            /\ fd' = e /\ valid' = TRUE /\ UNCHANGED at
            /\ queue' = IF valid /\ fd # Dot THEN Append(queue, Append(folder, fd))
                        ELSE queue
  /\ UNCHANGED <<fsVars, folder, returned>>

(* A folder goes to the end of the queue; the search goes on until it      *)
(* finds a file or ends, and is closed.                                    *)
FindNext ==
  /\ at = "inner" /\ ~IsFile
  /\ queue' = IF valid /\ fd # Dot THEN Append(queue, Append(folder, fd))
              ELSE queue
  /\ IF Left(hff) = {}
     THEN valid' = FALSE /\ hff' = NoSearch /\ at' = "outer" /\ UNCHANGED fd
     ELSE \E e \in Left(hff) :
            /\ hff' = [hff EXCEPT !.seen = @ \cup {e}]
            /\ fd' = e /\ valid' = TRUE /\ UNCHANGED at
  /\ UNCHANGED <<fsVars, folder, returned>>

Found ==
  /\ at = "inner" /\ IsFile
  /\ at' = "ready"
  /\ UNCHANGED <<fsVars, queue, folder, hff, fd, valid, returned>>

(* next() returns the name of the file and goes on to the one after it:    *)
(* the search is open still, so getNext() continues behind FindFirstFile.  *)
GetFile ==
  /\ at = "ready" /\ valid
  /\ returned' = Append(returned, Append(folder, fd))
  /\ valid' = FALSE
  /\ at' = "inner"
  /\ UNCHANGED <<fsVars, queue, folder, hff, fd>>

(* The destructor closes a search that is open.                            *)
DeleteIterator ==
  /\ at = "ready"
  /\ hff' = NoSearch
  /\ at' = "over"
  /\ UNCHANGED <<fsVars, queue, folder, fd, valid, returned>>

GetNext == FindFirst \/ NoMore \/ FindNext \/ Found

FolderNext ==
  \/ \E e \in Entries, d \in Folders \cup {Base, Gone} : Change(e, d)
  \/ GetNext \/ GetFile \/ DeleteIterator

(* The caller's loop goes on to the end; the constructor and next() do     *)
(* not return before getNext() does.                                       *)
FolderSpec ==
  FolderInit /\ [][FolderNext]_folderVars /\ WF_folderVars(GetNext) /\ WF_folderVars(GetFile)

---------------------------------------------------------------------------
FolderIteratorTypeOK ==
  /\ queue \in Seq(Seq(Folders \cup {Base}))
  /\ folder \in Seq(Folders \cup {Base})
  /\ hff.of \in Folders \cup {Base, Gone} /\ hff.seen \subseteq Entries \cup {Dot}
  /\ fd \in Entries \cup {Dot}
  /\ valid \in BOOLEAN
  /\ at \in {"ready", "outer", "inner", "over"}

Times(f) ==
  Cardinality({i \in DOMAIN returned : IsPath(returned[i]) /\ Last(returned[i]) = f})
AtEnd == at = "ready" /\ ~valid

(* Whatever happens to other files and folders meanwhile: a file that      *)
(* stays where it was is returned once, and only once.                     *)
StableFilesOnce ==
  \A f \in Files \ moved :
    /\ Times(f) <= 1
    /\ AtEnd /\ parent[f] # Gone => Times(f) = 1

(* As long as changes are finite so is the iteration.                      *)
IterationEnds == <>(AtEnd \/ at = "over")
===============================================================================
