------------------------------ MODULE SkinFiles ------------------------------
(***************************************************************************)
(* The files of a skin: unpack() writes the pictures of the skin into a    *)
(* directory of PNG files, where a designer edits them; pack() collects    *)
(* them in skin.png and removes them; load() chooses between skin.xml with *)
(* skin.png and the resources of the program.                              *)
(*                                                                         *)
(* A picture is the number of its edits.  A rectangle means something only *)
(* in the picture it was laid out for, so it is kept as the number of that *)
(* layout.  A check() that fails ends the process, like a crash.           *)
(***************************************************************************)
EXTENDS Integers

CONSTANTS
  Pictures,  \* the names of the pictures
  Designs    \* the circumstances a behaviour may meet

(* Whether the program's version is the one its resource skin states,      *)
(* where the process may die, and bounds: how often the skin is packed, a  *)
(* picture is edited, and the process dies.                                *)
ASSUME SkinAssumption ==
  Designs \subseteq [sameVersion : BOOLEAN, crashIn : SUBSET {"idle", "pack", "unpack"},
                    maxPacks : Nat, maxEdits : Nat, maxCrashes : Nat]

VARIABLES
  design,  \* the circumstances of this behaviour
  hasDir,  \* the directory of the skin exists
  dir,     \* its PNG files: name to picture
  png,     \* skin.png: [layout, pics], or NoFile
  xml,     \* skin.xml: [images, same], or NoFile
  skin,    \* the skin in memory: [images, same]; same: its version is the
           \* version of the resource skin
  ui,      \* the picture in memory that rectangles refer to: [layout, pics]
  pc,      \* what pack() or unpack() does next, or "idle"
  todo,    \* the pictures the loop has still to handle
  drawn,   \* what pack() has drawn into the new picture
  packs,   \* the number of the latest layout
  latest,  \* history: each picture as it was edited last
  crashes

files == <<hasDir, dir, png, xml>>
memory == <<skin, ui>>
work == <<pc, todo, drawn>>
skinBounds == <<design, packs, latest, crashes>>
skinVars == <<files, memory, work, skinBounds>>

NoFile == [layout |-> -1]
FileRef == -1   \* an image's entry: a file; otherwise the layout of its rect
Missing == -1   \* no picture, or not the one that was asked for

Original == [n \in Pictures |-> 0]
Resource == [images |-> Original, same |-> TRUE]
ResourceUi == [layout |-> 0, pics |-> Original]

(* A picture is added to a directory, or to what has been drawn.           *)
Put(d, n, p) == [m \in DOMAIN d \cup {n} |-> IF m = n THEN p ELSE d[m]]

(* Skin::getImage(): what an entry shows, with the skin s and picture u.   *)
Shows(s, u, d, n) ==
  IF s.images[n] = FileRef
  THEN IF n \in DOMAIN d THEN d[n] ELSE Missing
  ELSE IF s.images[n] = u.layout /\ n \in DOMAIN u.pics THEN u.pics[n]
  ELSE Missing

SkinInit ==
  /\ design \in Designs
  /\ hasDir = FALSE /\ dir = <<>>
  /\ png = NoFile /\ xml = NoFile
  /\ skin = Resource /\ ui = ResourceUi
  /\ pc = "idle" /\ todo = {} /\ drawn = <<>>
  /\ packs = 0
  /\ latest = Original
  /\ crashes = 0

(* load(): "if versions are the same favor file based skin".               *)
Load ==
  IF xml # NoFile /\ png # NoFile /\ xml.same
  THEN skin' = xml /\ ui' = png
  ELSE skin' = Resource /\ ui' = ResourceUi

(* "commandHelpReloadSkin"                                                 *)
Reload ==
  /\ pc = "idle"
  /\ Load
  /\ UNCHANGED <<files, work, skinBounds>>

---------------------------------------------------------------------------
(* unpack()                                                                *)

(* Mutant: skin.png is deleted before the pictures are written.            *)
UnpackStart_DeletesFirst ==
  /\ pc = "idle"
  /\ ~hasDir
  /\ hasDir' = TRUE
  /\ todo' = {n \in Pictures : skin.images[n] # FileRef}
  /\ pc' = "unpack pictures"
  /\ png' = NoFile
  /\ UNCHANGED <<dir, xml, memory, drawn, skinBounds>>

UnpackStart ==
  /\ pc = "idle"
  /\ ~hasDir
  /\ hasDir' = TRUE
  /\ todo' = {n \in Pictures : skin.images[n] # FileRef}
  /\ pc' = "unpack pictures"
  /\ UNCHANGED <<dir, png, xml, memory, drawn, skinBounds>>

UnpackPicture ==
  /\ pc = "unpack pictures"
  /\ \E n \in todo :
       /\ dir' = Put(dir, n, Shows(skin, ui, dir, n))
       /\ todo' = todo \ {n}
  /\ UNCHANGED <<hasDir, png, xml, memory, pc, drawn, skinBounds>>

UnpackXml ==
  /\ pc = "unpack pictures"
  /\ todo = {}
  /\ skin' = [skin EXCEPT !.images = [n \in Pictures |-> FileRef]]
  /\ xml' = skin'
  /\ pc' = "unpack delete"
  /\ UNCHANGED <<hasDir, dir, png, ui, todo, drawn, skinBounds>>

UnpackDelete ==
  /\ pc = "unpack delete"
  /\ png' = NoFile
  /\ pc' = "unpack load"
  /\ UNCHANGED <<hasDir, dir, xml, memory, todo, drawn, skinBounds>>

UnpackLoad ==
  /\ pc = "unpack load"
  /\ Load
  /\ pc' = "idle"
  /\ UNCHANGED <<files, todo, drawn, skinBounds>>

---------------------------------------------------------------------------
(* pack()                                                                  *)

PackStart ==
  /\ pc = "idle"
  /\ hasDir
  /\ packs < design.maxPacks
  /\ packs' = packs + 1
  /\ skin' = [skin EXCEPT !.same = design.sameVersion]
  /\ todo' = DOMAIN dir
  /\ drawn' = <<>>
  /\ pc' = "pack pictures"
  /\ UNCHANGED <<files, ui, design, latest, crashes>>

(* A file is drawn and deleted at once; its entry becomes a rectangle.     *)
PackPicture ==
  /\ pc = "pack pictures"
  /\ \E n \in todo :
       /\ drawn' = Put(drawn, n, dir[n])
       /\ skin' = [skin EXCEPT !.images[n] = packs]
       /\ dir' = [f \in DOMAIN dir \ {n} |-> dir[f]]
       /\ todo' = todo \ {n}
  /\ UNCHANGED <<hasDir, png, xml, ui, pc, skinBounds>>

PackRemoveDir ==
  /\ pc = "pack pictures"
  /\ todo = {}
  /\ hasDir' = FALSE
  /\ pc' = "pack save"
  /\ UNCHANGED <<dir, png, xml, memory, todo, drawn, skinBounds>>

(* Mutant: the picture is not saved.                                       *)
PackSave_Nothing ==
  /\ pc = "pack save"
  /\ ui' = [layout |-> packs, pics |-> drawn]
  /\ pc' = "pack xml"
  /\ UNCHANGED <<hasDir, dir, png, xml, skin, todo, drawn, skinBounds>>

PackSave ==
  /\ pc = "pack save"
  /\ png' = [layout |-> packs, pics |-> drawn]
  /\ ui' = png'
  /\ pc' = "pack xml"
  /\ UNCHANGED <<hasDir, dir, xml, skin, todo, drawn, skinBounds>>

PackXml ==
  /\ pc = "pack xml"
  /\ xml' = skin
  /\ pc' = "pack load"
  /\ UNCHANGED <<hasDir, dir, png, memory, todo, drawn, skinBounds>>

PackLoad ==
  /\ pc = "pack load"
  /\ Load
  /\ pc' = "idle"
  /\ UNCHANGED <<files, todo, drawn, skinBounds>>

---------------------------------------------------------------------------
(* The designer edits a file; the process dies and is started again.       *)

Edit(n) ==
  /\ pc = "idle"
  /\ n \in DOMAIN dir
  /\ latest[n] < design.maxEdits
  /\ latest' = [latest EXCEPT ![n] = @ + 1]
  /\ dir' = [dir EXCEPT ![n] = latest'[n]]
  /\ UNCHANGED <<hasDir, png, xml, memory, work, design, packs, crashes>>

Unpacking == {"unpack pictures", "unpack delete", "unpack load"}
Packing == {"pack pictures", "pack save", "pack xml", "pack load"}

Crash ==
  /\ crashes < design.maxCrashes
  /\ \/ pc = "idle" /\ "idle" \in design.crashIn
     \/ pc \in Unpacking /\ "unpack" \in design.crashIn
     \/ pc \in Packing /\ "pack" \in design.crashIn
  /\ crashes' = crashes + 1
  /\ Load
  /\ pc' = "idle" /\ todo' = {} /\ drawn' = <<>>
  /\ UNCHANGED <<files, design, packs, latest>>

SkinNext ==
  \/ Reload
  \/ UnpackStart \/ UnpackPicture \/ UnpackXml \/ UnpackDelete \/ UnpackLoad
  \/ PackStart \/ PackPicture \/ PackRemoveDir \/ PackSave \/ PackXml \/ PackLoad
  \/ Crash
  \/ \E n \in Pictures : Edit(n)

SkinSpec == SkinInit /\ [][SkinNext]_skinVars

---------------------------------------------------------------------------
SkinTypeOK ==
  /\ design \in Designs
  /\ DOMAIN dir \subseteq Pictures
  /\ (~hasDir => dir = <<>>)
  /\ todo \subseteq Pictures
  /\ pc \in {"idle"} \cup Unpacking \cup Packing
  /\ skin.images \in [Pictures -> Int]
  /\ DOMAIN drawn \subseteq Pictures
  /\ latest \in [Pictures -> Nat]

(* Between commands every picture the skin names is found, and is the      *)
(* picture of that name: rectangles and skin.png, files and directory      *)
(* always belong together.                                                 *)
SkinIsRight == pc = "idle" => \A n \in Pictures : Shows(skin, ui, dir, n) >= 0

(* Where a designer finds a picture again.                                 *)
InDir(n) == n \in DOMAIN dir /\ dir[n] = latest[n]
InPng(n) == png # NoFile /\ n \in DOMAIN png.pics /\ png.pics[n] = latest[n]
Available(n) == InDir(n) \/ InPng(n)

(* Every edit is in the directory, or in skin.png when there is none.      *)
EditsKept ==
  pc = "idle" => \A n \in Pictures : latest[n] > 0 => Available(n)

(* However the skin is packed, unpacked, edited and loaded again, as long  *)
(* as neither pack() nor unpack() is cut short, every picture is found,    *)
(* and no edit is lost as long as load() takes the skin that pack() saved. *)
SkinIsKept ==
  /\ SkinTypeOK
  /\ design.crashIn \subseteq {"idle"} =>
       /\ SkinIsRight
       /\ design.sameVersion => EditsKept

(* Whatever happens inside unpack(), also a crash, loses no edit: the      *)
(* files are complete before skin.png is deleted.  (pack() deletes the     *)
(* files before it has saved the picture.)                                 *)
KeepsEdits ==
  \A n \in Pictures :
    latest'[n] = latest[n] /\ latest[n] > 0 /\ Available(n)
      => Available(n)' \/ pc \in Packing
OnlyPackLoses ==
  [][design.sameVersion /\ "pack" \notin design.crashIn => KeepsEdits]_skinVars
=============================================================================
