---------------------------- MODULE Files_proofs ----------------------------
(***************************************************************************)
(* The files of a skin: what pack() and unpack() leave at each of their    *)
(* steps, and why no picture and no edit is lost on the way; and the       *)
(* picture that pack() draws.                                              *)
(***************************************************************************)
EXTENDS SkinFiles, PackLayout, FolderIterator, FiniteSetTheorems, SequenceTheorems,
        WellFoundedInduction, TLAPS

Pics == UNION {[S -> Int] : S \in SUBSET Pictures}
Skins == [images : [Pictures -> Int], same : BOOLEAN]
Pngs == [layout : Nat, pics : Pics]

SkinTypes ==
  /\ hasDir \in BOOLEAN
  /\ dir \in Pics /\ drawn \in Pics
  /\ skin \in Skins /\ ui \in Pngs
  /\ xml \in Skins \union {NoFile} /\ png \in Pngs \union {NoFile}
  /\ packs \in Nat /\ crashes \in Nat

-----------------------------------------------------------------------------
(* What holds in every world.                                              *)

(* What load() leaves in memory.                                           *)
Loaded ==
  IF xml # NoFile /\ png # NoFile /\ xml.same
  THEN skin = xml /\ ui = png
  ELSE skin = Resource /\ ui = ResourceUi

(* The picture that is drawn is the one the entries will name.             *)
Drawing ==
  /\ skin.same = design.sameVersion
  /\ \A m \in DOMAIN drawn : skin.images[m] = packs

Phases ==
  /\ pc \in {"idle", "unpack pictures"} => Loaded
  /\ pc \in Unpacking \union {"pack pictures"} => hasDir
  /\ pc \in {"pack save", "pack xml", "pack load"} => ~hasDir /\ Drawing
  /\ pc = "unpack pictures" =>
       todo \intersect DOMAIN dir = {} /\ \A m \in todo : skin.images[m] # FileRef
  /\ pc = "pack pictures" => todo = DOMAIN dir /\ Drawing
  /\ pc \in {"pack xml", "pack load"} => png = [layout |-> packs, pics |-> drawn]
  /\ pc = "pack load" => xml = skin

SkinInv == SkinTypeOK /\ SkinTypes /\ Phases

-----------------------------------------------------------------------------
(* Crashes inside unpack() too: what skin.png alone has, the loaded skin   *)
(* finds in it, so that unpack() writes it before it deletes skin.png.     *)
Survives(m) == latest[m] > 0 /\ InPng(m)
PngAlone ==
  /\ pc \in {"idle", "pack load"} /\ ~hasDir /\ png # NoFile =>
       /\ xml # NoFile /\ xml.same
       /\ \A m \in DOMAIN png.pics : xml.images[m] = png.layout
  /\ pc = "unpack pictures" =>
       \A m \in Pictures : Survives(m) =>
         InDir(m) \/ (m \in todo /\ Shows(skin, ui, dir, m) = latest[m])
  /\ pc = "unpack delete" => \A m \in Pictures : Survives(m) => InDir(m)

AnyCrash == design.sameVersion /\ "pack" \notin design.crashIn
UnpackInv == SkinInv /\ (AnyCrash => PngAlone)

-----------------------------------------------------------------------------
(* No command is cut short: the directory, or what has been drawn, or both *)
(* in turn, have every picture, as it was edited last.                     *)
Complete(d) ==
  /\ DOMAIN d = Pictures
  /\ \A m \in Pictures :
       d[m] >= 0 /\ (design.sameVersion /\ latest[m] > 0 => d[m] = latest[m])

Unpacked == [m \in Pictures |-> IF m \in todo THEN Shows(skin, ui, dir, m) ELSE dir[m]]
Drawn == [m \in Pictures |-> IF m \in DOMAIN dir THEN dir[m] ELSE drawn[m]]

Whole ==
  /\ (pc = "idle" /\ hasDir) \/ pc \in {"unpack delete", "unpack load"} => Complete(dir)
  /\ (pc = "idle" /\ hasDir) \/ pc = "unpack load" => png = NoFile
  /\ pc = "unpack pictures" => DOMAIN dir = Pictures \ todo /\ Complete(Unpacked)
  /\ pc = "pack pictures" => DOMAIN drawn = Pictures \ DOMAIN dir /\ Complete(Drawn)
  /\ pc \in {"pack save", "pack xml", "pack load"} => Complete(drawn)
  /\ pc = "idle" /\ ~hasDir =>
       IF png = NoFile THEN \A m \in Pictures : latest[m] = 0
       ELSE /\ Complete(png.pics)
            /\ xml # NoFile /\ xml.same = design.sameVersion
            /\ \A m \in Pictures : xml.images[m] = png.layout

NoneCut == design.crashIn \subseteq {"idle"}
SkinIInv == SkinInv /\ (NoneCut => Whole)

-----------------------------------------------------------------------------
(* Directories, pictures and skins.                                        *)

LEMMA PicsOf ==
  ASSUME NEW d
  PROVE  d \in Pics <=> /\ d = [m \in DOMAIN d |-> d[m]]
                        /\ DOMAIN d \subseteq Pictures
                        /\ \A m \in DOMAIN d : d[m] \in Int
  BY DEF Pics

LEMMA NoPics == <<>> \in Pics /\ DOMAIN <<>> = {}
  <1>1. DOMAIN <<>> = {} /\ <<>> \in [{} -> Int]
    OBVIOUS
  <1>2. QED
    BY <1>1 DEF Pics

LEMMA EmptyPics ==
  ASSUME NEW d \in Pics, DOMAIN d = {}
  PROVE  d = <<>>
  BY DEF Pics

LEMMA PutPics ==
  ASSUME NEW d \in Pics, NEW m \in Pictures, NEW p \in Int
  PROVE  /\ Put(d, m, p) \in Pics
         /\ DOMAIN Put(d, m, p) = DOMAIN d \union {m}
         /\ Put(d, m, p)[m] = p
         /\ \A k \in DOMAIN d \ {m} : Put(d, m, p)[k] = d[k]
  <1>1. /\ DOMAIN Put(d, m, p) = DOMAIN d \union {m}
        /\ \A k \in DOMAIN d \union {m} : Put(d, m, p)[k] = IF k = m THEN p ELSE d[k]
    BY DEF Put
  <1>2. DOMAIN d \subseteq Pictures /\ \A k \in DOMAIN d : d[k] \in Int
    BY PicsOf
  <1>3. Put(d, m, p) \in [DOMAIN d \union {m} -> Int]
    BY <1>2 DEF Put
  <1>4. Put(d, m, p) \in Pics
    BY <1>2, <1>3 DEF Pics
  <1>5. QED
    BY <1>1, <1>4

Less(d, m) == [f \in DOMAIN d \ {m} |-> d[f]]

LEMMA LessPics ==
  ASSUME NEW d \in Pics, NEW m
  PROVE  Less(d, m) \in Pics
  <1>1. DOMAIN d \subseteq Pictures /\ \A k \in DOMAIN d : d[k] \in Int
    BY PicsOf
  <1>2. Less(d, m) \in [DOMAIN d \ {m} -> Int]
    BY <1>1 DEF Less
  <1>3. QED
    BY <1>1, <1>2 DEF Pics

LEMMA OriginalPics ==
  /\ Original \in Pics /\ Original \in [Pictures -> Int]
  /\ Resource \in Skins /\ ResourceUi \in Pngs
  /\ \A m \in Pictures : Original[m] = 0
  /\ DOMAIN Original = Pictures
  <1>1. Original \in [Pictures -> Int]
    BY DEF Original
  <1>2. Original \in Pics
    BY <1>1 DEF Pics
  <1>3. QED
    BY <1>1, <1>2 DEF Original, Resource, ResourceUi, Skins, Pngs

LEMMA FilesExist ==
  /\ \A p \in Pngs : p # NoFile
  /\ \A s \in Skins : s # NoFile
  <1>1. \A p \in Pngs : p.layout # NoFile.layout
    BY DEF Pngs, NoFile
  <1>2. \A s \in Skins : DOMAIN s = {"images", "same"}
    BY DEF Skins
  <1>3. DOMAIN NoFile = {"layout"}
    BY DEF NoFile
  <1>4. {"images", "same"} # {"layout"}
    OBVIOUS
  <1>5. QED
    BY <1>1, <1>2, <1>3, <1>4

(* What an entry shows is a picture or Missing.                            *)
LEMMA ShowsInt ==
  ASSUME NEW s \in Skins, NEW u \in Pngs, NEW d \in Pics, NEW m \in Pictures
  PROVE  Shows(s, u, d, m) \in Int
  <1>1. \A e \in Pics : m \in DOMAIN e => e[m] \in Int
    BY PicsOf
  <1>2. u.pics \in Pics
    BY DEF Pngs
  <1>3. QED
    BY <1>1, <1>2 DEF Shows, Missing

LEMMA ResourceShows ==
  ASSUME NEW d, NEW m \in Pictures
  PROVE  Shows(Resource, ResourceUi, d, m) = 0
  BY OriginalPics DEF Shows, Resource, ResourceUi, FileRef

(* load() leaves in memory what the files say.                             *)
LEMMA LoadLoads ==
  ASSUME SkinTypes, Load, UNCHANGED <<xml, png>>
  PROVE  skin' \in Skins /\ ui' \in Pngs /\ Loaded'
  BY OriginalPics DEF Load, Loaded, SkinTypes

(* A skin with other entries, or with another version.                     *)
LEMMA NewImages ==
  ASSUME NEW s \in Skins, NEW f \in [Pictures -> Int]
  PROVE  /\ [s EXCEPT !.images = f] \in Skins
         /\ [s EXCEPT !.images = f].images = f
         /\ [s EXCEPT !.images = f].same = s.same
  <1>1. s = [images |-> s.images, same |-> s.same] /\ s.same \in BOOLEAN
    BY DEF Skins
  <1>2. [s EXCEPT !.images = f] = [images |-> f, same |-> s.same]
    BY <1>1
  <1>3. QED
    BY <1>1, <1>2 DEF Skins

LEMMA NewVersion ==
  ASSUME NEW s \in Skins, NEW b \in BOOLEAN
  PROVE  /\ [s EXCEPT !.same = b] \in Skins
         /\ [s EXCEPT !.same = b].images = s.images
         /\ [s EXCEPT !.same = b].same = b
  <1>1. s = [images |-> s.images, same |-> s.same] /\ s.images \in [Pictures -> Int]
    BY DEF Skins
  <1>2. [s EXCEPT !.same = b] = [images |-> s.images, same |-> b]
    BY <1>1
  <1>3. QED
    BY <1>1, <1>2 DEF Skins

-----------------------------------------------------------------------------
(* The invariant of every world.                                           *)

LEMMA InvInit == SkinInit => SkinInv
  <1> SUFFICES ASSUME SkinInit PROVE SkinInv
    OBVIOUS
  <1>1. SkinTypes
    BY NoPics, OriginalPics DEF SkinInit, SkinTypes
  <1>2. SkinTypeOK
    BY NoPics, OriginalPics DEF SkinInit, SkinTypeOK, Skins, Original
  <1>3. Phases
    BY DEF SkinInit, Phases, Loaded, Unpacking, Packing
  <1>4. QED
    BY <1>1, <1>2, <1>3 DEF SkinInv

LEMMA InvReload == SkinInv /\ Reload => SkinInv'
  <1> SUFFICES ASSUME SkinInv, Reload PROVE SkinInv'
    OBVIOUS
  <1> USE DEF SkinInv, Reload, files, work, skinBounds
  <1>1. skin' \in Skins /\ ui' \in Pngs /\ Loaded'
    BY LoadLoads
  <1>2. SkinTypes'
    BY <1>1 DEF SkinTypes
  <1>3. SkinTypeOK'
    BY <1>1 DEF SkinTypeOK, Skins, Packing, Unpacking
  <1>4. Phases'
    BY <1>1 DEF Phases, Unpacking
  <1>5. QED
    BY <1>2, <1>3, <1>4

LEMMA InvUnpackStart == SkinInv /\ UnpackStart => SkinInv'
  <1> SUFFICES ASSUME SkinInv, UnpackStart PROVE SkinInv'
    OBVIOUS
  <1> USE DEF SkinInv, UnpackStart, memory, skinBounds
  <1>1. SkinTypes'
    BY DEF SkinTypes
  <1>2. SkinTypeOK'
    BY DEF SkinTypeOK, Packing, Unpacking
  <1>3. Phases'
    BY NoPics DEF Phases, Unpacking, Loaded, SkinTypeOK
  <1>4. QED
    BY <1>1, <1>2, <1>3

LEMMA InvUnpackPicture == SkinInv /\ UnpackPicture => SkinInv'
  <1> SUFFICES ASSUME SkinInv, UnpackPicture PROVE SkinInv'
    OBVIOUS
  <1> USE DEF SkinInv
  <1>1. PICK m \in todo : /\ dir' = Put(dir, m, Shows(skin, ui, dir, m))
                          /\ todo' = todo \ {m}
    BY DEF UnpackPicture
  <1>2. /\ m \in Pictures
        /\ UNCHANGED <<hasDir, png, xml, skin, ui, pc, drawn, design, packs, latest, crashes>>
        /\ pc = "unpack pictures" /\ hasDir
    BY <1>1 DEF UnpackPicture, memory, skinBounds, SkinTypeOK, Phases, Unpacking
  <1>3. dir' \in Pics /\ DOMAIN dir' = DOMAIN dir \union {m}
    BY <1>1, <1>2, PutPics, ShowsInt DEF SkinTypes
  <1>4. SkinTypes'
    BY <1>2, <1>3 DEF SkinTypes
  <1>5. SkinTypeOK'
    BY <1>1, <1>2, <1>3 DEF SkinTypeOK
  <1>6. Phases'
    BY <1>1, <1>2, <1>3 DEF Phases, Loaded
  <1>7. QED
    BY <1>4, <1>5, <1>6

AllFiles == [m \in Pictures |-> FileRef]

LEMMA InvUnpackXml == SkinInv /\ UnpackXml => SkinInv'
  <1> SUFFICES ASSUME SkinInv, UnpackXml PROVE SkinInv'
    OBVIOUS
  <1> USE DEF SkinInv
  <1>1. /\ skin' = [skin EXCEPT !.images = AllFiles]
        /\ xml' = skin'
        /\ pc = "unpack pictures" /\ pc' = "unpack delete"
        /\ UNCHANGED <<hasDir, dir, png, ui, todo, drawn, design, packs, latest, crashes>>
    BY DEF UnpackXml, skinBounds, AllFiles
  <1>2. skin' \in Skins
    <2>1. AllFiles \in [Pictures -> Int]
      BY DEF AllFiles, FileRef
    <2>2. skin \in Skins
      BY DEF SkinTypes
    <2>3. QED
      BY <1>1, <2>1, <2>2, NewImages
  <1>3. SkinTypes'
    BY <1>1, <1>2 DEF SkinTypes
  <1>4. SkinTypeOK'
    BY <1>1, <1>2 DEF SkinTypeOK, Skins, Unpacking
  <1>5. Phases'
    BY <1>1 DEF Phases, Unpacking
  <1>6. QED
    BY <1>3, <1>4, <1>5

LEMMA InvUnpackDelete == SkinInv /\ UnpackDelete => SkinInv'
  <1> SUFFICES ASSUME SkinInv, UnpackDelete PROVE SkinInv'
    OBVIOUS
  <1> USE DEF SkinInv, UnpackDelete, memory, skinBounds
  <1>1. SkinTypes'
    BY DEF SkinTypes
  <1>2. SkinTypeOK'
    BY DEF SkinTypeOK, Unpacking
  <1>3. Phases'
    BY DEF Phases, Unpacking
  <1>4. QED
    BY <1>1, <1>2, <1>3

LEMMA InvUnpackLoad == SkinInv /\ UnpackLoad => SkinInv'
  <1> SUFFICES ASSUME SkinInv, UnpackLoad PROVE SkinInv'
    OBVIOUS
  <1> USE DEF SkinInv, UnpackLoad, files, skinBounds
  <1>1. skin' \in Skins /\ ui' \in Pngs /\ Loaded'
    BY LoadLoads
  <1>2. SkinTypes'
    BY <1>1 DEF SkinTypes
  <1>3. SkinTypeOK'
    BY <1>1 DEF SkinTypeOK, Skins
  <1>4. Phases'
    BY <1>1 DEF Phases, Unpacking
  <1>5. QED
    BY <1>2, <1>3, <1>4

LEMMA InvPackStart == SkinInv /\ PackStart => SkinInv'
  <1> SUFFICES ASSUME SkinInv, PackStart PROVE SkinInv'
    OBVIOUS
  <1> USE DEF SkinInv
  <1>1. /\ skin' = [skin EXCEPT !.same = design.sameVersion]
        /\ hasDir /\ packs' = packs + 1
        /\ todo' = DOMAIN dir /\ drawn' = <<>>
        /\ pc' = "pack pictures"
        /\ UNCHANGED <<hasDir, dir, png, xml, ui, design, latest, crashes>>
    BY DEF PackStart, files
  <1>2. skin' \in Skins /\ skin'.same = design.sameVersion
    <2>1. design.sameVersion \in BOOLEAN
      BY SkinAssumption DEF SkinTypeOK
    <2>2. skin \in Skins
      BY DEF SkinTypes
    <2>3. QED
      BY <1>1, <2>1, <2>2, NewVersion
  <1>3. SkinTypes'
    <2>1. /\ packs' = packs + 1 /\ drawn' = <<>>
          /\ UNCHANGED <<hasDir, dir, png, xml, ui, crashes>>
      BY <1>1
    <2>2. QED
      BY <1>2, <2>1, NoPics DEF SkinTypes
  <1>4. todo' = DOMAIN dir /\ drawn' = <<>> /\ pc' = "pack pictures" /\ hasDir
        /\ UNCHANGED <<hasDir, dir, design, latest>>
    BY <1>1
  <1>5. SkinTypeOK'
    BY <1>2, <1>4, NoPics DEF SkinTypeOK, Skins, Packing
  <1>6. Phases'
    BY <1>2, <1>4, NoPics DEF Phases, Unpacking, Drawing
  <1>7. QED
    BY <1>3, <1>5, <1>6

LEMMA InvPackPicture == SkinInv /\ PackPicture => SkinInv'
  <1> SUFFICES ASSUME SkinInv, PackPicture PROVE SkinInv'
    OBVIOUS
  <1> USE DEF SkinInv
  <1>1. PICK m \in todo : /\ drawn' = Put(drawn, m, dir[m])
                          /\ skin' = [skin EXCEPT !.images[m] = packs]
                          /\ dir' = Less(dir, m)
                          /\ todo' = todo \ {m}
    BY DEF PackPicture, Less
  <1>2. /\ m \in Pictures /\ m \in DOMAIN dir
        /\ UNCHANGED <<hasDir, png, xml, ui, pc, design, packs, latest, crashes>>
        /\ pc = "pack pictures" /\ hasDir
    BY <1>1 DEF PackPicture, skinBounds, SkinTypeOK, Phases
  <1>3. dir' \in Pics /\ DOMAIN dir' = DOMAIN dir \ {m}
    BY <1>1, LessPics DEF SkinTypes, Less
  <1>4. dir[m] \in Int
    BY <1>2, PicsOf DEF SkinTypes
  <1>5. drawn' \in Pics /\ DOMAIN drawn' = DOMAIN drawn \union {m}
    BY <1>1, <1>2, <1>4, PutPics DEF SkinTypes
  <1>6. /\ skin' \in Skins /\ skin'.same = skin.same
        /\ skin'.images[m] = packs
        /\ \A k \in Pictures \ {m} : skin'.images[k] = skin.images[k]
    <2>1. PICK f : f = skin.images
      OBVIOUS
    <2>2. skin \in Skins /\ f \in [Pictures -> Int] /\ packs \in Int
      BY <2>1 DEF SkinTypes, Skins
    <2>3. PICK g : g = [f EXCEPT ![m] = packs]
      OBVIOUS
    <2>4. g \in [Pictures -> Int] /\ g[m] = packs /\ \A k \in Pictures \ {m} : g[k] = f[k]
      BY <1>2, <2>2, <2>3
    <2>5. skin' = [skin EXCEPT !.images = g]
      BY <1>1, <2>1, <2>3
    <2>6. QED
      BY <2>1, <2>2, <2>4, <2>5, NewImages
  <1>7. SkinTypes'
    BY <1>2, <1>3, <1>5, <1>6 DEF SkinTypes
  <1>8. SkinTypeOK'
    BY <1>1, <1>2, <1>3, <1>5, <1>6 DEF SkinTypeOK, Skins
  <1>9. Phases'
    BY <1>1, <1>2, <1>3, <1>5, <1>6 DEF Phases, Drawing, SkinTypeOK
  <1>10. QED
    BY <1>7, <1>8, <1>9

LEMMA InvPackRemoveDir == SkinInv /\ PackRemoveDir => SkinInv'
  <1> SUFFICES ASSUME SkinInv, PackRemoveDir PROVE SkinInv'
    OBVIOUS
  <1> USE DEF SkinInv, PackRemoveDir, memory, skinBounds
  <1>1. SkinTypes'
    BY DEF SkinTypes
  <1>2. dir = <<>>
    BY EmptyPics DEF SkinTypes, Phases
  <1>3. SkinTypeOK'
    BY <1>2 DEF SkinTypeOK, Packing
  <1>4. Phases'
    BY DEF Phases, Unpacking, Drawing
  <1>5. QED
    BY <1>1, <1>3, <1>4

LEMMA InvPackSave == SkinInv /\ PackSave => SkinInv'
  <1> SUFFICES ASSUME SkinInv, PackSave PROVE SkinInv'
    OBVIOUS
  <1> USE DEF SkinInv, PackSave, skinBounds
  <1>1. png' \in Pngs
    BY DEF SkinTypes, Pngs
  <1>2. SkinTypes'
    BY <1>1 DEF SkinTypes
  <1>3. SkinTypeOK'
    BY DEF SkinTypeOK, Packing
  <1>4. Phases'
    BY DEF Phases, Unpacking, Drawing
  <1>5. QED
    BY <1>2, <1>3, <1>4

LEMMA InvPackXml == SkinInv /\ PackXml => SkinInv'
  <1> SUFFICES ASSUME SkinInv, PackXml PROVE SkinInv'
    OBVIOUS
  <1> USE DEF SkinInv, PackXml, memory, skinBounds
  <1>1. SkinTypes'
    BY DEF SkinTypes
  <1>2. SkinTypeOK'
    BY DEF SkinTypeOK, Packing
  <1>3. Phases'
    BY DEF Phases, Unpacking, Drawing
  <1>4. QED
    BY <1>1, <1>2, <1>3

LEMMA InvPackLoad == SkinInv /\ PackLoad => SkinInv'
  <1> SUFFICES ASSUME SkinInv, PackLoad PROVE SkinInv'
    OBVIOUS
  <1> USE DEF SkinInv, PackLoad, files, skinBounds
  <1>1. skin' \in Skins /\ ui' \in Pngs /\ Loaded'
    BY LoadLoads
  <1>2. SkinTypes'
    BY <1>1 DEF SkinTypes
  <1>3. SkinTypeOK'
    BY <1>1 DEF SkinTypeOK, Skins
  <1>4. Phases'
    BY <1>1 DEF Phases, Unpacking
  <1>5. QED
    BY <1>2, <1>3, <1>4

LEMMA InvCrash == SkinInv /\ Crash => SkinInv'
  <1> SUFFICES ASSUME SkinInv, Crash PROVE SkinInv'
    OBVIOUS
  <1> USE DEF SkinInv, files
  <1>1. /\ Load /\ pc' = "idle" /\ todo' = {} /\ drawn' = <<>>
        /\ UNCHANGED <<hasDir, dir, png, xml, design, packs, latest>>
        /\ crashes' = crashes + 1
    BY DEF Crash
  <1>2. skin' \in Skins /\ ui' \in Pngs /\ Loaded'
    BY <1>1, LoadLoads
  <1>3. SkinTypes'
    BY <1>1, <1>2, NoPics DEF SkinTypes
  <1>4. SkinTypeOK'
    BY <1>1, <1>2, NoPics DEF SkinTypeOK, Skins
  <1>5. Phases'
    BY <1>1, <1>2 DEF Phases, Unpacking
  <1>6. QED
    BY <1>3, <1>4, <1>5

LEMMA InvEdit ==
  ASSUME SkinInv, NEW m \in Pictures, Edit(m)
  PROVE  SkinInv'
  <1> USE DEF SkinInv, Edit, files, memory, work
  <1>1. latest' \in [Pictures -> Nat] /\ latest'[m] \in Nat
    BY DEF SkinTypeOK
  <1>2. dir' \in Pics /\ DOMAIN dir' = DOMAIN dir
    <2>1. dir \in [DOMAIN dir -> Int] /\ DOMAIN dir \in SUBSET Pictures
      BY PicsOf DEF SkinTypes
    <2>2. dir' \in [DOMAIN dir -> Int]
      BY <1>1, <2>1
    <2>3. QED
      BY <2>1, <2>2 DEF Pics
  <1>3. SkinTypes'
    BY <1>2 DEF SkinTypes
  <1>4. hasDir
    BY NoPics DEF SkinTypeOK
  <1>5. SkinTypeOK'
    BY <1>1, <1>2, <1>4 DEF SkinTypeOK
  <1>6. Phases'
    BY DEF Phases, Unpacking, Loaded
  <1>7. QED
    BY <1>3, <1>5, <1>6

LEMMA InvNext == SkinInv /\ [SkinNext]_skinVars => SkinInv'
  <1> SUFFICES ASSUME SkinInv, [SkinNext]_skinVars PROVE SkinInv'
    OBVIOUS
  <1>1. CASE SkinNext
    BY <1>1, InvReload, InvUnpackStart, InvUnpackPicture, InvUnpackXml, InvUnpackDelete,
       InvUnpackLoad, InvPackStart, InvPackPicture, InvPackRemoveDir, InvPackSave,
       InvPackXml, InvPackLoad, InvCrash, InvEdit DEF SkinNext
  <1>2. CASE UNCHANGED skinVars
    BY <1>2 DEF skinVars, files, memory, work, skinBounds, SkinInv, SkinTypes, SkinTypeOK,
       Phases, Loaded, Drawing
  <1>3. QED
    BY <1>1, <1>2

LEMMA DesignStays == [SkinNext]_skinVars => design' = design
  BY DEF SkinNext, skinVars, files, memory, work, skinBounds, Reload, UnpackStart,
     UnpackPicture, UnpackXml, UnpackDelete, UnpackLoad, PackStart, PackPicture,
     PackRemoveDir, PackSave, PackXml, PackLoad, Crash, Edit

-----------------------------------------------------------------------------
(* unpack() writes before it deletes.                                      *)

(* What skin.png alone has is found in it by the skin in memory.           *)
LEMMA PngIsShown ==
  ASSUME SkinInv, PngAlone, pc = "idle", ~hasDir, NEW m \in Pictures, Survives(m)
  PROVE  skin.images[m] # FileRef /\ \A d : Shows(skin, ui, d, m) = latest[m]
  <1>1. png # NoFile /\ png \in Pngs /\ m \in DOMAIN png.pics /\ png.pics[m] = latest[m]
    BY DEF Survives, InPng, SkinInv, SkinTypes
  <1>2. xml # NoFile /\ xml.same /\ xml.images[m] = png.layout
    BY <1>1 DEF PngAlone
  <1>3. skin = xml /\ ui = png
    BY <1>1, <1>2 DEF SkinInv, Phases, Loaded
  <1>4. png.layout # FileRef
    BY <1>1 DEF Pngs, FileRef
  <1>5. QED
    BY <1>1, <1>2, <1>3, <1>4 DEF Shows

LEMMA AloneUnpackStart ==
  ASSUME SkinInv, PngAlone, UnpackStart
  PROVE  PngAlone' /\ KeepsEdits
  <1>1. /\ pc = "idle" /\ ~hasDir /\ hasDir' /\ pc' = "unpack pictures"
        /\ todo' = {m \in Pictures : skin.images[m] # FileRef}
        /\ UNCHANGED <<dir, png, xml, skin, ui, latest>>
    BY DEF UnpackStart, memory, skinBounds
  <1>2. \A m \in Pictures : Survives(m)' = Survives(m)
    BY <1>1 DEF Survives, InPng
  <1>3. ASSUME NEW m \in Pictures, Survives(m)
        PROVE  m \in todo' /\ Shows(skin, ui, dir, m)' = latest'[m]
    <2>1. skin.images[m] # FileRef /\ Shows(skin, ui, dir, m) = latest[m]
      BY <1>1, <1>3, PngIsShown
    <2>2. QED
      BY <1>1, <2>1 DEF Shows
  <1>4. PngAlone'
    BY <1>1, <1>2, <1>3 DEF PngAlone
  <1>5. KeepsEdits
    BY <1>1 DEF KeepsEdits, Available, InDir, InPng
  <1>6. QED
    BY <1>4, <1>5

(* One picture goes from the loop's list to the directory.                 *)
LEMMA UnpacksOne ==
  ASSUME SkinInv, UnpackPicture
  PROVE  \E m \in todo :
           /\ m \in Pictures /\ m \notin DOMAIN dir
           /\ todo' = todo \ {m}
           /\ DOMAIN dir' = DOMAIN dir \union {m}
           /\ dir'[m] = Shows(skin, ui, dir, m)
           /\ \A k \in DOMAIN dir : dir'[k] = dir[k]
  <1>1. PICK m \in todo : /\ dir' = Put(dir, m, Shows(skin, ui, dir, m))
                          /\ todo' = todo \ {m}
    BY DEF UnpackPicture
  <1>2. m \in Pictures /\ m \notin DOMAIN dir
    BY <1>1 DEF UnpackPicture, SkinInv, SkinTypeOK, Phases
  <1>3. PICK p : p = Shows(skin, ui, dir, m)
    OBVIOUS
  <1>4. dir \in Pics /\ p \in Int
    BY <1>2, <1>3, ShowsInt DEF SkinInv, SkinTypes
  <1>5. dir' = Put(dir, m, p)
    BY <1>1, <1>3
  <1>6. /\ DOMAIN Put(dir, m, p) = DOMAIN dir \union {m}
        /\ Put(dir, m, p)[m] = p
        /\ \A k \in DOMAIN dir \ {m} : Put(dir, m, p)[k] = dir[k]
    BY <1>2, <1>4, PutPics
  <1>7. QED
    BY <1>1, <1>2, <1>3, <1>5, <1>6

LEMMA AloneUnpackPicture ==
  ASSUME SkinInv, PngAlone, UnpackPicture
  PROVE  PngAlone' /\ KeepsEdits
  <1>1. PICK m \in todo : /\ m \in Pictures /\ m \notin DOMAIN dir
                          /\ todo' = todo \ {m}
                          /\ DOMAIN dir' = DOMAIN dir \union {m}
                          /\ dir'[m] = Shows(skin, ui, dir, m)
                          /\ \A k \in DOMAIN dir : dir'[k] = dir[k]
    BY UnpacksOne
  <1>2. /\ pc = "unpack pictures" /\ pc' = pc
        /\ UNCHANGED <<hasDir, png, xml, skin, ui, latest>>
    BY DEF UnpackPicture, memory, skinBounds
  <1>3. \A k \in Pictures : k \in todo => skin.images[k] # FileRef
    BY <1>2 DEF SkinInv, Phases
  <1>4. \A k \in Pictures : InPng(k)' = InPng(k) /\ (InDir(k) => InDir(k)')
    BY <1>1, <1>2 DEF InPng, InDir
  <1>5. KeepsEdits
    BY <1>4 DEF KeepsEdits, Available
  <1>6. ASSUME NEW k \in Pictures, Survives(k)'
        PROVE  InDir(k)' \/ (k \in todo' /\ Shows(skin, ui, dir, k)' = latest'[k])
    <2>1. Survives(k)
      BY <1>2, <1>4, <1>6 DEF Survives
    <2>2. CASE InDir(k)
      BY <1>4, <2>2
    <2>3. CASE k \in todo /\ Shows(skin, ui, dir, k) = latest[k]
      <3>1. CASE k = m
        BY <1>1, <1>2, <2>3, <3>1 DEF InDir
      <3>2. CASE k # m
        <4>1. skin.images[k] # FileRef
          BY <1>3, <2>3
        <4>2. Shows(skin, ui, dir, k)' = Shows(skin, ui, dir, k)
          BY <1>2, <4>1 DEF Shows
        <4>3. QED
          BY <1>1, <1>2, <2>3, <3>2, <4>2
      <3>3. QED
        BY <3>1, <3>2
    <2>4. QED
      BY <1>2, <2>1, <2>2, <2>3 DEF PngAlone
  <1>7. PngAlone'
    BY <1>2, <1>6 DEF PngAlone
  <1>8. QED
    BY <1>5, <1>7

LEMMA AloneUnpackXml ==
  ASSUME SkinInv, PngAlone, UnpackXml
  PROVE  PngAlone' /\ KeepsEdits
  <1>1. /\ pc = "unpack pictures" /\ todo = {} /\ pc' = "unpack delete"
        /\ UNCHANGED <<dir, png, latest>>
    BY DEF UnpackXml, skinBounds
  <1>2. \A m \in Pictures : InPng(m)' = InPng(m) /\ InDir(m)' = InDir(m)
    BY <1>1 DEF InPng, InDir
  <1>3. \A m \in Pictures : Survives(m) => InDir(m)
    BY <1>1 DEF PngAlone
  <1>4. PngAlone'
    BY <1>1, <1>2, <1>3 DEF PngAlone, Survives
  <1>5. KeepsEdits
    BY <1>2 DEF KeepsEdits, Available
  <1>6. QED
    BY <1>4, <1>5

LEMMA AloneUnpackDelete ==
  ASSUME SkinInv, PngAlone, UnpackDelete
  PROVE  PngAlone' /\ KeepsEdits
  <1>1. /\ pc = "unpack delete" /\ pc' = "unpack load"
        /\ UNCHANGED <<dir, latest>>
    BY DEF UnpackDelete, skinBounds
  <1>2. \A m \in Pictures : Survives(m) => InDir(m)
    BY <1>1 DEF PngAlone
  <1>3. \A m \in Pictures : InDir(m)' = InDir(m)
    BY <1>1 DEF InDir
  <1>4. PngAlone'
    BY <1>1 DEF PngAlone
  <1>5. KeepsEdits
    BY <1>2, <1>3 DEF KeepsEdits, Available, Survives
  <1>6. QED
    BY <1>4, <1>5

LEMMA AlonePackXml ==
  ASSUME SkinInv, PngAlone, PackXml, design.sameVersion
  PROVE  PngAlone'
  <1>1. /\ pc = "pack xml" /\ pc' = "pack load" /\ xml' = skin
        /\ UNCHANGED <<hasDir, png>>
    BY DEF PackXml
  <1>2. /\ png = [layout |-> packs, pics |-> drawn]
        /\ Drawing
    BY <1>1 DEF SkinInv, Phases
  <1>3. skin # NoFile
    BY FilesExist DEF SkinInv, SkinTypes
  <1>4. /\ xml' # NoFile /\ xml'.same
        /\ \A m \in DOMAIN png'.pics : xml'.images[m] = png'.layout
    BY <1>1, <1>2, <1>3 DEF Drawing
  <1>5. QED
    BY <1>1, <1>4 DEF PngAlone

LEMMA AloneEdit ==
  ASSUME SkinInv, PngAlone, NEW m \in Pictures, Edit(m)
  PROVE  PngAlone' /\ KeepsEdits
  <1>1. /\ pc = "idle" /\ m \in DOMAIN dir
        /\ latest' = [latest EXCEPT ![m] = @ + 1]
        /\ DOMAIN dir' = DOMAIN dir
        /\ \A k \in DOMAIN dir \ {m} : dir'[k] = dir[k]
        /\ UNCHANGED <<hasDir, png, xml, pc>>
    BY DEF Edit, memory, work
  <1>2. latest'[m] # latest[m] /\ \A k \in Pictures \ {m} : latest'[k] = latest[k]
    BY <1>1 DEF SkinInv, SkinTypeOK
  <1>3. KeepsEdits
    BY <1>1, <1>2 DEF KeepsEdits, Available, InDir, InPng
  <1>4. PngAlone'
    BY <1>1 DEF PngAlone
  <1>5. QED
    BY <1>3, <1>4

(* The other steps leave alone what PngAlone is about, or are pack()'s.    *)
LEMMA AloneRest ==
  ASSUME SkinInv, PngAlone, AnyCrash,
         Reload \/ UnpackLoad \/ PackStart \/ PackPicture \/ PackRemoveDir \/ PackSave
           \/ PackLoad \/ Crash \/ UNCHANGED skinVars
  PROVE  PngAlone' /\ KeepsEdits
  <1>1. CASE Reload \/ UnpackLoad \/ PackLoad \/ Crash
    <2>1. /\ UNCHANGED <<hasDir, dir, png, xml, latest>>
          /\ pc' = "idle"
          /\ pc \in {"idle", "pack load"} \/ pc \in Unpacking
      BY <1>1 DEF Reload, UnpackLoad, PackLoad, Crash, AnyCrash, files, work, skinBounds,
         Unpacking
    <2>2. pc \in Unpacking => hasDir
      BY DEF SkinInv, Phases
    <2>3. PngAlone'
      BY <2>1, <2>2 DEF PngAlone
    <2>4. KeepsEdits
      BY <2>1 DEF KeepsEdits, Available, InDir, InPng
    <2>5. QED
      BY <2>3, <2>4
  <1>2. CASE PackStart
    <2>1. /\ UNCHANGED <<hasDir, dir, png, latest>> /\ pc' = "pack pictures"
      BY <1>2 DEF PackStart, files
    <2>2. QED
      BY <2>1 DEF PngAlone, KeepsEdits, Available, InDir, InPng
  <1>3. CASE PackPicture \/ PackRemoveDir \/ PackSave
    <2>1. pc \in Packing /\ pc' \in {"pack pictures", "pack save", "pack xml"}
      BY <1>3 DEF PackPicture, PackRemoveDir, PackSave, Packing
    <2>2. QED
      BY <2>1 DEF PngAlone, KeepsEdits
  <1>4. CASE UNCHANGED skinVars
    BY <1>4 DEF skinVars, files, memory, work, skinBounds, PngAlone, KeepsEdits, Survives,
       Available, InDir, InPng, Shows
  <1>5. QED
    BY <1>1, <1>2, <1>3, <1>4

LEMMA UnpackStep ==
  ASSUME UnpackInv, [SkinNext]_skinVars
  PROVE  UnpackInv' /\ (AnyCrash => KeepsEdits)
  <1>1. SkinInv /\ SkinInv' /\ AnyCrash' = AnyCrash
    BY InvNext, DesignStays DEF UnpackInv, AnyCrash
  <1>2. SUFFICES ASSUME AnyCrash PROVE PngAlone' /\ KeepsEdits
    BY <1>1 DEF UnpackInv
  <1>3. PngAlone
    BY <1>2 DEF UnpackInv
  <1>4. CASE PackXml
    <2>1. pc \in Packing
      BY <1>4 DEF PackXml, Packing
    <2>2. QED
      BY <1>1, <1>2, <1>3, <1>4, <2>1, AlonePackXml DEF AnyCrash, KeepsEdits
  <1>5. QED
    BY <1>1, <1>2, <1>3, <1>4, AloneRest, AloneUnpackStart, AloneUnpackPicture,
       AloneUnpackXml, AloneUnpackDelete, AloneEdit DEF SkinNext

(* A crash inside unpack(), or between the commands, loses no edit, as     *)
(* long as load() takes the skin that pack() saved and pack() itself is    *)
(* not cut short: what only skin.png has is in the directory when unpack() *)
(* deletes it.                                                             *)
THEOREM UnpackLosesNothing == SkinSpec => OnlyPackLoses
  <1>1. SkinInit => UnpackInv
    <2> SUFFICES ASSUME SkinInit PROVE UnpackInv
      OBVIOUS
    <2>1. PngAlone
      BY DEF SkinInit, PngAlone
    <2>2. QED
      BY <2>1, InvInit DEF UnpackInv
  <1>2. UnpackInv /\ [SkinNext]_skinVars => UnpackInv'
    BY UnpackStep
  <1>3. UnpackInv /\ [SkinNext]_skinVars
          => [design.sameVersion /\ "pack" \notin design.crashIn => KeepsEdits]_skinVars
    BY UnpackStep DEF AnyCrash
  <1>4. QED
    BY <1>1, <1>2, <1>3, PTL DEF SkinSpec, OnlyPackLoses

-----------------------------------------------------------------------------
(* pack() and unpack() in turn keep everything.                            *)

(* What load() falls back on: no entry names a file, no picture is edited. *)
LEMMA ResourceEntries ==
  ASSUME NEW d, NEW m \in Pictures, skin = Resource, ui = ResourceUi
  PROVE  skin.images[m] # FileRef /\ Shows(skin, ui, d, m) = 0
  <1>1. Resource.images[m] = 0
    BY OriginalPics DEF Resource
  <1>2. skin.images[m] # FileRef
    BY <1>1 DEF FileRef
  <1>3. QED
    BY <1>2, ResourceShows

(* What the entries show of a skin that has no directory is complete.      *)
LEMMA WholeShows ==
  ASSUME SkinInv, Whole, pc = "idle", ~hasDir, NEW m \in Pictures, NEW d
  PROVE  /\ skin.images[m] # FileRef
         /\ Shows(skin, ui, d, m) >= 0
         /\ design.sameVersion /\ latest[m] > 0 => Shows(skin, ui, d, m) = latest[m]
  <1>1. Loaded
    BY DEF SkinInv, Phases
  <1>2. CASE png = NoFile
    <2>1. skin = Resource /\ ui = ResourceUi
      BY <1>1, <1>2 DEF Loaded
    <2>2. latest[m] = 0
      BY <1>2 DEF Whole
    <2>3. skin.images[m] # FileRef /\ Shows(skin, ui, d, m) = 0
      BY <2>1, ResourceEntries
    <2>4. QED
      BY <2>2, <2>3
  <1>3. CASE png # NoFile
    <2>1. /\ Complete(png.pics) /\ xml # NoFile /\ xml.same = design.sameVersion
          /\ xml.images[m] = png.layout
      BY <1>3 DEF Whole
    <2>2. CASE xml.same
      <3>1. skin = xml /\ ui = png
        BY <1>1, <1>3, <2>1, <2>2 DEF Loaded
      <3>2. png.layout # FileRef
        BY <1>3 DEF SkinInv, SkinTypes, Pngs, FileRef
      <3>3. Shows(skin, ui, d, m) = png.pics[m]
        BY <2>1, <3>1, <3>2 DEF Shows, Complete
      <3>4. QED
        BY <2>1, <3>1, <3>2, <3>3 DEF Complete
    <2>3. CASE ~xml.same
      <3>1. skin = Resource /\ ui = ResourceUi
        BY <1>1, <2>3 DEF Loaded
      <3>2. skin.images[m] # FileRef /\ Shows(skin, ui, d, m) = 0
        BY <3>1, ResourceEntries
      <3>3. QED
        BY <2>1, <2>3, <3>2
    <2>4. QED
      BY <2>2, <2>3
  <1>4. QED
    BY <1>2, <1>3

LEMMA WholeUnpackStart ==
  ASSUME SkinInv, Whole, UnpackStart
  PROVE  Whole'
  <1>1. /\ pc = "idle" /\ ~hasDir /\ hasDir' /\ pc' = "unpack pictures"
        /\ todo' = {m \in Pictures : skin.images[m] # FileRef}
        /\ UNCHANGED <<dir, skin, ui, design, latest>>
    BY DEF UnpackStart, memory, skinBounds
  <1>2. todo' = Pictures
    BY <1>1, WholeShows
  <1>3. DOMAIN dir' = Pictures \ todo'
    BY <1>1, <1>2, NoPics DEF SkinInv, SkinTypeOK
  <1>4. ASSUME NEW m \in Pictures
        PROVE  /\ Unpacked'[m] = Shows(skin, ui, dir, m)
    BY <1>1, <1>2 DEF Unpacked, Shows
  <1>5. DOMAIN Unpacked' = Pictures
    BY DEF Unpacked
  <1>6. Complete(Unpacked)'
    BY <1>1, <1>4, <1>5, WholeShows DEF Complete
  <1>7. QED
    BY <1>1, <1>3, <1>6 DEF Whole

LEMMA WholeUnpackPicture ==
  ASSUME SkinInv, Whole, UnpackPicture
  PROVE  Whole'
  <1>1. PICK m \in todo : /\ m \in Pictures /\ m \notin DOMAIN dir
                          /\ todo' = todo \ {m}
                          /\ DOMAIN dir' = DOMAIN dir \union {m}
                          /\ dir'[m] = Shows(skin, ui, dir, m)
                          /\ \A k \in DOMAIN dir : dir'[k] = dir[k]
    BY UnpacksOne
  <1>2. /\ pc = "unpack pictures" /\ pc' = pc
        /\ UNCHANGED <<hasDir, skin, ui, design, latest>>
    BY DEF UnpackPicture, memory, skinBounds
  <1>3. /\ DOMAIN dir = Pictures \ todo /\ Complete(Unpacked)
        /\ \A k \in todo : skin.images[k] # FileRef
    BY <1>2 DEF Whole, SkinInv, Phases
  <1>4. ASSUME NEW k \in Pictures
        PROVE  Unpacked'[k] = Unpacked[k]
    <2>1. CASE k = m
      BY <1>1, <2>1 DEF Unpacked
    <2>2. CASE k # m /\ k \in todo
      <3>1. Shows(skin, ui, dir, k)' = Shows(skin, ui, dir, k)
        BY <1>2, <1>3, <2>2 DEF Shows
      <3>2. QED
        BY <1>1, <2>2, <3>1 DEF Unpacked
    <2>3. CASE k # m /\ k \notin todo
      BY <1>1, <1>3, <2>3 DEF Unpacked
    <2>4. QED
      BY <2>1, <2>2, <2>3
  <1>5. Complete(Unpacked)'
    BY <1>2, <1>3, <1>4 DEF Complete, Unpacked
  <1>6. DOMAIN dir' = Pictures \ todo'
    BY <1>1, <1>3
  <1>7. QED
    BY <1>2, <1>5, <1>6 DEF Whole

LEMMA WholeUnpackXml ==
  ASSUME SkinInv, Whole, UnpackXml
  PROVE  Whole'
  <1>1. /\ pc = "unpack pictures" /\ pc' = "unpack delete" /\ todo = {}
        /\ UNCHANGED <<dir, design, latest>>
    BY DEF UnpackXml, skinBounds
  <1>2. DOMAIN dir = Pictures /\ Complete(Unpacked)
    BY <1>1 DEF Whole
  <1>3. \A m \in Pictures : Unpacked[m] = dir[m]
    BY <1>1 DEF Unpacked
  <1>4. Complete(dir)
    BY <1>2, <1>3 DEF Complete
  <1>5. Complete(dir)'
    BY <1>1, <1>4 DEF Complete
  <1>6. QED
    BY <1>1, <1>5 DEF Whole

LEMMA WholeUnpackEnd ==
  ASSUME SkinInv, Whole, UnpackDelete \/ UnpackLoad
  PROVE  Whole'
  <1>1. /\ pc \in {"unpack delete", "unpack load"}
        /\ pc = "unpack delete" => pc' = "unpack load" /\ png' = NoFile
        /\ pc = "unpack load" => pc' = "idle" /\ png' = png
        /\ UNCHANGED <<hasDir, dir, design, latest>>
    BY DEF UnpackDelete, UnpackLoad, files, skinBounds
  <1>2. hasDir /\ Complete(dir)
    BY <1>1 DEF SkinInv, Phases, Unpacking, Whole
  <1>3. Complete(dir)'
    BY <1>1, <1>2 DEF Complete
  <1>4. png' = NoFile
    BY <1>1 DEF Whole
  <1>5. QED
    BY <1>1, <1>2, <1>3, <1>4 DEF Whole

LEMMA WholePackStart ==
  ASSUME SkinInv, Whole, PackStart
  PROVE  Whole'
  <1>1. /\ pc = "idle" /\ hasDir /\ pc' = "pack pictures"
        /\ drawn' = <<>>
        /\ UNCHANGED <<dir, design, latest>>
    BY DEF PackStart, files
  <1>2. Complete(dir)
    BY <1>1 DEF Whole
  <1>3. DOMAIN dir' = Pictures /\ DOMAIN drawn' = {}
    BY <1>1, <1>2, NoPics DEF Complete
  <1>4. \A m \in Pictures : Drawn'[m] = dir[m]
    BY <1>1, <1>3 DEF Drawn
  <1>5. Complete(Drawn)'
    BY <1>1, <1>2, <1>4 DEF Complete, Drawn
  <1>6. QED
    BY <1>1, <1>3, <1>5 DEF Whole

(* One picture goes from the directory to the one that is drawn.           *)
LEMMA PacksOne ==
  ASSUME SkinInv, PackPicture
  PROVE  \E m \in DOMAIN dir :
           /\ m \in Pictures
           /\ DOMAIN dir' = DOMAIN dir \ {m}
           /\ \A k \in DOMAIN dir \ {m} : dir'[k] = dir[k]
           /\ DOMAIN drawn' = DOMAIN drawn \union {m}
           /\ drawn'[m] = dir[m]
           /\ \A k \in DOMAIN drawn \ {m} : drawn'[k] = drawn[k]
  <1>1. PICK m \in todo : /\ drawn' = Put(drawn, m, dir[m])
                          /\ dir' = Less(dir, m)
    BY DEF PackPicture, Less
  <1>2. m \in DOMAIN dir /\ m \in Pictures
    BY <1>1 DEF PackPicture, SkinInv, SkinTypeOK, Phases
  <1>3. PICK p : p = dir[m]
    OBVIOUS
  <1>4. drawn \in Pics /\ p \in Int
    BY <1>2, <1>3, PicsOf DEF SkinInv, SkinTypes
  <1>5. drawn' = Put(drawn, m, p)
    BY <1>1, <1>3
  <1>6. /\ DOMAIN Put(drawn, m, p) = DOMAIN drawn \union {m}
        /\ Put(drawn, m, p)[m] = p
        /\ \A k \in DOMAIN drawn \ {m} : Put(drawn, m, p)[k] = drawn[k]
    BY <1>2, <1>4, PutPics
  <1>7. DOMAIN dir' = DOMAIN dir \ {m} /\ \A k \in DOMAIN dir \ {m} : dir'[k] = dir[k]
    BY <1>1 DEF Less
  <1>8. QED
    BY <1>2, <1>3, <1>5, <1>6, <1>7

LEMMA WholePackPicture ==
  ASSUME SkinInv, Whole, PackPicture
  PROVE  Whole'
  <1>1. PICK m \in DOMAIN dir :
           /\ m \in Pictures
           /\ DOMAIN dir' = DOMAIN dir \ {m}
           /\ \A k \in DOMAIN dir \ {m} : dir'[k] = dir[k]
           /\ DOMAIN drawn' = DOMAIN drawn \union {m}
           /\ drawn'[m] = dir[m]
           /\ \A k \in DOMAIN drawn \ {m} : drawn'[k] = drawn[k]
    BY PacksOne
  <1>2. pc = "pack pictures" /\ pc' = pc /\ UNCHANGED <<design, latest>>
    BY DEF PackPicture, skinBounds
  <1>3. DOMAIN drawn = Pictures \ DOMAIN dir /\ Complete(Drawn)
    BY <1>2 DEF Whole
  <1>4. DOMAIN dir \subseteq Pictures
    BY DEF SkinInv, SkinTypeOK
  <1>5. DOMAIN drawn' = Pictures \ DOMAIN dir'
    BY <1>1, <1>3, <1>4
  <1>6. \A k \in Pictures : Drawn'[k] = Drawn[k]
    BY <1>1, <1>3 DEF Drawn
  <1>7. Complete(Drawn)'
    BY <1>2, <1>3, <1>6 DEF Complete, Drawn
  <1>8. QED
    BY <1>2, <1>5, <1>7 DEF Whole

LEMMA WholePackRemoveDir ==
  ASSUME SkinInv, Whole, PackRemoveDir
  PROVE  Whole'
  <1>1. /\ pc = "pack pictures" /\ pc' = "pack save" /\ todo = {}
        /\ UNCHANGED <<drawn, design, latest>>
    BY DEF PackRemoveDir, skinBounds
  <1>2. DOMAIN drawn = Pictures /\ Complete(Drawn) /\ DOMAIN dir = {}
    BY <1>1 DEF Whole, SkinInv, Phases
  <1>3. \A m \in Pictures : Drawn[m] = drawn[m]
    BY <1>2 DEF Drawn
  <1>4. Complete(drawn)'
    BY <1>1, <1>2, <1>3 DEF Complete
  <1>5. QED
    BY <1>1, <1>4 DEF Whole

LEMMA WholePackEnd ==
  ASSUME SkinInv, Whole, PackSave \/ PackXml
  PROVE  Whole'
  <1>1. /\ pc \in {"pack save", "pack xml"} /\ pc' \in {"pack xml", "pack load"}
        /\ UNCHANGED <<drawn, design, latest>>
    BY DEF PackSave, PackXml, skinBounds
  <1>2. Complete(drawn)
    BY <1>1 DEF Whole
  <1>3. Complete(drawn)'
    BY <1>1, <1>2 DEF Complete
  <1>4. QED
    BY <1>1, <1>3 DEF Whole

LEMMA WholePackLoad ==
  ASSUME SkinInv, Whole, PackLoad
  PROVE  Whole'
  <1>1. /\ pc = "pack load" /\ pc' = "idle"
        /\ UNCHANGED <<hasDir, png, xml, design, latest>>
    BY DEF PackLoad, files, skinBounds
  <1>2. /\ ~hasDir /\ Drawing /\ Complete(drawn)
        /\ png = [layout |-> packs, pics |-> drawn] /\ xml = skin
    BY <1>1 DEF SkinInv, Phases, Whole
  <1>3. xml # NoFile
    BY <1>2, FilesExist DEF SkinInv, SkinTypes
  <1>4. /\ png.pics = drawn /\ png.layout = packs
        /\ xml.same = design.sameVersion
        /\ \A m \in Pictures : xml.images[m] = packs
    BY <1>2 DEF Drawing, Complete
  <1>5. Complete(png.pics)'
    BY <1>1, <1>2, <1>4 DEF Complete
  <1>6. png # NoFile
    <2>1. DOMAIN png = {"layout", "pics"} /\ DOMAIN NoFile = {"layout"}
      BY <1>2 DEF NoFile
    <2>2. {"layout", "pics"} # {"layout"}
      OBVIOUS
    <2>3. QED
      BY <2>1, <2>2
  <1>7. ~hasDir' /\ png' # NoFile /\ xml' # NoFile
    BY <1>1, <1>2, <1>3, <1>6
  <1>8. xml'.same = design'.sameVersion /\ \A m \in Pictures : xml'.images[m] = png'.layout
    BY <1>1, <1>4
  <1>9. QED
    BY <1>1, <1>5, <1>7, <1>8 DEF Whole

LEMMA WholeEdit ==
  ASSUME SkinInv, Whole, NEW m \in Pictures, Edit(m)
  PROVE  Whole'
  <1>1. /\ pc = "idle" /\ pc' = "idle" /\ m \in DOMAIN dir
        /\ latest' = [latest EXCEPT ![m] = @ + 1]
        /\ dir' = [dir EXCEPT ![m] = latest'[m]]
        /\ UNCHANGED <<hasDir, png, design>>
    BY DEF Edit, memory, work
  <1>2. hasDir
    BY <1>1, NoPics DEF SkinInv, SkinTypeOK
  <1>3. Complete(dir) /\ png = NoFile
    BY <1>1, <1>2 DEF Whole
  <1>4. latest'[m] \in Nat /\ \A k \in Pictures \ {m} : latest'[k] = latest[k]
    BY <1>1 DEF SkinInv, SkinTypeOK
  <1>5. /\ DOMAIN dir' = Pictures /\ dir'[m] = latest'[m]
        /\ \A k \in Pictures \ {m} : dir'[k] = dir[k]
    BY <1>1, <1>3 DEF Complete
  <1>6. Complete(dir)'
    BY <1>1, <1>3, <1>4, <1>5 DEF Complete
  <1>7. QED
    BY <1>1, <1>2, <1>3, <1>6 DEF Whole

(* Between commands the files stay, whatever is loaded.                    *)
LEMMA WholeRest ==
  ASSUME SkinInv, Whole, NoneCut, Reload \/ Crash \/ UNCHANGED skinVars
  PROVE  Whole'
  <1>1. CASE Reload \/ Crash
    <2>1. /\ pc = "idle" /\ pc' = "idle"
          /\ UNCHANGED <<hasDir, dir, png, xml, design, latest>>
      BY <1>1 DEF Reload, Crash, NoneCut, files, work, skinBounds
    <2>2. QED
      BY <2>1 DEF Whole, Complete
  <1>2. CASE UNCHANGED skinVars
    BY <1>2 DEF skinVars, files, memory, work, skinBounds, Whole, Complete, Unpacked,
       Drawn, Shows
  <1>3. QED
    BY <1>1, <1>2

LEMMA WholeStep ==
  ASSUME SkinIInv, [SkinNext]_skinVars
  PROVE  SkinIInv'
  <1>1. SkinInv /\ SkinInv' /\ NoneCut' = NoneCut
    BY InvNext, DesignStays DEF SkinIInv, NoneCut
  <1>2. SUFFICES ASSUME NoneCut PROVE Whole'
    BY <1>1 DEF SkinIInv
  <1>3. Whole
    BY <1>2 DEF SkinIInv
  <1>4. QED
    BY <1>1, <1>2, <1>3, WholeRest, WholeUnpackStart, WholeUnpackPicture, WholeUnpackXml,
       WholeUnpackEnd, WholePackStart, WholePackPicture, WholePackRemoveDir, WholePackEnd,
       WholePackLoad, WholeEdit DEF SkinNext

LEMMA WholeIsKept == SkinIInv => SkinIsKept
  <1> SUFFICES ASSUME SkinIInv, NoneCut
               PROVE  SkinIsRight /\ (design.sameVersion => EditsKept)
    BY DEF SkinIInv, SkinInv, SkinIsKept, NoneCut
  <1>1. SkinInv /\ Whole
    BY DEF SkinIInv
  <1>2. CASE pc = "idle" /\ hasDir
    <2>1. Complete(dir) /\ png = NoFile
      BY <1>1, <1>2 DEF Whole
    <2>2. skin = Resource /\ ui = ResourceUi
      BY <1>1, <1>2, <2>1 DEF SkinInv, Phases, Loaded
    <2>3. SkinIsRight
      BY <2>2, ResourceShows DEF SkinIsRight
    <2>4. design.sameVersion => EditsKept
      BY <2>1 DEF EditsKept, Available, InDir, Complete
    <2>5. QED
      BY <2>3, <2>4
  <1>3. CASE pc = "idle" /\ ~hasDir
    <2>1. SkinIsRight
      BY <1>1, <1>3, WholeShows DEF SkinIsRight
    <2>2. IF png = NoFile THEN \A m \in Pictures : latest[m] = 0 ELSE Complete(png.pics)
      BY <1>1, <1>3 DEF Whole
    <2>3. design.sameVersion => EditsKept
      BY <2>2 DEF EditsKept, Available, InPng, Complete
    <2>4. QED
      BY <2>1, <2>3
  <1>4. CASE pc # "idle"
    BY <1>4 DEF SkinIsRight, EditsKept
  <1>5. QED
    BY <1>2, <1>3, <1>4

(* However the skin is packed, unpacked, edited and loaded again, as long  *)
(* as neither command is cut short, every picture is found, and every edit *)
(* is in the directory or in skin.png where load() takes what pack()       *)
(* saved.                                                                  *)
THEOREM SkinSurvives == SkinSpec => []SkinIsKept
  <1>1. SkinInit => SkinIInv
    <2> SUFFICES ASSUME SkinInit PROVE SkinIInv
      OBVIOUS
    <2>1. Whole
      BY OriginalPics DEF SkinInit, Whole
    <2>2. QED
      BY <2>1, InvInit DEF SkinIInv
  <1>2. SkinIInv /\ [SkinNext]_skinVars => SkinIInv'
    BY WholeStep
  <1>3. QED
    BY <1>1, <1>2, WholeIsKept, PTL DEF SkinSpec
-----------------------------------------------------------------------------
(* The layout.                                                             *)

Rects == [left : Nat, top : Nat, right : Nat, bottom : Nat]

LayoutTypes ==
  /\ pictures \in Seq(Sizes)
  /\ ix \in [1..Len(pictures) -> 1..Len(pictures)]
  /\ n \in 0..Len(pictures)
  /\ sorted \in BOOLEAN
  /\ x \in Nat /\ y \in Nat /\ maxW \in Nat /\ maxH \in Nat
  /\ rects \in Seq(Rects) /\ Len(rects) = n

(* Where the pictures laid out so far are: in the rows above, or in this   *)
(* row to the left of x, and all of them above the end of this row.        *)
Behind(r) ==
  /\ r.right < maxW
  /\ r.bottom <= y + maxH
  /\ r.right < x \/ r.bottom <= y

(* The rectangle of the picture p.                                         *)
Fits(r, p) ==
  r.right = r.left + pictures[p].w /\ r.bottom = r.top + pictures[p].h

LayoutIInv ==
  /\ LayoutTypes
  /\ \A p \in 1..Len(pictures) : \E i \in 1..Len(pictures) : ix[i] = p
  /\ ~sorted => n = 0
  /\ n > 0 => x > 0
  /\ \A i \in 1..n : Behind(rects[i]) /\ Fits(rects[i], ix[i])
  /\ NothingOverlaps

LEMMA LayoutBegins == LayoutInit => LayoutIInv
  <1> SUFFICES ASSUME LayoutInit PROVE LayoutIInv
    OBVIOUS
  <1>1. PICK k \in 0..MaxCount : pictures \in [1..k -> Sizes]
    BY DEF LayoutInit
  <1>2. pictures \in Seq(Sizes) /\ Len(pictures) \in Nat
    BY <1>1, LayoutAssumption DEF LayoutAssumption
  <1>3. rects = <<>> /\ n = 0 /\ x = 1 /\ y = 1 /\ maxW = 0 /\ maxH = 0 /\ sorted = FALSE
    BY DEF LayoutInit
  <1>4. /\ ix \in [1..Len(pictures) -> 1..Len(pictures)]
        /\ \A p \in 1..Len(pictures) : ix[p] = p
    BY DEF LayoutInit
  <1>5. rects \in Seq(Rects) /\ Len(rects) = 0 /\ DOMAIN rects = {}
    BY <1>3
  <1>6. LayoutTypes
    <2>1. n \in 0..Len(pictures) /\ Len(rects) = n
      BY <1>2, <1>3, <1>5
    <2>2. sorted \in BOOLEAN /\ x \in Nat /\ y \in Nat /\ maxW \in Nat /\ maxH \in Nat
      BY <1>3
    <2>3. QED
      BY <1>2, <1>4, <1>5, <2>1, <2>2 DEF LayoutTypes
  <1>7. NothingOverlaps
    BY <1>5 DEF NothingOverlaps
  <1>8. QED
    BY <1>3, <1>4, <1>6, <1>7 DEF LayoutIInv

LEMMA LayoutLens ==
  ASSUME LayoutTypes
  PROVE  /\ Len(pictures) \in Nat /\ n \in Nat /\ n <= Len(pictures)
         /\ ix \in [1..Len(pictures) -> 1..Len(pictures)]
         /\ Len(ix) = Len(pictures)
         /\ DOMAIN rects = 1..n
  BY DEF LayoutTypes

LEMMA LayoutExchange ==
  ASSUME LayoutIInv, Exchange
  PROVE  LayoutIInv'
  <1> DEFINE N == Len(pictures)
  <1>1. PICK j \in 1..(Len(ix) - 1) :
          ix' = [ix EXCEPT ![j] = ix[j + 1], ![j + 1] = ix[j]]
    BY DEF Exchange
  <1>2. ~sorted /\ n = 0 /\ UNCHANGED <<pictures, sorted, n, x, y, maxW, maxH, rects>>
    BY DEF Exchange, LayoutIInv
  <1>3. ix \in [1..N -> 1..N] /\ N \in Nat /\ Len(ix) = N
    BY LayoutLens DEF LayoutIInv
  <1>4. j \in 1..N /\ j + 1 \in 1..N
    BY <1>3
  <1>5. /\ ix' \in [1..N -> 1..N]
        /\ ix'[j] = ix[j + 1] /\ ix'[j + 1] = ix[j]
        /\ \A i \in 1..N : i # j /\ i # j + 1 => ix'[i] = ix[i]
    BY <1>1, <1>3, <1>4
  <1>6. \A p \in 1..N : \E i \in 1..N : ix'[i] = p
    <2> SUFFICES ASSUME NEW p \in 1..N PROVE \E i \in 1..N : ix'[i] = p
      OBVIOUS
    <2>1. PICK i \in 1..N : ix[i] = p
      BY DEF LayoutIInv
    <2>2. QED
      BY <1>4, <1>5, <2>1
  <1>7. LayoutTypes'
    BY <1>2, <1>5 DEF LayoutIInv, LayoutTypes
  <1>8. NothingOverlaps'
    BY <1>2 DEF LayoutIInv, NothingOverlaps, Apart
  <1>9. N' = N /\ n' = 0 /\ 1..n' = {}
    BY <1>2
  <1>10. QED
    BY <1>6, <1>7, <1>8, <1>9 DEF LayoutIInv

(* The sizes Place works with: those of the picture that comes next.       *)
LEMMA NextPicture ==
  ASSUME LayoutTypes, n < Len(ix)
  PROVE  /\ n + 1 \in 1..Len(pictures)
         /\ ix[n + 1] \in 1..Len(pictures)
         /\ pictures[ix[n + 1]].w \in Nat \ {0}
         /\ pictures[ix[n + 1]].h \in Nat \ {0}
  <1>1. n \in Nat /\ Len(pictures) \in Nat /\ Len(ix) = Len(pictures)
    BY DEF LayoutTypes
  <1>2. n + 1 \in 1..Len(pictures)
    BY <1>1
  <1>3. ix[n + 1] \in 1..Len(pictures)
    BY <1>2 DEF LayoutTypes
  <1>4. pictures[ix[n + 1]] \in Sizes
    BY <1>3 DEF LayoutTypes
  <1>5. QED
    BY <1>2, <1>3, <1>4, LayoutAssumption DEF LayoutAssumption

LEMMA LayoutPlace ==
  ASSUME LayoutIInv, Place
  PROVE  LayoutIInv'
  <1>1. /\ sorted /\ n < Len(ix) /\ n' = n + 1
        /\ UNCHANGED <<pictures, ix, sorted>>
    BY DEF Place
  <1>2. PICK w, h : w = pictures[ix[n + 1]].w /\ h = pictures[ix[n + 1]].h
    OBVIOUS
  <1>3. PICK x0, y0 :
          /\ \/ x > 0 /\ x + w > MaxWidth /\ x0 = 0 /\ y0 = y + maxH
                /\ maxW' = Larger(Larger(maxW, x + 1), x' + 1)
             \/ x0 = x /\ y0 = y /\ maxW' = Larger(maxW, x' + 1)
          /\ rects' = Append(rects, [left |-> x0, top |-> y0,
                                     right |-> x0 + w, bottom |-> y0 + h])
          /\ x' = x0 + w + 1 /\ y' = y0 /\ maxH' = Larger(maxH, h + 1)
    BY <1>2 DEF Place
  <1>4. n + 1 \in 1..Len(pictures) /\ w \in Nat \ {0} /\ h \in Nat \ {0}
    BY <1>1, <1>2, NextPicture DEF LayoutIInv
  <1>5. x \in Nat /\ y \in Nat /\ maxW \in Nat /\ maxH \in Nat
    BY DEF LayoutIInv, LayoutTypes
  <1>6. /\ x0 \in Nat /\ y0 \in Nat /\ y <= y0
        /\ \/ x0 = 0 /\ y0 = y + maxH
           \/ x0 = x /\ y0 = y
    BY <1>3, <1>5
  <1>7. /\ x' \in Nat /\ y' \in Nat /\ maxW' \in Nat /\ maxH' \in Nat
        /\ x' = x0 + w + 1 /\ y' = y0
        /\ maxW <= maxW' /\ maxH <= maxH'
        /\ x0 + w < maxW' /\ h < maxH'
    BY <1>3, <1>4, <1>5, <1>6 DEF Larger
  <1>8. PICK r : r = [left |-> x0, top |-> y0, right |-> x0 + w, bottom |-> y0 + h]
    OBVIOUS
  <1>9. /\ r \in Rects
        /\ r.left = x0 /\ r.top = y0 /\ r.right = x0 + w /\ r.bottom = y0 + h
    BY <1>4, <1>6, <1>8 DEF Rects
  <1>10. rects \in Seq(Rects) /\ Len(rects) = n /\ n \in Nat
    BY DEF LayoutIInv, LayoutTypes
  <1>11. rects' = Append(rects, r)
    BY <1>3, <1>8
  <1>12. /\ rects' \in Seq(Rects) /\ Len(rects') = n + 1
         /\ rects'[n + 1] = r
         /\ \A i \in 1..n : rects'[i] = rects[i]
         /\ DOMAIN rects' = 1..(n + 1)
    BY <1>9, <1>10, <1>11
  <1>13. LayoutTypes'
    <2>1. LayoutTypes
      BY DEF LayoutIInv
    <2>2. n' \in 0..Len(pictures) /\ Len(rects') = n'
      BY <1>1, <1>4, <1>10, <1>12
    <2>3. QED
      BY <1>1, <1>7, <1>12, <2>1, <2>2 DEF LayoutTypes
  <1>14. \A i \in 1..n : /\ rects[i] \in Rects
                         /\ Behind(rects[i]) /\ Fits(rects[i], ix[i])
    BY <1>10 DEF LayoutIInv
  <1>15. ASSUME NEW i \in 1..n
         PROVE  /\ Behind(rects[i])' /\ Fits(rects[i], ix[i])'
                /\ Apart(rects[i], r) /\ Apart(r, rects[i])
    <2>1. PICK q \in Rects : q = rects[i]
      BY <1>14
    <2>2. q.right \in Nat /\ q.bottom \in Nat
      BY DEF Rects
    <2>3. q.right < maxW /\ q.bottom <= y + maxH /\ (q.right < x \/ q.bottom <= y)
      BY <1>14, <2>1 DEF Behind
    <2>4. q.right <= x0 \/ q.bottom <= y0
      BY <1>5, <1>6, <2>2, <2>3
    <2>5. Apart(q, r) /\ Apart(r, q)
      BY <1>9, <2>4 DEF Apart
    <2>6. /\ q.right < maxW' /\ q.bottom <= y' + maxH'
          /\ q.right < x' \/ q.bottom <= y'
      BY <1>4, <1>5, <1>6, <1>7, <2>2, <2>3
    <2>7. rects'[i] = q /\ ix'[i] = ix[i] /\ pictures' = pictures
      BY <1>1, <1>12, <2>1
    <2>8. Behind(rects[i])'
      BY <2>6, <2>7 DEF Behind
    <2>9. Fits(rects[i], ix[i])'
      BY <1>14, <2>1, <2>7 DEF Fits
    <2>10. QED
      BY <2>1, <2>5, <2>8, <2>9
  <1>16. ASSUME NEW i, i = n + 1
         PROVE  Behind(rects[i])' /\ Fits(rects[i], ix[i])'
    <2>1. rects'[i] = r /\ ix' = ix /\ pictures' = pictures
      BY <1>1, <1>12, <1>16
    <2>2. r.right < maxW' /\ r.bottom <= y' + maxH' /\ r.right < x'
      <3>1. x0 + w < maxW' /\ x0 + w < x'
        BY <1>4, <1>6, <1>7
      <3>2. y0 + h <= y' + maxH'
        <4>1. h \in Nat /\ y0 \in Nat /\ maxH' \in Nat /\ h < maxH' /\ y' = y0
          BY <1>4, <1>6, <1>7
        <4>2. \A a, b, k \in Nat : a < b => k + a <= k + b
          OBVIOUS
        <4>3. y0 + h <= y0 + maxH'
          BY <4>1, <4>2
        <4>4. QED
          BY <4>1, <4>3
      <3>3. QED
        BY <1>9, <3>1, <3>2
    <2>3. r.right = r.left + w /\ r.bottom = r.top + h
      BY <1>9
    <2>4. QED
      BY <1>2, <1>16, <2>1, <2>2, <2>3 DEF Behind, Fits
  <1>17. NothingOverlaps'
    <2> SUFFICES ASSUME NEW i \in 1..(n + 1), NEW j \in 1..(n + 1), i # j
                 PROVE  Apart(rects'[i], rects'[j])
      BY <1>12 DEF NothingOverlaps, Apart
    <2>1. CASE i = n + 1
      BY <1>10, <1>12, <1>15, <2>1
    <2>2. CASE j = n + 1
      BY <1>10, <1>12, <1>15, <2>2
    <2>3. CASE i \in 1..n /\ j \in 1..n
      BY <1>10, <1>12, <2>3 DEF LayoutIInv, NothingOverlaps
    <2>4. QED
      BY <1>10, <2>1, <2>2, <2>3
  <1>18. ~sorted' => n' = 0
    BY <1>1
  <1>19. n' > 0 => x' > 0
    BY <1>4, <1>6, <1>7
  <1>20. \A i \in 1..n' : Behind(rects[i])' /\ Fits(rects[i], ix[i])'
    <2> SUFFICES ASSUME NEW i \in 1..(n + 1)
                 PROVE  Behind(rects[i])' /\ Fits(rects[i], ix[i])'
      BY <1>1
    <2>1. i \in 1..n \/ i = n + 1
      BY <1>10
    <2>2. QED
      BY <1>15, <1>16, <2>1
  <1>21. \A p \in 1..Len(pictures') : \E i \in 1..Len(pictures') : ix'[i] = p
    BY <1>1 DEF LayoutIInv
  <1>22. QED
    BY <1>13, <1>17, <1>18, <1>19, <1>20, <1>21 DEF LayoutIInv

LEMMA LayoutStep ==
  ASSUME LayoutIInv, [LayoutNext]_layoutVars
  PROVE  LayoutIInv'
  <1>1. CASE SortEnds
    <2>1. ~sorted /\ n = 0 /\ sorted' = TRUE
          /\ UNCHANGED <<pictures, ix, n, x, y, maxW, maxH, rects>>
      BY <1>1 DEF SortEnds, LayoutIInv
    <2>2. LayoutTypes'
      BY <2>1 DEF LayoutIInv, LayoutTypes
    <2>3. NothingOverlaps'
      BY <2>1 DEF LayoutIInv, NothingOverlaps, Apart
    <2>4. 1..n' = {} /\ ~(n' > 0)
      BY <2>1
    <2>5. \A p \in 1..Len(pictures') : \E i \in 1..Len(pictures') : ix'[i] = p
      BY <2>1 DEF LayoutIInv
    <2>6. QED
      BY <2>1, <2>2, <2>3, <2>4, <2>5 DEF LayoutIInv
  <1>2. CASE UNCHANGED layoutVars
    BY <1>2 DEF layoutVars, LayoutIInv, LayoutTypes, Behind, Fits, NothingOverlaps, Apart
  <1>3. QED
    BY <1>1, <1>2, LayoutExchange, LayoutPlace DEF LayoutNext

LEMMA LayoutFits == LayoutIInv => NothingOverlaps /\ AllInside /\ AllPlaced
  <1> SUFFICES ASSUME LayoutIInv, n = Len(ix)
               PROVE  /\ \A i \in DOMAIN rects :
                           rects[i].right <= Width /\ rects[i].bottom <= Height
                      /\ AllPlaced
    BY DEF LayoutIInv, AllInside, AllPlaced
  <1>1. LayoutTypes /\ DOMAIN rects = 1..n /\ n = Len(pictures) /\ n \in Nat
    BY LayoutLens DEF LayoutIInv
  <1>2. ASSUME NEW i \in 1..n
        PROVE  rects[i].right <= Width /\ rects[i].bottom <= Height
    <2>1. PICK r \in Rects : r = rects[i]
      BY <1>1 DEF LayoutTypes
    <2>2. r.right < maxW /\ r.bottom <= y + maxH /\ x > 0
      BY <1>1, <2>1 DEF LayoutIInv, Behind
    <2>3. r.right \in Nat /\ maxW \in Nat
      BY <1>1 DEF Rects, LayoutTypes
    <2>4. QED
      BY <2>1, <2>2, <2>3 DEF Width, Height
  <1>3. AllPlaced
    <2>0. DOMAIN pictures = 1..n
      BY <1>1 DEF LayoutTypes
    <2> SUFFICES ASSUME NEW p \in 1..n
                 PROVE  \E i \in DOMAIN rects : ix[i] = p /\ Fits(rects[i], p)
      BY <2>0 DEF AllPlaced, Fits
    <2>1. PICK i \in 1..n : ix[i] = p
      BY <1>1 DEF LayoutIInv
    <2>2. Fits(rects[i], ix[i])
      BY DEF LayoutIInv
    <2>3. QED
      BY <1>1, <2>1, <2>2
  <1>4. QED
    BY <1>1, <1>2, <1>3

(* However many pictures there are and whatever their sizes, also wider    *)
(* than a row: pack() draws every one of them, at its size, inside         *)
(* skin.png and over no other.                                             *)
THEOREM LayoutIsRight ==
  LayoutSpec => [](NothingOverlaps /\ AllInside /\ AllPlaced)
  <1>1. LayoutInit => LayoutIInv
    BY LayoutBegins
  <1>2. LayoutIInv /\ [LayoutNext]_layoutVars => LayoutIInv'
    BY LayoutStep
  <1>3. QED
    BY <1>1, <1>2, LayoutFits, PTL DEF LayoutSpec

-----------------------------------------------------------------------------
(***************************************************************************)
(* The folder iterator: a path of a file that stays where it was is in one *)
(* place - it begins with a path of the queue, it goes through the open    *)
(* search, which has its next entry still to return or holds it, or it has *)
(* been returned.                                                          *)
(***************************************************************************)
Routes == Seq(Entries \cup {Base})
Leads(p, s) == Len(p) < Len(s) /\ \A i \in 1..Len(p) : p[i] = s[i]
Stable(s) == IsPath(s) /\ s[Len(s)] \in Files /\ \A i \in 2..Len(s) : s[i] \notin moved

InQueue(s) == \E i \in 1..Len(queue) : Leads(queue[i], s)
Ahead(s) == s[Len(folder) + 1] \notin hff.seen \/ (valid /\ fd = s[Len(folder) + 1])
OnTheWay(s) == hff # NoSearch /\ Leads(folder, s) /\ Ahead(s)
IsBack(s) == \E i \in 1..Len(returned) : returned[i] = s

QueuedOnce(s) == \A i, j \in 1..Len(queue) : Leads(queue[i], s) /\ Leads(queue[j], s) => i = j
BackOnce(s) == \A i, j \in 1..Len(returned) : returned[i] = s /\ returned[j] = s => i = j
OnePlace(s) ==
  /\ QueuedOnce(s) /\ BackOnce(s)
  /\ InQueue(s) => ~OnTheWay(s) /\ ~IsBack(s)
  /\ OnTheWay(s) => ~IsBack(s)
  /\ at # "over" => InQueue(s) \/ OnTheWay(s) \/ IsBack(s)

FolderTypes ==
  /\ parent \in [Entries -> Folders \cup {Base, Gone}] /\ moved \subseteq Entries
  /\ queue \in Seq(Routes) /\ folder \in Routes /\ returned \in Seq(Routes)
  /\ \A i \in 1..Len(queue) : queue[i] # <<>> /\ queue[i] \in Seq(Folders \cup {Base})
  /\ folder \in Seq(Folders \cup {Base})
  /\ hff \in [of : Folders \cup {Base, Gone}, seen : SUBSET (Entries \cup {Dot})]
  /\ fd \in Entries \cup {Dot} /\ valid \in BOOLEAN
  /\ at \in {"ready", "outer", "inner", "over"}

(* What agrees with the place in getNext().                                *)
SearchOK ==
  /\ at \in {"outer", "over"} => hff = NoSearch
  /\ at = "inner" => hff # NoSearch
  /\ at = "ready" /\ valid => hff # NoSearch /\ fd \in Files
  /\ at = "ready" /\ ~valid => hff = NoSearch /\ queue = <<>>
  /\ hff # NoSearch => folder # <<>> /\ hff.of = folder[Len(folder)]
  /\ hff # NoSearch /\ valid => fd \in hff.seen

(* What is not gone is below Base, and what is in a folder that was moved  *)
(* was moved with it.                                                      *)
TreeOK ==
  /\ \A e \in Entries : parent[e] # Gone => e \in Under(Base)
  /\ \A e \in Entries : parent[e] \in moved => e \in moved

FolderBase == FolderTypes /\ SearchOK /\ TreeOK
FolderInv == FolderBase /\ \A s \in Routes : Stable(s) => OnePlace(s)

LEMMA FolderNames ==
  /\ Folders \cap Files = {} /\ Base # Gone /\ Entries = Folders \cup Files
  /\ Base \notin Entries /\ Gone \notin Entries /\ Dot \notin Entries
BY FolderAssumption DEF Entries

(* The least set of Under is closed, and in every closed set.              *)
Closed(S, d) == \A c \in Entries : parent[c] \in S \cup {d} => c \in S

LEMMA UnderIsClosed ==
  ASSUME NEW d PROVE Closed(Under(d), d) /\ Under(d) \subseteq Entries
<1> SUFFICES ASSUME NEW c \in Entries, parent[c] \in Under(d) \cup {d},
                    NEW S \in SUBSET Entries, Closed(S, d)
             PROVE  c \in S
  BY DEF Under, Closed
<1>1. ASSUME parent[c] \in Under(d) PROVE parent[c] \in S
  <2>1. PICK u : u = parent[c]
    OBVIOUS
  <2>2. u \in Under(d)
    BY <1>1, <2>1
  <2>3. u \in S
    BY <2>2 DEF Under, Closed
  <2> QED
    BY <2>1, <2>3
<1> QED
  BY <1>1 DEF Closed

LEMMA UnderIsLeast ==
  ASSUME NEW d, NEW S \in SUBSET Entries, Closed(S, d) PROVE Under(d) \subseteq S
BY DEF Under, Closed

(* Between two stable paths there is no difference to see.                 *)
LEMMA StableRoute ==
  ASSUME FolderTypes, NEW s \in Routes, Stable(s)
  PROVE  /\ Len(s) \in Nat /\ Len(s) > 1 /\ s[1] = Base
         /\ \A i \in 2..Len(s) : s[i] \in Entries /\ parent[s[i]] = s[i - 1] /\ s[i] \notin moved
         /\ \A i \in 1..(Len(s) - 1) : s[i] \notin Files
         /\ s[Len(s)] \in Files
<1>1. Len(s) \in Nat /\ s # <<>> /\ s[1] = Base /\ s[Len(s)] \in Files
      /\ \A i \in 2..Len(s) : s[i] \in Entries /\ parent[s[i]] = s[i - 1] /\ s[i] \notin moved
  BY DEF Stable, IsPath, Routes
<1>2. Len(s) > 0
  BY <1>1 DEF Routes
<1>3. Len(s) # 1
  BY <1>1, FolderNames
<1>4. ASSUME NEW i \in 1..(Len(s) - 1) PROVE s[i] \notin Files
  <2>1. i + 1 \in 2..Len(s) /\ (i + 1) - 1 = i
    BY <1>1
  <2>2. s[i] = parent[s[i + 1]] /\ s[i + 1] \in Entries
    BY <1>1, <2>1
  <2>3. s[i] \in Folders \cup {Base, Gone}
    BY <2>2 DEF FolderTypes
  <2> QED
    BY <2>3, FolderNames
<1>5. Len(s) > 1
  BY <1>1, <1>2, <1>3
<1>6. \A i \in 1..(Len(s) - 1) : s[i] \notin Files
  BY <1>4
<1> QED
  BY <1>1, <1>5, <1>6, Zenon

(* A step that leaves all but the place alone.                             *)
LEMMA FoundKeeps == ASSUME FolderInv, Found PROVE FolderInv'
<1>1. /\ at = "inner" /\ at' = "ready" /\ valid /\ fd \in Files
      /\ UNCHANGED <<parent, moved, changes, queue, folder, hff, fd, valid, returned>>
  BY DEF Found, IsFile, fsVars
<1>2. FolderBase'
  BY <1>1 DEF FolderInv, FolderBase, FolderTypes, SearchOK, TreeOK, Under
<1>3. ASSUME NEW s \in Routes, Stable(s)' PROVE OnePlace(s)'
  <2>1. Stable(s) /\ OnePlace(s)
    BY <1>1, <1>3 DEF Stable, IsPath, FolderInv
  <2> QED
    BY <1>1, <2>1 DEF OnePlace, QueuedOnce, BackOnce, InQueue, OnTheWay, Ahead, IsBack
<1> QED
  BY <1>2, <1>3 DEF FolderInv, Routes

LEMMA NoMoreKeeps == ASSUME FolderInv, NoMore PROVE FolderInv'
<1>1. /\ at = "outer" /\ at' = "ready" /\ ~valid' /\ hff = NoSearch /\ queue = <<>>
      /\ valid' \in BOOLEAN
      /\ UNCHANGED <<parent, moved, changes, queue, folder, hff, fd, returned>>
  BY DEF NoMore, fsVars
<1>2. FolderBase'
  BY <1>1 DEF FolderInv, FolderBase, FolderTypes, SearchOK, TreeOK, Under
<1>3. ASSUME NEW s \in Routes, Stable(s)' PROVE OnePlace(s)'
  <2>1. Stable(s) /\ OnePlace(s)
    BY <1>1, <1>3 DEF Stable, IsPath, FolderInv
  <2> QED
    BY <1>1, <2>1 DEF OnePlace, QueuedOnce, BackOnce, InQueue, OnTheWay, Ahead, IsBack
<1> QED
  BY <1>2, <1>3 DEF FolderInv, Routes

LEMMA DeleteIteratorKeeps == ASSUME FolderInv, DeleteIterator PROVE FolderInv'
<1>1. /\ at' = "over" /\ hff' = NoSearch
      /\ UNCHANGED <<parent, moved, changes, queue, folder, fd, valid, returned>>
  BY DEF DeleteIterator, fsVars
<1>2. NoSearch \in [of : Folders \cup {Base, Gone}, seen : SUBSET (Entries \cup {Dot})]
  BY DEF NoSearch
<1>3. FolderBase'
  BY <1>1, <1>2 DEF FolderInv, FolderBase, FolderTypes, SearchOK, TreeOK, Under
<1>4. ASSUME NEW s \in Routes, Stable(s)' PROVE OnePlace(s)'
  <2>1. Stable(s) /\ OnePlace(s)
    BY <1>1, <1>4 DEF Stable, IsPath, FolderInv
  <2> QED
    BY <1>1, <2>1 DEF OnePlace, QueuedOnce, BackOnce, InQueue, OnTheWay, Ahead, IsBack
<1> QED
  BY <1>3, <1>4 DEF FolderInv, Routes


(* The search returns a file: the paths through it end there.              *)
LEMMA GetFileKeeps == ASSUME FolderInv, GetFile PROVE FolderInv'
<1> DEFINE r == Append(folder, fd)
<1>1. /\ at = "ready" /\ valid /\ at' = "inner" /\ ~valid' /\ valid' \in BOOLEAN
      /\ returned' = Append(returned, r)
      /\ UNCHANGED <<parent, moved, changes, queue, folder, hff, fd>>
  BY DEF GetFile, fsVars
<1>2. FolderTypes /\ SearchOK /\ TreeOK
  BY DEF FolderInv, FolderBase
<1>3. hff # NoSearch /\ fd \in Files /\ fd \in hff.seen
  BY <1>1, <1>2 DEF SearchOK
<1>4. r \in Routes /\ Len(r) = Len(folder) + 1 /\ Len(folder) \in Nat
      /\ r[Len(folder) + 1] = fd /\ \A i \in 1..Len(folder) : r[i] = folder[i]
  BY <1>2, <1>3, FolderNames DEF FolderTypes, Routes
<1>5. returned' \in Seq(Routes) /\ Len(returned') = Len(returned) + 1 /\ Len(returned) \in Nat
      /\ returned'[Len(returned) + 1] = r
      /\ \A i \in 1..Len(returned) : returned'[i] = returned[i]
  BY <1>1, <1>2, <1>4 DEF FolderTypes
<1> HIDE DEF r
<1>6. FolderBase'
  <2>1. FolderTypes'
    BY <1>1, <1>2, <1>5 DEF FolderTypes
  <2>2. SearchOK'
    BY <1>1, <1>2, <1>3 DEF SearchOK
  <2>3. TreeOK'
    BY <1>1, <1>2 DEF TreeOK, Under
  <2> QED
    BY <2>1, <2>2, <2>3 DEF FolderBase
<1>7. ASSUME NEW s \in Routes, Stable(s)' PROVE OnePlace(s)'
  <2>1. Stable(s) /\ OnePlace(s)
    BY <1>1, <1>7 DEF Stable, IsPath, FolderInv
  <2>2. /\ Len(s) \in Nat /\ Len(s) > 1
        /\ \A i \in 1..(Len(s) - 1) : s[i] \notin Files
    BY <2>1, <1>2, StableRoute
  <2>3. r = s <=> Leads(folder, s) /\ s[Len(folder) + 1] = fd
    <3>1. ASSUME r = s PROVE Leads(folder, s) /\ s[Len(folder) + 1] = fd
      BY <3>1, <1>4 DEF Leads
    <3>2. ASSUME Leads(folder, s), s[Len(folder) + 1] = fd PROVE r = s
      <4>1. Len(s) = Len(folder) + 1
        BY <3>2, <2>2, <1>3, <1>4 DEF Leads
      <4> QED
        BY <4>1, <3>2, <1>4 DEF Leads, Routes
    <3> QED
      BY <3>1, <3>2
  <2>4. CASE r = s
    <3>1. OnTheWay(s)
      BY <2>3, <2>4, <1>1, <1>3 DEF OnTheWay, Ahead
    <3>2. ~InQueue(s) /\ ~IsBack(s) /\ QueuedOnce(s)
      BY <3>1, <2>1 DEF OnePlace
    <3>3. ~OnTheWay(s)'
      BY <2>3, <2>4, <1>1, <1>3 DEF OnTheWay, Ahead
    <3>4. ~InQueue(s)' /\ QueuedOnce(s)'
      BY <3>2, <1>1 DEF InQueue, QueuedOnce
    <3>5. IsBack(s)'
      BY <1>5, <2>4 DEF IsBack
    <3>6. BackOnce(s)'
      BY <1>5, <2>4, <3>2 DEF BackOnce, IsBack
    <3> QED
      BY <3>3, <3>4, <3>5, <3>6 DEF OnePlace
  <2>5. CASE r # s
    <3>1. OnTheWay(s)' <=> OnTheWay(s)
      BY <2>3, <2>5, <1>1 DEF OnTheWay, Ahead, Leads
    <3>2. (InQueue(s)' <=> InQueue(s)) /\ (QueuedOnce(s)' <=> QueuedOnce(s))
      BY <1>1 DEF InQueue, QueuedOnce
    <3>3. IsBack(s)' <=> IsBack(s)
      BY <1>5, <2>5 DEF IsBack
    <3>4. BackOnce(s)'
      BY <1>5, <2>1, <2>5 DEF BackOnce, OnePlace
    <3> QED
      BY <3>1, <3>2, <3>3, <3>4, <2>1, <1>1 DEF OnePlace
  <2> QED
    BY <2>4, <2>5
<1> QED
  BY <1>6, <1>7 DEF FolderInv, Routes

(* A folder the search held goes to the queue, and the paths through it.   *)
LEMMA FindNextKeeps == ASSUME FolderInv, FindNext PROVE FolderInv'
<1> DEFINE Held == valid /\ fd # Dot
           q == Append(folder, fd)
<1>1. /\ at = "inner" /\ ~IsFile
      /\ UNCHANGED <<parent, moved, changes, folder, returned>>
  BY DEF FindNext, fsVars
<1>2. FolderTypes /\ SearchOK /\ TreeOK
  BY DEF FolderInv, FolderBase
<1>3. /\ hff # NoSearch /\ folder # <<>> /\ hff.of = folder[Len(folder)]
      /\ valid => fd \in hff.seen
      /\ Held => fd \in Folders
  BY <1>1, <1>2, FolderNames DEF SearchOK, IsFile, FolderTypes
<1>4. /\ Len(folder) \in Nat /\ Len(folder) > 0 /\ Len(q) = Len(folder) + 1
      /\ \A i \in 1..Len(folder) : q[i] = folder[i]
      /\ q[Len(folder) + 1] = fd
      /\ Held => q \in Routes /\ q # <<>> /\ q \in Seq(Folders \cup {Base})
  <2>1. Len(folder) \in Nat /\ Len(folder) > 0 /\ folder \in Seq(Folders \cup {Base})
    BY <1>2, <1>3 DEF FolderTypes
  <2>2. /\ Len(q) = Len(folder) + 1 /\ q[Len(folder) + 1] = fd
        /\ \A i \in 1..Len(folder) : q[i] = folder[i]
    BY <2>1
  <2>3. ASSUME Held PROVE q \in Routes /\ q # <<>> /\ q \in Seq(Folders \cup {Base})
    <3>1. fd \in Folders
      BY <1>3, <2>3
    <3>2. q \in Seq(Folders \cup {Base})
      BY <2>1, <3>1
    <3>3. Folders \cup {Base} \subseteq Entries \cup {Base}
      BY FolderNames
    <3>4. q \in Seq(Entries \cup {Base})
      BY <2>1, <3>1, <3>3
    <3> QED
      BY <2>1, <2>2, <3>2, <3>4 DEF Routes
  <2> HIDE DEF q
  <2> QED
    BY <2>1, <2>2, <2>3
<1>5. queue' = IF Held THEN Append(queue, q) ELSE queue
  BY DEF FindNext
<1> HIDE DEF q, Held
<1>6. /\ Len(queue) \in Nat
      /\ Held => /\ Len(queue') = Len(queue) + 1 /\ queue'[Len(queue) + 1] = q
                 /\ \A i \in 1..Len(queue) : queue'[i] = queue[i]
                 /\ queue' \in Seq(Routes)
      /\ ~Held => queue' = queue
  BY <1>2, <1>4, <1>5 DEF FolderTypes
<1>7. \/ /\ Left(hff) = {} /\ ~valid' /\ valid' \in BOOLEAN /\ hff' = NoSearch
         /\ at' = "outer" /\ fd' = fd
      \/ \E e \in Left(hff) :
            /\ hff' = [hff EXCEPT !.seen = @ \cup {e}]
            /\ fd' = e /\ valid' /\ valid' \in BOOLEAN /\ at' = at
  BY DEF FindNext
<1>8. ASSUME NEW e \in Left(hff), hff' = [hff EXCEPT !.seen = @ \cup {e}]
      PROVE  /\ e \in Entries \cup {Dot} /\ e \notin hff.seen
             /\ hff'.of = hff.of /\ hff'.seen = hff.seen \cup {e} /\ hff' # NoSearch
             /\ hff' \in [of : Folders \cup {Base, Gone}, seen : SUBSET (Entries \cup {Dot})]
  BY <1>8, <1>2 DEF Left, FolderTypes, NoSearch
<1>9. FolderBase'
  <2>1. /\ queue' \in Seq(Routes)
        /\ \A i \in 1..Len(queue') : queue'[i] # <<>> /\ queue'[i] \in Seq(Folders \cup {Base})
    <3>1. CASE Held
      <4>1. queue' \in Seq(Routes) /\ Len(queue') = Len(queue) + 1
        BY <3>1, <1>6
      <4>2. ASSUME NEW i \in 1..Len(queue')
            PROVE  queue'[i] # <<>> /\ queue'[i] \in Seq(Folders \cup {Base})
        <5>1. CASE i = Len(queue) + 1
          BY <5>1, <3>1, <1>4, <1>6
        <5>2. CASE i \in 1..Len(queue)
          <6>1. queue'[i] = queue[i]
            BY <5>2, <3>1, <1>6
          <6>2. queue[i] # <<>> /\ queue[i] \in Seq(Folders \cup {Base})
            BY <5>2, <1>2 DEF FolderTypes
          <6> QED
            BY <6>1, <6>2
        <5> QED
          BY <4>1, <1>6, <5>1, <5>2
      <4> QED
        BY <4>1, <4>2
    <3>2. CASE ~Held
      BY <3>2, <1>2, <1>6 DEF FolderTypes
    <3> QED
      BY <3>1, <3>2
  <2>2. NoSearch \in [of : Folders \cup {Base, Gone}, seen : SUBSET (Entries \cup {Dot})]
    BY DEF NoSearch
  <2>3. FolderTypes'
    BY <1>1, <1>2, <1>7, <1>8, <2>1, <2>2 DEF FolderTypes
  <2>4. SearchOK'
    BY <1>1, <1>2, <1>3, <1>7, <1>8 DEF SearchOK
  <2>5. TreeOK'
    BY <1>1, <1>2 DEF TreeOK, Under
  <2> QED
    BY <2>3, <2>4, <2>5 DEF FolderBase
<1>10. ASSUME NEW s \in Routes, Stable(s)' PROVE OnePlace(s)'
  <2> DEFINE H == Held /\ Leads(folder, s) /\ s[Len(folder) + 1] = fd
  <2>1. Stable(s) /\ OnePlace(s)
    BY <1>1, <1>10 DEF Stable, IsPath, FolderInv
  <2>2. /\ Len(s) \in Nat /\ Len(s) > 1 /\ s[Len(s)] \in Files
        /\ \A i \in 2..Len(s) : s[i] \in Entries /\ parent[s[i]] = s[i - 1]
    BY <2>1, <1>2, StableRoute
  <2>3. Held => (Leads(q, s) <=> H)
    <3>1. ASSUME Held, Leads(q, s) PROVE H
      BY <3>1, <1>4 DEF Leads
    <3>2. ASSUME H PROVE Leads(q, s)
      <4>1. s[Len(folder) + 1] # s[Len(s)]
        BY <3>2, <1>3, <2>2, FolderNames
      <4> QED
        BY <4>1, <3>2, <1>4, <2>2 DEF Leads
    <3> QED
      BY <3>1, <3>2
  <2>4. Leads(folder, s) => /\ s[Len(folder) + 1] \in Entries
                            /\ parent[s[Len(folder) + 1]] = hff.of
    <3> SUFFICES ASSUME Leads(folder, s)
                 PROVE  s[Len(folder) + 1] \in Entries /\ parent[s[Len(folder) + 1]] = hff.of
      OBVIOUS
    <3>1. Len(folder) + 1 \in 2..Len(s) /\ (Len(folder) + 1) - 1 = Len(folder)
      BY <1>4, <2>2 DEF Leads
    <3> QED
      BY <3>1, <2>2, <1>3, <1>4 DEF Leads
  <2>5. /\ OnTheWay(s) <=> OnTheWay(s)' \/ H
        /\ ~(OnTheWay(s)' /\ H)
    <3>1. CASE Left(hff) = {} /\ hff' = NoSearch
      <4>1. Leads(folder, s) => s[Len(folder) + 1] \in hff.seen
        BY <3>1, <2>4 DEF Left
      <4>2. ~OnTheWay(s)'
        BY <3>1 DEF OnTheWay
      <4>3. OnTheWay(s) <=> H
        BY <4>1, <1>3, <2>4, FolderNames DEF OnTheWay, Ahead, Held
      <4> QED
        BY <4>2, <4>3
    <3>2. ASSUME NEW e \in Left(hff), hff' = [hff EXCEPT !.seen = @ \cup {e}],
                 fd' = e, valid'
          PROVE  /\ OnTheWay(s) <=> OnTheWay(s)' \/ H
                 /\ ~(OnTheWay(s)' /\ H)
      <4>1. OnTheWay(s)' <=> Leads(folder, s) /\ s[Len(folder) + 1] \notin hff.seen
        BY <3>2, <1>1, <1>8 DEF OnTheWay, Ahead, Leads
      <4> QED
        BY <4>1, <1>3, <2>4, FolderNames DEF OnTheWay, Ahead, Held
    <3> QED
      BY <3>1, <3>2, <1>7
  <2>6. QueuedOnce(s) /\ BackOnce(s) /\ (InQueue(s) => ~OnTheWay(s) /\ ~IsBack(s))
        /\ (OnTheWay(s) => ~IsBack(s)) /\ (InQueue(s) \/ OnTheWay(s) \/ IsBack(s))
    BY <2>1, <1>1 DEF OnePlace
  <2>7. (InQueue(s)' <=> InQueue(s) \/ H) /\ QueuedOnce(s)'
    <3>1. CASE Held
      <4>1. InQueue(s)' <=> InQueue(s) \/ H
        BY <3>1, <1>6, <2>3 DEF InQueue
      <4>2. H => ~InQueue(s)
        BY <2>5, <2>6
      <4>3. QueuedOnce(s)'
        BY <3>1, <4>2, <1>6, <2>3, <2>6 DEF QueuedOnce, InQueue
      <4> QED
        BY <4>1, <4>3
    <3>2. CASE ~Held
      BY <3>2, <1>6, <2>6 DEF InQueue, QueuedOnce
    <3> QED
      BY <3>1, <3>2
  <2>8. (IsBack(s)' <=> IsBack(s)) /\ BackOnce(s)'
    BY <1>1, <2>6 DEF IsBack, BackOnce
  <2> HIDE DEF H
  <2> QED
    BY <2>5, <2>6, <2>7, <2>8 DEF OnePlace
<1> QED
  BY <1>9, <1>10 DEF FolderInv, Routes

(* The head of the queue is opened if it is where it was: that of a path   *)
(* that did not change is.                                                 *)
LEMMA FindFirstKeeps == ASSUME FolderInv, FindFirst PROVE FolderInv'
<1> DEFINE p == Head(queue)
<1>1. /\ at = "outer" /\ hff = NoSearch /\ queue # <<>>
      /\ folder' = p /\ queue' = Tail(queue)
      /\ UNCHANGED <<parent, moved, changes, returned>>
  BY DEF FindFirst, fsVars
<1>2. FolderTypes /\ SearchOK /\ TreeOK
  BY DEF FolderInv, FolderBase
<1>3. /\ Len(queue) \in Nat /\ Len(queue) > 0 /\ p = queue[1]
      /\ queue' \in Seq(Routes) /\ Len(queue') = Len(queue) - 1
      /\ \A i \in 1..(Len(queue) - 1) : queue'[i] = queue[i + 1]
  BY <1>1, <1>2 DEF FolderTypes
<1>4. p \in Routes /\ p # <<>> /\ p \in Seq(Folders \cup {Base})
  BY <1>2, <1>3 DEF FolderTypes
<1> HIDE DEF p
<1>5. Len(p) \in Nat /\ Len(p) > 0 /\ p[Len(p)] \in Folders \cup {Base} /\ Last(p) = p[Len(p)]
  BY <1>4 DEF Last
<1>6. \/ /\ IsPath(p)
         /\ \E e \in Left([of |-> Last(p), seen |-> {}]) :
              /\ hff' = [of |-> Last(p), seen |-> {e}]
              /\ fd' = e /\ valid' /\ valid' \in BOOLEAN /\ at' = "inner"
      \/ ~IsPath(p) /\ ~valid' /\ valid' \in BOOLEAN /\ hff' = hff /\ fd' = fd /\ at' = at
  <2>1. IF IsPath(folder')
        THEN \E e \in Left([of |-> Last(folder'), seen |-> {}]) :
               /\ hff' = [of |-> Last(folder'), seen |-> {e}]
               /\ fd' = e
               /\ valid' = TRUE
               /\ at' = "inner"
        ELSE valid' = FALSE /\ UNCHANGED <<hff, fd, at>>
    BY DEF FindFirst
  <2>2. IF IsPath(p)
        THEN \E e \in Left([of |-> Last(p), seen |-> {}]) :
               /\ hff' = [of |-> Last(p), seen |-> {e}]
               /\ fd' = e
               /\ valid' = TRUE
               /\ at' = "inner"
        ELSE valid' = FALSE /\ UNCHANGED <<hff, fd, at>>
    BY <2>1, <1>1
  <2>3. CASE IsPath(p)
    <3>1. \E e \in Left([of |-> Last(p), seen |-> {}]) :
            /\ hff' = [of |-> Last(p), seen |-> {e}]
            /\ fd' = e /\ valid' = TRUE /\ at' = "inner"
      BY <2>2, <2>3
    <3> QED
      BY <3>1, <2>3
  <2>4. CASE ~IsPath(p)
    BY <2>2, <2>4
  <2> QED
    BY <2>3, <2>4
<1>7. ASSUME NEW e \in Left([of |-> Last(p), seen |-> {}]),
             hff' = [of |-> Last(p), seen |-> {e}]
      PROVE  /\ e \in Entries \cup {Dot} /\ hff'.of = p[Len(p)] /\ hff'.seen = {e}
             /\ hff' # NoSearch
             /\ hff' \in [of : Folders \cup {Base, Gone}, seen : SUBSET (Entries \cup {Dot})]
  BY <1>5, <1>7 DEF Left, NoSearch
<1>8. FolderBase'
  <2>1. ASSUME NEW i \in 1..Len(queue')
        PROVE  queue'[i] # <<>> /\ queue'[i] \in Seq(Folders \cup {Base})
    <3>1. i + 1 \in 1..Len(queue) /\ queue'[i] = queue[i + 1]
      BY <1>3
    <3>2. queue[i + 1] # <<>> /\ queue[i + 1] \in Seq(Folders \cup {Base})
      BY <3>1, <1>2 DEF FolderTypes
    <3> QED
      BY <3>1, <3>2
  <2>2. FolderTypes'
    BY <1>1, <1>2, <1>3, <1>4, <1>6, <1>7, <2>1 DEF FolderTypes
  <2>3. SearchOK'
    BY <1>1, <1>2, <1>4, <1>6, <1>7 DEF SearchOK
  <2>4. TreeOK'
    BY <1>1, <1>2 DEF TreeOK, Under
  <2> QED
    BY <2>2, <2>3, <2>4 DEF FolderBase
<1>9. ASSUME NEW s \in Routes, Stable(s)' PROVE OnePlace(s)'
  <2>1. Stable(s) /\ OnePlace(s)
    BY <1>1, <1>9 DEF Stable, IsPath, FolderInv
  <2>2. /\ Len(s) \in Nat /\ Len(s) > 1 /\ s[1] = Base
        /\ \A i \in 2..Len(s) : s[i] \in Entries /\ parent[s[i]] = s[i - 1]
    BY <2>1, <1>2, StableRoute
  <2>3. ~OnTheWay(s)
    BY <1>1 DEF OnTheWay
  <2>4. QueuedOnce(s) /\ BackOnce(s) /\ (InQueue(s) => ~IsBack(s)) /\ (InQueue(s) \/ IsBack(s))
    BY <2>1, <2>3, <1>1 DEF OnePlace
  <2>5. (IsBack(s)' <=> IsBack(s)) /\ BackOnce(s)'
    BY <1>1, <2>4 DEF IsBack, BackOnce
  <2>6. QueuedOnce(s)'
    <3> SUFFICES ASSUME NEW i \in 1..Len(queue'), NEW j \in 1..Len(queue'),
                        Leads(queue'[i], s), Leads(queue'[j], s)
                 PROVE  i = j
      BY DEF QueuedOnce, Leads
    <3>1. /\ i + 1 \in 1..Len(queue) /\ j + 1 \in 1..Len(queue)
          /\ queue'[i] = queue[i + 1] /\ queue'[j] = queue[j + 1]
      BY <1>3
    <3>2. i + 1 = j + 1
      BY <3>1, <2>4 DEF QueuedOnce
    <3> QED
      BY <3>2, <1>3
  <2>7. CASE Leads(p, s)
    <3>1. IsPath(p)
      <4>1. p[1] = Base
        BY <2>7, <2>2, <1>5 DEF Leads
      <4>2. ASSUME NEW i \in 2..Len(p) PROVE p[i] \in Entries /\ parent[p[i]] = p[i - 1]
        <5>1. i \in 1..Len(p) /\ i - 1 \in 1..Len(p) /\ i \in 2..Len(s)
          BY <2>7, <2>2, <1>5 DEF Leads
        <5>2. p[i] = s[i] /\ p[i - 1] = s[i - 1]
          BY <5>1, <2>7 DEF Leads
        <5> QED
          BY <5>1, <5>2, <2>2
      <4> QED
        BY <4>1, <4>2, <1>4 DEF IsPath
    <3>2. OnTheWay(s)'
      BY <3>1, <2>7, <1>1, <1>6, <1>7 DEF OnTheWay, Ahead, Leads
    <3>3. InQueue(s)
      BY <2>7, <1>3 DEF InQueue
    <3>4. ~InQueue(s)'
      <4> SUFFICES ASSUME NEW i \in 1..Len(queue'), Leads(queue'[i], s) PROVE FALSE
        BY DEF InQueue, Leads
      <4>1. i + 1 \in 1..Len(queue) /\ queue'[i] = queue[i + 1] /\ 1 \in 1..Len(queue)
        BY <1>3
      <4>2. i + 1 = 1
        BY <4>1, <2>7, <2>4, <1>3 DEF QueuedOnce
      <4> QED
        BY <4>2, <1>3
    <3> QED
      BY <3>2, <3>3, <3>4, <2>4, <2>5, <2>6 DEF OnePlace
  <2>8. CASE ~Leads(p, s)
    <3>1. ~OnTheWay(s)'
      BY <2>8, <1>1, <1>6 DEF OnTheWay, Leads
    <3>2. InQueue(s)' <=> InQueue(s)
      <4>1. ASSUME NEW i \in 1..Len(queue'), Leads(queue'[i], s) PROVE InQueue(s)
        <5>1. i + 1 \in 1..Len(queue) /\ queue'[i] = queue[i + 1]
          BY <1>3
        <5> QED
          BY <5>1, <4>1 DEF InQueue
      <4>2. ASSUME NEW i \in 1..Len(queue), Leads(queue[i], s) PROVE InQueue(s)'
        <5>1. i # 1
          BY <4>2, <2>8, <1>3
        <5>2. i - 1 \in 1..Len(queue') /\ queue'[i - 1] = queue[i]
          BY <5>1, <1>3
        <5> QED
          BY <5>2, <4>2 DEF InQueue, Leads
      <4> QED
        BY <4>1, <4>2 DEF InQueue, Leads
    <3> QED
      BY <3>1, <3>2, <2>4, <2>5, <2>6 DEF OnePlace
  <2> QED
    BY <2>7, <2>8
<1> QED
  BY <1>8, <1>9 DEF FolderInv, Routes

(* What is moved takes what is below it along: what is not gone is below   *)
(* Base still, and what did not move is where it was.                      *)
LEMMA ChangeKeeps ==
  ASSUME FolderInv, NEW e \in Entries, NEW d \in Folders \cup {Base, Gone}, Change(e, d)
  PROVE  FolderInv'
<1>1. /\ d \notin Under(e) \cup {e} /\ (d \in Folders => parent[d] # Gone)
      /\ moved' = moved \cup Under(e) \cup {e} /\ at # "over"
      /\ parent' = [c \in Entries |->
           IF c = e THEN d ELSE IF d = Gone /\ c \in Under(e) THEN Gone ELSE parent[c]]
      /\ UNCHANGED <<queue, folder, hff, fd, valid, at, returned>>
  BY DEF Change
<1>2. FolderTypes /\ SearchOK /\ TreeOK
  BY DEF FolderInv, FolderBase
<1>3. PICK K : K = Under(e)
  OBVIOUS
<1>4. PICK U : U = Under(Base)
  OBVIOUS
<1>5. PICK V : V = Under(Base)'
  OBVIOUS
<1>6. PICK f : f = parent'
  OBVIOUS
<1>7. /\ K \subseteq Entries /\ U \subseteq Entries /\ V \subseteq Entries
      /\ \A c \in Entries : parent[c] \in K \cup {e} => c \in K
      /\ \A c \in Entries : parent[c] \in U \cup {Base} => c \in U
  BY <1>3, <1>4, <1>5, UnderIsClosed DEF Closed, Under
<1>8. \A c \in Entries : f[c] \in V \cup {Base} => c \in V
  <2>1. V = {g \in Entries : \A S \in SUBSET Entries :
                (\A c \in Entries : f[c] \in S \cup {Base} => c \in S) => g \in S}
    BY <1>5, <1>6 DEF Under
  <2> SUFFICES ASSUME NEW c \in Entries, f[c] \in V \cup {Base},
                      NEW S \in SUBSET Entries,
                      \A g \in Entries : f[g] \in S \cup {Base} => g \in S
               PROVE  c \in S
    BY <2>1
  <2>2. PICK u : u = f[c]
    OBVIOUS
  <2>3. u \in V => u \in S
    BY <2>1
  <2> QED
    BY <2>2, <2>3
<1>9. /\ f[e] = d
      /\ \A c \in Entries : c # e =>
           f[c] = IF d = Gone /\ c \in K THEN Gone ELSE parent[c]
      /\ f \in [Entries -> Folders \cup {Base, Gone}]
  BY <1>1, <1>2, <1>3, <1>6 DEF FolderTypes
<1>10. FolderTypes'
  BY <1>1, <1>2, <1>3, <1>6, <1>7, <1>9 DEF FolderTypes
<1>11. SearchOK'
  BY <1>1, <1>2 DEF SearchOK
<1>12. \A c \in Entries : f[c] # Gone => c \in V
  <2> DEFINE A == {c \in Entries : c \in K \cup {e} \/ c \in V}
  <2>1. U \subseteq A
    <3>1. ASSUME NEW c \in Entries, parent[c] \in A \cup {Base} PROVE c \in A
      <4>1. CASE c \in K \cup {e}
        BY <4>1
      <4>2. CASE c \notin K \cup {e}
        <5>1. parent[c] \notin K \cup {e} /\ f[c] = parent[c]
          BY <4>2, <1>7, <1>9
        <5>2. f[c] \in V \cup {Base}
          BY <5>1, <3>1
        <5> QED
          BY <5>2, <1>8
      <4> QED
        BY <4>1, <4>2
    <3>2. Closed(A, Base) /\ A \in SUBSET Entries
      BY <3>1 DEF Closed
    <3> HIDE DEF A
    <3> QED
      BY <3>2, <1>4, UnderIsLeast
  <2>2. ASSUME d # Gone PROVE e \in V
    <3>1. CASE d = Base
      BY <3>1, <1>8, <1>9
    <3>2. CASE d \in Folders
      <4>1. d \in Entries /\ d \in U
        BY <3>2, <1>1, <1>2, <1>4 DEF TreeOK, Entries
      <4>2. d \in V
        BY <4>1, <2>1, <1>1, <1>3
      <4> QED
        BY <4>2, <1>8, <1>9
    <3> QED
      BY <3>1, <3>2, <2>2
  <2>3. ASSUME d # Gone PROVE K \subseteq V
    <3>1. ASSUME NEW c \in Entries, parent[c] \in V \cup {e} PROVE c \in V
      <4>1. CASE c = e
        BY <4>1, <2>2, <2>3
      <4>2. CASE c # e
        BY <4>2, <3>1, <2>2, <2>3, <1>8, <1>9
      <4> QED
        BY <4>1, <4>2
    <3>2. Closed(V, e) /\ V \in SUBSET Entries
      BY <3>1, <1>7 DEF Closed
    <3> QED
      BY <3>2, <1>3, UnderIsLeast
  <2>4. ASSUME NEW c \in Entries, f[c] # Gone PROVE c \in V
    <3>1. CASE c = e
      BY <3>1, <2>2, <2>4, <1>9
    <3>2. CASE c \in K /\ c # e
      BY <3>2, <2>3, <2>4, <1>9
    <3>3. CASE c \notin K \cup {e}
      <4>1. parent[c] # Gone
        BY <3>3, <2>4, <1>9
      <4>2. c \in U
        BY <4>1, <1>2, <1>4 DEF TreeOK
      <4> QED
        BY <4>2, <3>3, <2>1
    <3> QED
      BY <3>1, <3>2, <3>3
  <2> QED
    BY <2>4
<1>13. \A c \in Entries : f[c] \in moved' => c \in moved'
  <2> SUFFICES ASSUME NEW c \in Entries, f[c] \in moved' PROVE c \in moved'
    OBVIOUS
  <2>1. CASE c \in K \cup {e}
    BY <2>1, <1>1, <1>3
  <2>2. CASE c \notin K \cup {e}
    <3>1. f[c] = parent[c] /\ parent[c] \notin K \cup {e}
      BY <2>2, <1>7, <1>9
    <3>2. parent[c] \in moved
      BY <3>1, <1>1, <1>3
    <3> QED
      BY <3>2, <1>1, <1>2 DEF TreeOK
  <2> QED
    BY <2>1, <2>2
<1>14. TreeOK'
  BY <1>5, <1>6, <1>12, <1>13 DEF TreeOK
<1>15. ASSUME NEW s \in Routes, Stable(s)' PROVE OnePlace(s)'
  <2>1. Stable(s)
    <3>1. /\ s # <<>> /\ s[1] = Base /\ s[Len(s)] \in Files
          /\ \A i \in 2..Len(s) : s[i] \in Entries /\ f[s[i]] = s[i - 1] /\ s[i] \notin moved'
      BY <1>6, <1>15 DEF Stable, IsPath
    <3>2. ASSUME NEW i \in 2..Len(s)
          PROVE  s[i] \in Entries /\ parent[s[i]] = s[i - 1] /\ s[i] \notin moved
      <4>1. s[i] \in Entries /\ f[s[i]] = s[i - 1] /\ s[i] \notin moved \cup K \cup {e}
        BY <3>1, <1>1, <1>3
      <4> QED
        BY <4>1, <1>9
    <3> QED
      BY <3>1, <3>2 DEF Stable, IsPath
  <2>2. OnePlace(s)
    BY <2>1 DEF FolderInv
  <2> QED
    BY <1>1, <2>2 DEF OnePlace, QueuedOnce, BackOnce, InQueue, OnTheWay, Ahead, IsBack
<1> QED
  BY <1>10, <1>11, <1>14, <1>15 DEF FolderInv, FolderBase, Routes

(* The path of Base leads everywhere.                                      *)
LEMMA FolderInitInv == ASSUME FolderInit PROVE FolderInv
<1> DEFINE b == <<Base>>
<1>1. /\ parent \in [Entries -> Folders \cup {Base, Gone}]
      /\ \A c \in Entries : parent[c] # Gone => c \in Under(Base)
      /\ queue = <<b>> /\ folder = <<>> /\ hff = NoSearch /\ fd = Dot /\ valid = FALSE
      /\ at = "outer" /\ returned = <<>> /\ moved = {}
  BY DEF FolderInit
<1>2. b \in Routes /\ b # <<>> /\ b \in Seq(Folders \cup {Base}) /\ Len(b) = 1 /\ b[1] = Base
  BY DEF Routes
<1> HIDE DEF b
<1>3. queue \in Seq(Routes) /\ Len(queue) = 1 /\ queue[1] = b
  BY <1>1, <1>2
<1>4. NoSearch \in [of : Folders \cup {Base, Gone}, seen : SUBSET (Entries \cup {Dot})]
  BY DEF NoSearch
<1>5. FolderTypes
  <2>1. \A i \in 1..Len(queue) : queue[i] # <<>> /\ queue[i] \in Seq(Folders \cup {Base})
    BY <1>2, <1>3
  <2>2. folder \in Routes /\ folder \in Seq(Folders \cup {Base}) /\ returned \in Seq(Routes)
    BY <1>1 DEF Routes
  <2> QED
    BY <1>1, <1>3, <1>4, <2>1, <2>2 DEF FolderTypes
<1>6. SearchOK /\ TreeOK
  BY <1>1 DEF SearchOK, TreeOK
<1>7. ASSUME NEW s \in Routes, Stable(s) PROVE OnePlace(s)
  <2>1. Len(s) \in Nat /\ Len(s) > 1 /\ s[1] = Base
    BY <1>5, <1>7, StableRoute
  <2>2. Leads(b, s)
    BY <2>1, <1>2 DEF Leads
  <2>4. QueuedOnce(s) /\ InQueue(s)
    <3>1. QueuedOnce(s)
      BY <1>3 DEF QueuedOnce
    <3>2. 1 \in 1..Len(queue) /\ Leads(queue[1], s)
      BY <1>3, <2>2
    <3> QED
      BY <3>1, <3>2 DEF InQueue
  <2>3. ~OnTheWay(s) /\ ~IsBack(s) /\ BackOnce(s)
    BY <1>1 DEF OnTheWay, IsBack, BackOnce
  <2> QED
    BY <2>3, <2>4 DEF OnePlace
<1> QED
  BY <1>5, <1>6, <1>7 DEF FolderInv, FolderBase

LEMMA FolderStep == ASSUME FolderInv, [FolderNext]_folderVars PROVE FolderInv'
<1>1. CASE FolderNext
  BY <1>1, ChangeKeeps, FindFirstKeeps, NoMoreKeeps, FindNextKeeps, FoundKeeps, GetFileKeeps,
     DeleteIteratorKeeps DEF FolderNext, GetNext
<1>2. CASE UNCHANGED folderVars
  <2>1. UNCHANGED <<parent, moved, queue, folder, hff, fd, valid, at, returned>>
    BY <1>2 DEF folderVars
  <2>2. FolderBase'
    BY <2>1 DEF FolderInv, FolderBase, FolderTypes, SearchOK, TreeOK, Under
  <2>3. ASSUME NEW s \in Routes, Stable(s)' PROVE OnePlace(s)'
    <3>1. Stable(s) /\ OnePlace(s)
      BY <2>1, <2>3 DEF Stable, IsPath, FolderInv
    <3> QED
      BY <2>1, <3>1 DEF OnePlace, QueuedOnce, BackOnce, InQueue, OnTheWay, Ahead, IsBack
  <2> QED
    BY <2>2, <2>3 DEF FolderInv, Routes
<1> QED
  BY <1>1, <1>2

(* Every set of numbers that is not empty has a least one.                 *)
LEMMA LeastOf ==
  ASSUME NEW T \in SUBSET Nat, T # {}
  PROVE  \E m \in T : \A k \in T : m <= k
<1> DEFINE R == {p \in Nat \X Nat : p[1] < p[2]}
<1>1. IsWellFoundedOn(R, Nat)
  BY NatLessThanWellFounded DEF OpToRel
<1>2. \A i, j \in Nat : i < j => <<i, j>> \in R
  OBVIOUS
<1> HIDE DEF R
<1>3. PICK m \in T : \A k \in T : <<k, m>> \notin R
  BY <1>1, WFMin
<1>4. ASSUME NEW k \in T PROVE m <= k
  <2>1. ~(k < m)
    BY <1>2, <1>3
  <2> QED
    BY <2>1
<1> QED
  BY <1>4

(* Two paths to the same entry are the same: seen from their ends, there   *)
(* is no first difference.                                                 *)
LEMMA OnePath ==
  ASSUME NEW s \in Routes, NEW t \in Routes, IsPath(s), IsPath(t), s[Len(s)] = t[Len(t)]
  PROVE  s = t
<1>1. PICK a \in Nat, b \in Nat : a = Len(s) /\ b = Len(t)
  BY DEF Routes
<1>2. /\ a > 0 /\ b > 0 /\ s[1] = Base /\ t[1] = Base /\ s[a] = t[b]
      /\ \A i \in 2..a : s[i] \in Entries /\ parent[s[i]] = s[i - 1]
      /\ \A i \in 2..b : t[i] \in Entries /\ parent[t[i]] = t[i - 1]
  BY <1>1 DEF IsPath, Routes
<1>0. a > 0 /\ b > 0
  BY <1>2
<1> DEFINE Differ == {k \in Nat : k < a /\ k < b /\ s[a - k] # t[b - k]}
<1>3. Differ = {}
  <2> SUFFICES ASSUME Differ # {} PROVE FALSE
    OBVIOUS
  <2>1. PICK k \in Differ : \A i \in Differ : k <= i
    BY LeastOf
  <2>2. k \in Nat /\ k < a /\ k < b /\ s[a - k] # t[b - k]
    BY <2>1
  <2>3. k # 0
    BY <1>2, <2>2
  <2>4. k - 1 \in Nat /\ k - 1 < a /\ k - 1 < b /\ ~(k <= k - 1)
    BY <2>2, <2>3
  <2>5. s[a - (k - 1)] = t[b - (k - 1)]
    BY <2>1, <2>4
  <2>6. /\ a - (k - 1) \in 2..a /\ (a - (k - 1)) - 1 = a - k
        /\ b - (k - 1) \in 2..b /\ (b - (k - 1)) - 1 = b - k
    BY <2>2, <2>3
  <2>7. s[a - k] = t[b - k]
    BY <2>5, <2>6, <1>2
  <2> QED
    BY <2>2, <2>7
<1>4. \A k \in Nat : k < a /\ k < b => s[a - k] = t[b - k]
  BY <1>3
<1>5. ~(a < b)
  <2> SUFFICES ASSUME a < b PROVE FALSE
    OBVIOUS
  <2>1. /\ a - 1 \in Nat /\ a - 1 < a /\ a - 1 < b /\ a - (a - 1) = 1
        /\ b - (a - 1) \in 2..b
    BY <1>0
  <2>2. s[1] = t[b - (a - 1)]
    BY <2>1, <1>4
  <2>3. t[b - (a - 1)] \in Entries
    <3>1. PICK i \in 2..b : i = b - (a - 1)
      BY <2>1
    <3> QED
      BY <3>1, <1>2
  <2> QED
    BY <2>2, <2>3, <1>2, FolderNames
<1>6. ~(b < a)
  <2> SUFFICES ASSUME b < a PROVE FALSE
    OBVIOUS
  <2>1. /\ b - 1 \in Nat /\ b - 1 < a /\ b - 1 < b /\ b - (b - 1) = 1
        /\ a - (b - 1) \in 2..a
    BY <1>0
  <2>2. t[1] = s[a - (b - 1)]
    BY <2>1, <1>4
  <2>3. s[a - (b - 1)] \in Entries
    <3>1. PICK i \in 2..a : i = a - (b - 1)
      BY <2>1
    <3> QED
      BY <3>1, <1>2
  <2> QED
    BY <2>2, <2>3, <1>2, FolderNames
<1>7. a = b
  BY <1>5, <1>6
<1>8. ASSUME NEW i \in 1..a PROVE s[i] = t[i]
  <2>1. a - i \in Nat /\ a - i < a /\ a - i < b /\ a - (a - i) = i /\ b - (a - i) = i
    BY <1>7
  <2> QED
    BY <2>1, <1>4
<1>9. /\ s \in Seq(Entries \cup {Base}) /\ t \in Seq(Entries \cup {Base})
      /\ Len(s) = Len(t) /\ \A i \in 1..Len(s) : s[i] = t[i]
  BY <1>1, <1>7, <1>8 DEF Routes
<1> HIDE DEF Differ
<1> QED
  BY <1>9, SeqEqual

(* What exists has a path.                                                 *)
LEMMA EveryPath ==
  ASSUME TreeOK, NEW e \in Entries, parent[e] # Gone
  PROVE  \E s \in Routes : IsPath(s) /\ s[Len(s)] = e
<1> DEFINE Led(c) == \E s \in Routes : IsPath(s) /\ s[Len(s)] = c
           L == {c \in Entries : Led(c)}
<1>1. ASSUME NEW c \in Entries, parent[c] = Base \/ Led(parent[c]) PROVE Led(c)
  <2>1. PICK s \in Routes : IsPath(s) /\ s[Len(s)] = parent[c]
    <3>1. CASE parent[c] = Base
      <4>1. <<Base>> \in Routes /\ IsPath(<<Base>>)
        BY DEF Routes, IsPath
      <4> QED
        BY <4>1, <3>1
    <3> QED
      BY <3>1, <1>1
  <2>2. PICK r \in Routes : r = Append(s, c)
    <3>1. Append(s, c) \in Routes
      BY <2>1 DEF Routes
    <3> QED
      BY <3>1
  <2>3. /\ Len(s) \in Nat /\ Len(s) > 0 /\ Len(r) = Len(s) + 1 /\ r[Len(s) + 1] = c
        /\ \A i \in 1..Len(s) : r[i] = s[i]
    BY <2>1, <2>2 DEF Routes, IsPath
  <2>4. ASSUME NEW i \in 2..Len(r) PROVE r[i] \in Entries /\ parent[r[i]] = r[i - 1]
    <3>1. CASE i = Len(s) + 1
      BY <3>1, <2>1, <2>3
    <3>2. CASE i \in 2..Len(s)
      <4>1. i - 1 \in 1..Len(s) /\ i \in 1..Len(s)
        BY <3>2, <2>3
      <4> QED
        BY <4>1, <3>2, <2>1, <2>3 DEF IsPath
    <3> QED
      BY <3>1, <3>2, <2>3
  <2>5. IsPath(r)
    BY <2>1, <2>3, <2>4 DEF IsPath, Routes
  <2> QED
    BY <2>3, <2>5
<1>2. Closed(L, Base)
  BY <1>1 DEF Closed
<1>3. Under(Base) \subseteq L
  <2>1. L \in SUBSET Entries
    OBVIOUS
  <2> HIDE DEF L
  <2> QED
    BY <1>2, <2>1, UnderIsLeast
<1> QED
  BY <1>3 DEF TreeOK

(* The path of a file that did not move did not change: what is below a    *)
(* folder that moved did move.                                             *)
LEMMA PathIsStable ==
  ASSUME FolderBase, NEW s \in Routes, IsPath(s), s[Len(s)] \in Files \ moved
  PROVE  Stable(s)
<1>0. PICK a \in Nat : a = Len(s)
  BY DEF Routes
<1>1. /\ \A i \in 2..a : s[i] \in Entries /\ parent[s[i]] = s[i - 1]
      /\ s[a] \notin moved
      /\ \A c \in Entries : parent[c] \in moved => c \in moved
  BY <1>0 DEF IsPath, FolderBase, TreeOK
<1> DEFINE M == {k \in Nat : k + 1 < a /\ s[a - k] \in moved}
<1>2. M = {}
  <2> SUFFICES ASSUME M # {} PROVE FALSE
    OBVIOUS
  <2>1. PICK k \in M : \A i \in M : k <= i
    BY LeastOf
  <2>2. k \in Nat /\ k + 1 < a /\ s[a - k] \in moved
    BY <2>1
  <2>3. k # 0
    BY <2>2, <1>1
  <2>4. k - 1 \in Nat /\ (k - 1) + 1 < a /\ ~(k <= k - 1)
    BY <2>2, <2>3
  <2>5. s[a - (k - 1)] \notin moved
    BY <2>1, <2>4
  <2>6. a - (k - 1) \in 2..a /\ (a - (k - 1)) - 1 = a - k
    BY <2>2, <2>3
  <2> QED
    BY <1>1, <2>2, <2>5, <2>6
<1>3. ASSUME NEW i \in 2..a PROVE s[i] \notin moved
  <2>1. a - i \in Nat /\ (a - i) + 1 < a /\ a - (a - i) = i
    OBVIOUS
  <2> QED
    BY <2>1, <1>2
<1> QED
  BY <1>0, <1>3 DEF Stable

LEMMA StableFilesAreReturned == FolderInv => StableFilesOnce
<1> SUFFICES ASSUME FolderInv, NEW f \in Files \ moved
             PROVE  Times(f) <= 1 /\ (AtEnd /\ parent[f] # Gone => Times(f) = 1)
  BY DEF StableFilesOnce
<1> DEFINE T == {i \in DOMAIN returned : IsPath(returned[i]) /\ Last(returned[i]) = f}
<1>1. FolderBase /\ FolderTypes /\ SearchOK /\ TreeOK
  BY DEF FolderInv, FolderBase
<1>2. ASSUME NEW i \in T
      PROVE  /\ i \in 1..Len(returned) /\ returned[i] \in Routes /\ IsPath(returned[i])
             /\ returned[i][Len(returned[i])] = f
  BY <1>1, <1>2 DEF FolderTypes, Last
<1>3. ASSUME NEW i \in T, NEW j \in T PROVE i = j
  <2>1. PICK s \in Routes : s = returned[i]
    BY <1>2
  <2>2. returned[j] = s /\ IsPath(s) /\ s[Len(s)] = f
    BY <1>2, <2>1, OnePath
  <2>3. OnePlace(s)
    BY <1>1, <2>2, PathIsStable DEF FolderInv
  <2> QED
    BY <1>2, <2>1, <2>2, <2>3 DEF OnePlace, BackOnce
<1>4. Times(f) = Cardinality(T)
  BY DEF Times
<1>5. T = {} \/ \E i \in T : T = {i}
  BY <1>3
<1> HIDE DEF T
<1>6. Cardinality(T) = 0 \/ Cardinality(T) = 1
  <2>1. \A i : Cardinality({i}) = 1
    BY FS_Singleton
  <2>2. Cardinality({}) = 0
    BY FS_EmptySet
  <2> QED
    BY <1>5, <2>1, <2>2
<1>7. ASSUME AtEnd, parent[f] # Gone PROVE T # {}
  <2>1. f \in Entries
    BY FolderNames
  <2>2. PICK s \in Routes : IsPath(s) /\ s[Len(s)] = f
    BY <1>1, <1>7, <2>1, EveryPath
  <2>3. OnePlace(s)
    BY <1>1, <2>2, PathIsStable DEF FolderInv
  <2>4. at = "ready" /\ hff = NoSearch /\ queue = <<>>
    BY <1>1, <1>7 DEF AtEnd, SearchOK
  <2>5. IsBack(s)
    BY <2>3, <2>4 DEF OnePlace, InQueue, OnTheWay
  <2>6. PICK i \in 1..Len(returned) : returned[i] = s
    BY <2>5 DEF IsBack
  <2>7. i \in DOMAIN returned /\ Last(returned[i]) = f
    BY <1>1, <2>2, <2>6 DEF FolderTypes, Last
  <2> QED
    BY <2>2, <2>6, <2>7 DEF T
<1>8. T # {} => Cardinality(T) = 1
  <2>1. \A i : Cardinality({i}) = 1
    BY FS_Singleton
  <2> QED
    BY <1>5, <2>1
<1> QED
  BY <1>4, <1>6, <1>7, <1>8

(* Whatever other processes create, move and delete while the iterator     *)
(* goes on (FolderIterator.h: getNext, next): a file that stays where it   *)
(* is, with every folder above it, is returned at most once, and if it     *)
(* exists, once when the iterator is at its end.                           *)
THEOREM StableFilesReturned == FolderSpec => []StableFilesOnce
<1>1. FolderSpec => []FolderInv
  BY FolderInitInv, FolderStep, PTL DEF FolderSpec
<1> QED
  BY <1>1, StableFilesAreReturned, PTL
=============================================================================
