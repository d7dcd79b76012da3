------------------------------ MODULE MCFiles -------------------------------
(* What reads and writes files, in one run: the XML codec, ExifReader,     *)
(* FolderIterator, the skin's pack() and unpack(), and the layout of the   *)
(* picture that pack() draws.  They share nothing: a behaviour uses one of *)
(* them, chosen at the start.                                              *)
EXTENDS SkinFiles, PackLayout, FolderIterator

VARIABLES
  part,
  object, document, pos, stack, result,                     \* XMLCodec
  image, step, pb, app1, sof, ifds, info, jif, blob, answer  \* ExifReader

codecVars == <<object, document, pos, stack, result>>
exifVars == <<image, step, pb, app1, sof, ifds, info, jif, blob, answer>>
allVars == <<part, codecVars, exifVars, folderVars, skinVars, layoutVars>>
-----------------------------------------------------------------------------
(* Texts of up to two characters, among them those that need an entity,    *)
(* collections of them, and collections of collections.                    *)
Line == "\n"
Scalar(type, text) == [type |-> type, text |-> text]
Null == [type |-> "object"]
Strings == {Scalar("string", t) :
              t \in {<<>>} \union SeqOf({"a", " ", "<", "&", Line}, 2)}
Few == {Null, Scalar("int", <<"1">>), Scalar("string", <<>>),
        Scalar("string", <<" ", "<">>)}

Small(S) == {s \in SUBSET S : Cardinality(s) <= 2}
Lists(S) == {[type |-> t, items |-> s] :
               t \in {"list", "array"}, s \in {<<>>} \union SeqOf(S, 2)}
Sets(S) == {[type |-> "set", items |-> s] : s \in Small(S)}
Maps(K, S) == {[type |-> "map", items |-> m] :
                 m \in UNION {[k -> S] : k \in Small(K)}}

Keys == {Scalar("string", <<>>), Scalar("int", <<"1">>)}
Inner == {Null, Scalar("string", <<" ">>),
          [type |-> "list", items |-> <<>>],
          [type |-> "map", items |-> [k \in {Null} |-> Null]],
          [type |-> "set", items |-> {Scalar("string", <<"&">>)}]}
Objects == {Null} \union Strings
             \union Lists(Few) \union Sets(Few) \union Maps(Keys, Few)
             \union Lists(Inner) \union Maps(Keys, Lists({Null}))
             \union Maps(Keys, {[type |-> "array", items |-> <<i>>] : i \in Inner})
-----------------------------------------------------------------------------
(* Every sequence of up to three segments behind the SOI, and EXIF blocks  *)
(* whose pointers lead where they should, back, to themselves or out, with *)
(* all the entries they announce or with fewer.                            *)
Item(tag, type, value) == [tag |-> tag, type |-> type, value |-> value]
Dir(items) == [entries |-> items, room |-> Len(items)]
Cut(table) == [table EXCEPT !.room = @ - 1]

Pointing ==
  LET D == {Dir(<<Item("ExposureTime", t, "1/60"), Item("InteropIFD", "LONG", p)>>) :
              t \in {"RATIONAL", "SHORT"}, p \in {"interop", "exif", "main"}}
  IN D \union {Cut(table) : table \in D}

Blocks ==
  [order : {"II"}, good : BOOLEAN,
   dirs : [main : {Dir(<<Item("Orientation", "SHORT", 6), i,
                         Item("GPSIFD", "LONG", "gps")>>) :
                     i \in {Item("ExifIFD", "LONG", p) : p \in {"exif", "main", "outside"}}
                           \union {Item("Width", "SHORT", 640)}},
           exif : Pointing,
           gps : {Dir(<<Item("0x0001", "ASCII", <<78>>)>>)},
           interop : {Dir(<<Item("0x0001", "ASCII", <<82, 57, 56>>)>>)},
           thumb : {Dir(<<Item("JIFOffset", "LONG", 100)>>),
                    Dir(<<Item("JIFOffset", "LONG", 100),
                          Item("JIFLength", "LONG", 50)>>)}],
   thumb : BOOLEAN]
NoBlock == [order |-> "II", good |-> FALSE, dirs |-> [p \in {} |-> 0], thumb |-> FALSE]

Image(segments, b) ==
  [segments |-> <<"SOI">> \o segments, order |-> b.order,
   good |-> b.good, dirs |-> b.dirs, thumb |-> b.thumb]

Kinds == {"SOI", "SOF", "Exif", "XMP", "Other", "EOI", "junk", "cut"}
Images == {Image(s, NoBlock) : s \in SeqOf(Kinds, 3)} \union
          {Image(s, b) : s \in {<<"Exif", "SOF">>, <<"XMP", "SOF", "Exif">>}, b \in Blocks}
-----------------------------------------------------------------------------
Codec == INSTANCE XMLCodec

Exif == INSTANCE ExifReader
  WITH pc <- step, stack <- ifds, result <- answer

(* Two pictures.  The designer edits each twice, and no command is cut     *)
(* short; the same where the program is newer than its skin; edits once,   *)
(* and the process dies twice, also inside unpack().                       *)
Turns == [sameVersion |-> TRUE, crashIn |-> {"idle"},
          maxPacks |-> 2, maxEdits |-> 2, maxCrashes |-> 1]
Newer == [Turns EXCEPT !.sameVersion = FALSE]
Dying == [Turns EXCEPT !.crashIn = {"idle", "unpack"}, !.maxEdits = 1, !.maxCrashes = 2]
MCDesigns == {Turns, Newer, Dying}

(* Up to four pictures, from a point to one wider than a row.              *)
MCSizes == [w : {1, 4, 8}, h : {1, 3}]
-----------------------------------------------------------------------------
(* What is not used is at rest: nothing to encode, no segments, an empty   *)
(* folder, no pictures.                                                    *)
Init ==
  /\ part \in {"xml", "exif", "folder", "skin", "layout"}
  /\ Codec!Init /\ (part # "xml" => object = Null)
  /\ Exif!Init /\ (part # "exif" => image = Image(<<>>, NoBlock))
  /\ FolderInit /\ (part # "folder" => parent = [e \in Entries |-> Gone])
  /\ SkinInit /\ (part # "skin" => design = Turns)
  /\ LayoutInit /\ (part # "layout" => pictures = <<>>)

NextXML == /\ part = "xml" /\ Codec!Next
           /\ UNCHANGED <<part, exifVars, folderVars, skinVars, layoutVars>>
NextExif == /\ part = "exif" /\ Exif!Next
            /\ UNCHANGED <<part, codecVars, folderVars, skinVars, layoutVars>>
InFolder(A) == /\ part = "folder" /\ A
               /\ UNCHANGED <<part, codecVars, exifVars, skinVars, layoutVars>>
NextSkin == /\ part = "skin" /\ SkinNext
            /\ UNCHANGED <<part, codecVars, exifVars, folderVars, layoutVars>>
NextLayout == /\ part = "layout" /\ LayoutNext
              /\ UNCHANGED <<part, codecVars, exifVars, folderVars, skinVars>>

Next == NextXML \/ NextExif \/ InFolder(FolderNext) \/ NextSkin \/ NextLayout

Spec == /\ Init /\ [][Next]_allVars
        /\ WF_allVars(NextXML) /\ WF_allVars(NextExif)
        /\ WF_allVars(InFolder(GetNext)) /\ WF_allVars(InFolder(GetFile))
-----------------------------------------------------------------------------
(* What decode() has read so far is a part of what was encoded: nothing is *)
(* cut off, run together, or taken for a tag or a key.  Whatever the       *)
(* directories of an image point to, parseIfd() does not call itself more  *)
(* than twice, and takes no value from a directory where the number of its *)
(* tag means something else.  Every picture is drawn in skin.png, none     *)
(* over another, and none is cut off.  The iterator's queue, path and      *)
(* search are of their types.                                              *)
NothingIsMixedUp ==
  /\ Codec!OnlyParts
  /\ Exif!ExifReaderTypeOK /\ Exif!NestingIsBounded /\ Exif!OfItsDirectory
  /\ NothingOverlaps /\ AllInside /\ AllPlaced
  /\ FolderIteratorTypeOK

(* decode() returns what encode() was given; read() comes back from every  *)
(* image; and the iteration over a folder ends.                            *)
ReadsBack ==
  /\ part = "xml" => Codec!RoundTrip
  /\ part = "exif" => Exif!ReadEnds
  /\ part = "folder" => IterationEnds
=============================================================================
