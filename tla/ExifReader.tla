----------------------------- MODULE ExifReader -----------------------------
(***************************************************************************)
(* ExifReader: the metadata and the thumbnail that a JPEG file carries.    *)
(*                                                                         *)
(* An image is a sequence of segments, one of which may hold an EXIF block *)
(* of directories (IFDs).  An entry of a directory has a tag, a type, a    *)
(* count and a value, or points to another directory: to any, as the file  *)
(* says.  parseJpeg() does a segment a step and parseIfd() an entry; its   *)
(* recursion is the variable stack.                                        *)
(***************************************************************************)
EXTENDS Integers, Sequences, FiniteSets

CONSTANTS
  Images  \* [segments, order, good, dirs, thumb]

\* The part of the table of tags that the model has: the tag, the directory
\* it is expected in, its type and how parseIfd() treats it.  0x0001 is a tag
\* of the Interoperability directory; the GPS directory has another tag of
\* that number.
Tags == {<<"ExifIFD", "0", "LONG", "pointer">>,
         <<"GPSIFD", "0", "LONG", "pointer">>,
         <<"InteropIFD", "ExifIFD", "LONG", "pointer">>,
         <<"JIFOffset", "0", "LONG", "special">>,
         <<"JIFLength", "0", "LONG", "special">>,
         <<"Width", "0", "INT", "value">>,
         <<"Orientation", "0", "SHORT", "value">>,
         <<"ExposureTime", "ExifIFD", "RATIONAL", "value">>,
         <<"0x0001", "InteropIFD", "ASCII", "value">>}

\* The rows for a tag: one, or none if the tag is unknown in that directory.
FindTag(tag, ifd) ==
  {t \in Tags : t[1] = tag /\ t[2] = IF ifd = "1" THEN "0" ELSE ifd}

TypeFits(row, e) ==
  row[3] = e.type \/ (row[3] = "INT" /\ e.type \in {"SHORT", "LONG"})

-----------------------------------------------------------------------------
(* The four bytes of the value field.                                      *)

Reversed(b) == [i \in 1..4 |-> b[5 - i]]
Bytes(n) == <<n % 256, (n \div 256) % 256, (n \div 65536) % 256, n \div 16777216>>
Padded(text) == [i \in 1..4 |-> IF i <= Len(text) THEN text[i] ELSE 0]

\* What a camera has written there: a SHORT fills the first two bytes.
Field(e, order) ==
  CASE e.type = "ASCII" -> Padded(e.value)
    [] e.type = "SHORT" /\ order = "MM" ->
         <<e.value \div 256, e.value % 256, 0, 0>>
    [] e.type = "LONG" /\ order = "MM" -> Reversed(Bytes(e.value))
    [] OTHER -> Bytes(e.value)

ReadInt(b, order) ==
  LET m == IF order = "II" THEN b ELSE Reversed(b) IN
  m[1] + 256 * m[2] + 65536 * m[3] + 16777216 * m[4]

CString(b) ==
  SubSeq(b, 1, CHOOSE n \in 0..4 : /\ \A i \in 1..n : b[i] # 0
                                   /\ n = 4 \/ b[n + 1] = 0)

\* The value that parseIfd() puts into info.  A rational does not fit into
\* the field, which then has its offset, and is read in the right order.
Value(e, order) ==
  CASE e.type = "SHORT" -> ReadInt(Field(e, order), order) % 65536
    [] e.type = "LONG" -> ReadInt(Field(e, order), order)
    [] e.type = "ASCII" -> CString(Bytes(ReadInt(Field(e, order), order)))
    [] OTHER -> e.value

-----------------------------------------------------------------------------
VARIABLES
  image,   \* the file
  pc,      \* "jpeg", "app1", "ifd", "next", "sof", "done"
  pb,      \* the segment parseJpeg() is at
  app1,    \* the last APP1 segment it has passed, 0 if none
  sof,     \* whether it has passed the start of the frame
  stack,   \* for each call of parseIfd(): its ifdId, directory and entry
  info,    \* the values by tag
  jif,     \* JIFOffset_ and JIFLength_
  blob,    \* whether there is a thumbnail
  result   \* what read() returns

vars == <<image, pc, pb, app1, sof, stack, info, jif, blob, result>>
jpegVars == <<pb, app1, sof>>
exifVars == <<stack, info, jif, blob>>

Segments == image.segments
AtEnd == pb > Len(Segments)

\* read() wants a thumbnail, whatever parseJpeg() has returned.
Return(b) == pc' = "done" /\ result' = (b /\ blob)

Init ==
  /\ image \in Images
  /\ pc = "jpeg" /\ pb = 1 /\ app1 = 0 /\ sof = FALSE
  /\ stack = <<>> /\ info = [t \in {} |-> 0]
  /\ jif = [JIFOffset |-> -1, JIFLength |-> -1] /\ blob = FALSE
  /\ result = FALSE

-----------------------------------------------------------------------------
(* parseJpeg()                                                             *)

Wanted == ~AtEnd /\ (app1 = 0 \/ ~sof) /\ Segments[pb] # "EOI"

Segment ==
  /\ pc = "jpeg" /\ Wanted
  /\ Segments[pb] \notin {"junk", "cut"}
  /\ pb' = pb + 1
  /\ app1' = IF Segments[pb] \in {"Exif", "XMP"} THEN pb ELSE app1
  /\ sof' = (sof \/ Segments[pb] = "SOF")
  /\ UNCHANGED <<image, pc, exifVars, result>>

\* A segment without a marker or without its length.
BadSegment ==
  /\ pc = "jpeg" /\ Wanted
  /\ Segments[pb] \in {"junk", "cut"}
  /\ Return(FALSE)
  /\ UNCHANGED <<image, jpegVars, exifVars>>

\* Only an APP1 segment that begins with "Exif" is parsed.
EndOfSegments ==
  /\ pc = "jpeg" /\ ~Wanted
  /\ pc' = IF app1 # 0 /\ Segments[app1] = "Exif" THEN "app1" ELSE "sof"
  /\ UNCHANGED <<image, jpegVars, exifVars, result>>

ParseSof ==
  /\ pc = "sof"
  /\ Return(sof)
  /\ UNCHANGED <<image, jpegVars, exifVars>>

-----------------------------------------------------------------------------
(* parseApp1() and parseIfd()                                              *)

Call(id, dir) == Append(stack, [id |-> id, dir |-> dir, i |-> 1])

\* The byte order, the magic number and the offset of directory 0.
App1 ==
  /\ pc = "app1"
  /\ IF image.good
       THEN pc' = "ifd" /\ stack' = Call("0", "main") /\ UNCHANGED result
       ELSE Return(FALSE) /\ UNCHANGED stack
  /\ UNCHANGED <<image, jpegVars, info, jif, blob>>

Top == stack[Len(stack)]
Directory == image.dirs[Top.dir]
HasEntry == pc = "ifd" /\ Top.i <= Len(Directory.entries)
Entry == Directory.entries[Top.i]
Row == CHOOSE t \in FindTag(Entry.tag, Top.id) : TRUE
Is(flag) == /\ HasEntry /\ Top.i <= Directory.room
            /\ FindTag(Entry.tag, Top.id) # {} /\ Row[4] = flag

StepOver == [stack EXCEPT ![Len(stack)].i = @ + 1]

\* An entry behind the end of the block, or a pointer out of it.
BadEntry ==
  /\ \/ HasEntry /\ Top.i > Directory.room
     \/ Is("pointer") /\ Entry.value = "outside"
  /\ Return(FALSE)
  /\ UNCHANGED <<image, jpegVars, exifVars>>

\* An unknown tag, or a type that does not fit: a trace and no more.
SkipEntry ==
  /\ HasEntry /\ Top.i <= Directory.room
  /\ \/ FindTag(Entry.tag, Top.id) = {}
     \/ Is("value") /\ ~TypeFits(Row, Entry)
  /\ stack' = StepOver
  /\ UNCHANGED <<image, pc, jpegVars, info, jif, blob, result>>

PointerEntry ==
  /\ Is("pointer") /\ Entry.value # "outside"
  /\ stack' = Append(StepOver, [id |-> Entry.tag, dir |-> Entry.value, i |-> 1])
  /\ UNCHANGED <<image, pc, jpegVars, info, jif, blob, result>>

SpecialEntry ==
  /\ Is("special")
  /\ jif' = [jif EXCEPT ![Entry.tag] = Entry.value]
  /\ stack' = StepOver
  /\ UNCHANGED <<image, pc, jpegVars, info, blob, result>>

ValueEntry ==
  /\ Is("value") /\ TypeFits(Row, Entry)
  /\ info' = [t \in DOMAIN info \union {Entry.tag} |->
                IF t = Entry.tag THEN Value(Entry, image.order) ELSE info[t]]
  /\ stack' = StepOver
  /\ UNCHANGED <<image, pc, jpegVars, jif, blob, result>>

\* parseIfd() returns TRUE.
EndOfIfd ==
  /\ pc = "ifd" /\ ~HasEntry
  /\ stack' = SubSeq(stack, 1, Len(stack) - 1)
  /\ pc' = IF Len(stack) > 1 THEN "ifd" ELSE IF Top.id = "0" THEN "next" ELSE "sof"
  /\ blob' = (Top.id = "1" /\ jif["JIFOffset"] > 0 /\ jif["JIFLength"] > 0)
  /\ UNCHANGED <<image, jpegVars, info, jif, result>>

\* Behind directory 0, the optional one of the thumbnail.
NextIfd ==
  /\ pc = "next"
  /\ IF image.thumb THEN pc' = "ifd" /\ stack' = Call("1", "thumb")
                    ELSE pc' = "sof" /\ UNCHANGED stack
  /\ UNCHANGED <<image, jpegVars, info, jif, blob, result>>

Next ==
  \/ Segment \/ BadSegment \/ EndOfSegments \/ ParseSof
  \/ App1 \/ BadEntry \/ SkipEntry \/ PointerEntry \/ SpecialEntry
  \/ ValueEntry \/ EndOfIfd \/ NextIfd

Spec == Init /\ [][Next]_vars /\ WF_vars(Next)

-----------------------------------------------------------------------------
ExifReaderTypeOK ==
  /\ pc \in {"jpeg", "app1", "ifd", "next", "sof", "done"}
  /\ pb \in 1..Len(Segments) + 1 /\ app1 \in 0..Len(Segments)
  /\ sof \in BOOLEAN /\ blob \in BOOLEAN /\ result \in BOOLEAN
  /\ pc = "ifd" => stack # <<>>
  /\ DOMAIN info \subseteq {t[1] : t \in Tags}

\* However the directories of a file point to each other, or to themselves,
\* parseIfd() calls itself at most twice: a tag that points to a directory
\* is known in one directory only, and that is another one.
NestingIsBounded == Len(stack) <= 3

\* A directory of the file stands for the one that an entry says it is.
StandsFor(dir, ifd) ==
  \/ ifd = "0" /\ dir \in {"main", "thumb"}
  \/ \E d \in DOMAIN image.dirs : \E i \in DOMAIN image.dirs[d].entries :
       LET e == image.dirs[d].entries[i] IN e.tag = ifd /\ e.value = dir

\* No value is taken from a directory where the number of its tag means
\* something else: what the GPS directory has under 0x0001 is not the index
\* of the Interoperability directory.
OfItsDirectory ==
  \A tag \in DOMAIN info : \E row \in Tags, d \in DOMAIN image.dirs :
    /\ row[1] = tag /\ StandsFor(d, row[2])
    /\ \E i \in DOMAIN image.dirs[d].entries :
         LET e == image.dirs[d].entries[i] IN
         e.tag = tag /\ TypeFits(row, e) /\ info[tag] = Value(e, image.order)

\* read() comes back, whatever the segments and the directories are.
ReadEnds == <>(pc = "done")

\* What fits into the value field is read as it was written, in both byte
\* orders: the table has Orientation as one SHORT (ExifReader.h:45).
InlineValues ==
  \A tag \in DOMAIN info : \E d \in DOMAIN image.dirs :
    \E i \in DOMAIN image.dirs[d].entries :
      LET e == image.dirs[d].entries[i] IN e.tag = tag /\ info[tag] = e.value

\* An image without an EXIF block, with nothing wrong in its segments, is
\* not an error: "missing APP1 is not an error, some metadata can be
\* salvaged from SOF" (ExifReader.cpp:210).
MissingIsNoError ==
  (pc = "done" /\ sof /\ \A i \in 1..Len(Segments) : Segments[i] \in {"SOI", "SOF"})
    => result
=============================================================================
