------------------------------ MODULE XMLCodec ------------------------------
(***************************************************************************)
(* XMLEncoder and XMLDecoder of tiny.h: what an object becomes in the skin *)
(* file or in the table metadata, and what is read back.                   *)
(*                                                                         *)
(* An object is a record: scalars have a text, a sequence of characters;   *)
(* lists and arrays have a sequence of items, sets a set of them, maps a   *)
(* function of keys.  A document is a sequence of tokens: a tag, or one    *)
(* character or entity of a text; the text "</string>", encoded, counts as *)
(* one entity.  The recursion of decodeObject() is the variable stack.     *)
(***************************************************************************)
EXTENDS Naturals, Sequences, SequencesExt

CONSTANTS
  Objects  \* the objects that are encoded

Blank == " "
Line == "\n"  \* line feed
Blanks == {Blank, Line}

Scalar(type, text) == [type |-> type, text |-> text]
Null == [type |-> "object"]
Sequential == {"list", "array"}
Collections == Sequential \union {"set", "map"}
Texts == {"int", "string"}  \* the scalars that there are in the model

Open(type) == "<" \o type \o ">"
Close(type) == "</" \o type \o ">"
Tags == {Open(t) : t \in Collections \union Texts \union {"object"}} \union
        {Close(t) : t \in Collections \union Texts \union {"object"}} \union
        {"<"}  \* which begins a tag wherever it stands

-----------------------------------------------------------------------------
(* XMLEncoder                                                              *)

\* The entities for the characters that would end a text or begin an entity.
Entity == [c \in {"<", "&", Line, "</string>"} |->
             CASE c = "<" -> "&lt;" [] c = "&" -> "&amp;"
               [] c = Line -> "&#x000A;" [] OTHER -> "&lt;/string&gt;"]

\* Mutant: "<" is written as it is.
EncodeChar_Raw(c) == IF c \in DOMAIN Entity \ {"<"} THEN Entity[c] ELSE c

EncodeChar(c) == IF c \in DOMAIN Entity THEN Entity[c] ELSE c

EncodeString(text) == [i \in DOMAIN text |-> EncodeChar(text[i])]

Tabify(depth) == [i \in 1..depth |-> Blank]
IsCollection(o) == o.type \in Collections
EndOfLine(o) == IF IsCollection(o) THEN <<>> ELSE <<Line>>

RECURSIVE Encode(_, _)

Append_(o, depth) == Encode(o, depth + 1) \o EndOfLine(o)

\* The value of a key follows it on the same line, without indentation.
EncodeEntry(key, val, depth) ==
  Encode(key, depth + 1) \o
  IF IsCollection(val) THEN <<Line>> \o Encode(val, depth + 1)
                       ELSE Encode(val, 0) \o <<Line>>

EncodeItems(o, depth) ==
  CASE o.type \in Sequential ->
         FlattenSeq([i \in DOMAIN o.items |-> Append_(o.items[i], depth + 1)])
    [] o.type = "set" ->
         LET a == SetToSeq(o.items) IN
         FlattenSeq([i \in DOMAIN a |-> Append_(a[i], depth + 1)])
    [] o.type = "map" ->
         LET a == SetToSeq(DOMAIN o.items) IN
         FlattenSeq([i \in DOMAIN a |->
                       EncodeEntry(a[i], o.items[a[i]], depth)])

\* What it does not know it writes as the null object.  The order in which
\* sort() leaves the members of sets and maps is not modelled.
Encode(o, depth) ==
  Tabify(depth) \o
  CASE o.type \in Texts ->
         <<Open(o.type)>> \o EncodeString(o.text) \o <<Close(o.type)>>
    [] o.type \in Collections ->
         <<Open(o.type), Line>> \o EncodeItems(o, depth) \o
         Tabify(depth) \o <<Close(o.type), Line>>
    [] OTHER -> <<Open("object"), "null", Close("object")>>

Document(o) == <<"<XMLEncoder>", Line>> \o Encode(o, 0) \o <<"</XMLEncoder>">>

-----------------------------------------------------------------------------
(* XMLDecoder                                                              *)

VARIABLES
  object,    \* what was given to encode()
  document,  \* what it returned, <<>> before
  pos,       \* how far decode() has read it
  stack,     \* for each call of decodeObject() that reads a collection, what
             \* it has read of it, and at the bottom decode() itself
  result     \* what decode() returned, Failed before or if it asserts

vars == <<object, document, pos, stack, result>>

Failed == [type |-> "assertion"]
Character == [e \in {Entity[c] : c \in DOMAIN Entity} |->
                CHOOSE c \in DOMAIN Entity : Entity[c] = e]
DecodeChar(token) == IF token \in DOMAIN Character THEN Character[token]
                                                   ELSE token

\* The first position from p on that satisfies Stop, or that behind the end.
Scan(p, Stop(_)) ==
  Min({i \in p..Len(document) : Stop(document[i])} \union {Len(document) + 1})

SkipBlank(p) == Scan(p, LAMBDA t : t \notin Blanks)
TagAt(p) == IF p <= Len(document) THEN document[p] ELSE "end"
EndOfValue(p) == Scan(p, LAMBDA t : t \in Tags)

\* Mutant: blanks in front of a text are skipped as those before a tag.
NextValue_Skip(p) ==
  LET q == SkipBlank(p) IN
  [i \in 1..EndOfValue(q) - q |-> DecodeChar(document[q + i - 1])]

\* Up to the next tag.  Entities are decoded, so that only a tag ends it.
NextValue(p) ==
  [i \in 1..EndOfValue(p) - p |-> DecodeChar(document[p + i - 1])]

\* A map is read as key, value, key, value; the last value of a key counts.
ToMap(items) ==
  LET Keys == {i \in DOMAIN items : i % 2 = 1} IN
  [k \in {items[i] : i \in Keys} |->
     items[1 + Max({i \in Keys : items[i] = k})]]

Contents(type, items) ==
  CASE type \in Sequential -> items
    [] type = "set" -> ToSet(items)
    [] type = "map" -> ToMap(items)

Top == stack[Len(stack)]
Add(s, o) == [s EXCEPT ![Len(s)].items = Append(@, o)]

\* decode() reads one object, a collection any number of them.
MayRead == result = Failed /\ stack # <<>> /\
           (Len(stack) = 1 => Top.items = <<>>)

\* A scalar: its text, and checkEndTag().  A text that reads "</string>" is
\* taken for the end tag of an empty string, and no end tag is looked for.
ReadScalar(type) ==
  LET text == NextValue(SkipBlank(pos) + 1)
      behind == EndOfValue(SkipBlank(pos) + 1)
      empty == type = "string" /\ text = <<"</string>">>
  IN
  /\ MayRead /\ TagAt(SkipBlank(pos)) = Open(type)
  /\ empty \/ TagAt(SkipBlank(behind)) = Close(type)
  /\ type = "object" => text = <<"null">>
  /\ stack' = Add(stack, CASE type = "object" -> Null
                           [] empty -> Scalar(type, <<>>)
                           [] OTHER -> Scalar(type, text))
  /\ pos' = IF empty THEN behind ELSE SkipBlank(behind) + 1
  /\ UNCHANGED <<object, document, result>>

ReadOpen(type) ==
  /\ MayRead /\ TagAt(SkipBlank(pos)) = Open(type)
  /\ stack' = Append(stack, [type |-> type, items |-> <<>>])
  /\ pos' = SkipBlank(pos) + 1
  /\ UNCHANGED <<object, document, result>>

\* Between a key and its value decodeObject() looks for no closing tag.
ReadClose ==
  /\ result = Failed /\ Len(stack) > 1
  /\ TagAt(SkipBlank(pos)) = Close(Top.type)
  /\ Top.type = "map" => Len(Top.items) % 2 = 0
  /\ stack' = Add(SubSeq(stack, 1, Len(stack) - 1),
                  [type |-> Top.type, items |-> Contents(Top.type, Top.items)])
  /\ pos' = SkipBlank(pos) + 1
  /\ UNCHANGED <<object, document, result>>

\* decode() returns the object if the closing tag of the document follows.
ReadEnd ==
  /\ result = Failed /\ Len(stack) = 1 /\ Top.items # <<>>
  /\ TagAt(SkipBlank(pos)) = "</XMLEncoder>"
  /\ result' = Top.items[1]
  /\ UNCHANGED <<object, document, pos, stack>>

EncodeStep ==
  /\ document = <<>>
  /\ document' = Document(object)
  /\ stack' = <<[type |-> "XMLEncoder", items |-> <<>>]>>
  /\ pos' = 2
  /\ UNCHANGED <<object, result>>

Init == /\ object \in Objects
        /\ document = <<>> /\ pos = 1 /\ stack = <<>> /\ result = Failed

Next ==
  \/ EncodeStep
  \/ \E type \in Texts \union {"object"} : ReadScalar(type)
  \/ \E type \in Collections : ReadOpen(type)
  \/ ReadClose
  \/ ReadEnd

Spec == Init /\ [][Next]_vars /\ WF_vars(Next)

-----------------------------------------------------------------------------
\* The parts of an object, itself included: members, keys and values.
RECURSIVE Parts(_)
Parts(o) ==
  {o} \union
  IF ~IsCollection(o) THEN {}
  ELSE UNION {Parts(m) :
         m \in CASE o.type \in Sequential -> ToSet(o.items)
                [] o.type = "set" -> o.items
                [] o.type = "map" -> DOMAIN o.items \union {o.items[k] : k \in DOMAIN o.items}}

\* decode() returns what encode() was given, whatever characters the texts
\* have and however the collections are nested: what test_XMLEncodeDecode()
\* asserts of a few objects (tests.cpp:168-220).  An assertion that fails on
\* the way leaves result at Failed for good.
RoundTrip == <>(result = object)

\* Whatever decodeObject() has returned so far, at any depth, is a part of
\* the object that was encoded: no text is cut off, run together with its
\* neighbour or read as a tag, and no key is taken for a value.
OnlyParts ==
  \A i \in DOMAIN stack : ToSet(stack[i].items) \subseteq Parts(object)
=============================================================================
