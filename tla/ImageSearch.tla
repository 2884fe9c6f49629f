---------------------------- MODULE ImageSearch ----------------------------
(***************************************************************************)
(* utils/kf_parse.py: the images that a JSON document names, such as the   *)
(* ConfigMaps of a namespace, in fields called "image", in JSON or YAML    *)
(* text within its strings, with the default tags of their surroundings.   *)
(* The search of the program stands against a plain definition of what     *)
(* there is to find.                                                       *)
(*                                                                         *)
(* A JSON value is a record with its type t.  Strings are told apart by    *)
(* what the search makes of them:                                          *)
(*   name   an image, with a tag or without: any string in a field "image" *)
(*   json   text that json.loads understands: the value                    *)
(*   yaml   other text with lines `image: name': the names in order        *)
(*   text   anything else, "other" with numbers, booleans and null         *)
(***************************************************************************)
EXTENDS Naturals, Sequences, Functions

CONSTANTS
    Documents,   \* the documents to be searched
    MaxDepth     \* how deep they are, with the texts within

VARIABLES doc, found

searchVars == <<doc, found>>

NotSearched == {"not searched"}

Keys(value) == DOMAIN value.fields

\* concat_image_name_with_tag: an image with its tag, or with each of the
\* default versions that stand next to it.
\* (Fault: the defaults are added to a tag, too.)
Defaults == {"defaultImageVersion", "defaultGpuImageVersion"}

Concat_always(dict, image) ==
    {<<image.name, v>> : v \in (Keys(dict) \cap Defaults)
                                 \cup (IF image.tagged THEN {"own"} ELSE {})}

Concat(dict, image) ==
    IF image.tagged THEN {<<image.name, "own">>}
    ELSE {<<image.name, v>> : v \in Keys(dict) \cap Defaults}

\* parse_json_images, of a YAML text: the first image is taken.
Inline(value) == IF value.t = "yaml" /\ 1 \in DOMAIN value.images
                 THEN {<<value.images[1], "own">>} ELSE {}

\* extract_images_recursively is called with an object.  The objects that are
\* fields of it are looked at in the same call, but not the lists in those.
FieldsOf(dict) == {dict.fields[key] : key \in Keys(dict)}
Inner(dict)  == {v \in FieldsOf(dict) : v.t = "dict"}
Owners(dict) == {dict} \cup Inner(dict)

\* The images that a call finds by itself.
ImagesAt(dict) ==
    UNION { UNION { LET v == o.fields[key] IN
                    IF key # "image" THEN Inline(v)
                    ELSE IF v.t = "name" THEN Concat(o, v) ELSE {}
                    : key \in Keys(o) } : o \in Owners(dict) }

\* It raises a TypeError when the image of an inner object is not a string: the
\* program ends without a result.
RaisesAt(dict) == \E o \in Inner(dict) : /\ "image" \in Keys(o)
                                         /\ o.fields["image"].t \in {"list", "other"}

\* The objects of the calls that it makes: in lists, in the inner objects, and in
\* JSON text.  (Fault: the inner objects are not searched for more.)
InTexts(dict) == { v.value : v \in {w \in UNION { {o.fields[key] : key \in Keys(o) \ {"image"}}
                                                  : o \in Owners(dict) } : w.t = "json"} }
InLists(dict) == UNION {Range(v.items) : v \in {w \in FieldsOf(dict) : w.t = "list"}}
InInner(dict) == UNION {FieldsOf(o) : o \in Inner(dict)}

Calls_shallow(dict) == {x \in InLists(dict) \cup InTexts(dict) : x.t = "dict"}

Calls(dict) == {x \in InLists(dict) \cup InInner(dict) \cup InTexts(dict) : x.t = "dict"}

\* All the calls for a value: the first, those that it makes, and so on.
CallsAt(value) ==
    LET at[n \in 0 .. MaxDepth] == IF n = 0 THEN {x \in {value} : x.t = "dict"}
                                   ELSE UNION {Calls(d) : d \in at[n - 1]}
    IN at
Searched(value) == UNION {CallsAt(value)[n] : n \in 0 .. MaxDepth}

Extract(value) == UNION {ImagesAt(d) : d \in Searched(value)}
Raises(value)  == \E d \in Searched(value) : RaisesAt(d)

-----------------------------------------------------------------------------
SearchInit == /\ doc \in Documents
        /\ found = NotSearched

\* process_json_file
Search == /\ found = NotSearched
          /\ found' = IF Raises(doc) THEN {} ELSE Extract(doc)
          /\ UNCHANGED doc

SearchNext == Search

SearchSpec == SearchInit /\ [][SearchNext]_searchVars

-----------------------------------------------------------------------------
(* What there is to find.                                                  *)

\* The values that a value has within it, itself included, and those in JSON
\* text with them.
Children(value) ==
    CASE value.t = "dict" -> FieldsOf(value)
      [] value.t = "list" -> Range(value.items)
      [] value.t = "json" -> {value.value}
      [] OTHER            -> {}

WithinAt(value) ==
    LET at[n \in 0 .. MaxDepth] == IF n = 0 THEN {value}
                                   ELSE UNION {Children(x) : x \in at[n - 1]}
    IN at
Within(value) == UNION {WithinAt(value)[n] : n \in 0 .. MaxDepth}

\* A document is an object that kubectl has printed: its depth is finite, and
\* MaxDepth is more than that of any.
ASSUME DocumentsAssumption ==
    /\ MaxDepth \in Nat
    /\ \A d \in Documents : d.t = "dict" /\ WithinAt(d)[MaxDepth] = {}

Objects(value) == {x \in Within(value) : x.t = "dict"}

\* Every image by its tag or its default ones, and those of the YAML texts.
ImageOf(dict) ==
    IF "image" \in Keys(dict) /\ dict.fields["image"].t = "name"
    THEN LET image == dict.fields["image"] IN
         {<<image.name, v>> : v \in IF image.tagged THEN {"own"} ELSE Keys(dict) \cap Defaults}
    ELSE {}
NamesIn(yaml) == {<<i, "own">> : i \in Range(yaml.images)}

Images(value) ==
    (UNION {ImageOf(d) : d \in Objects(value)})
    \cup (UNION {NamesIn(x) : x \in {y \in Within(value) : y.t = "yaml"}})

\* Nothing is reported that the document does not name (kf_parse.py 32-100).
FoundAreImages == found # NotSearched => found \subseteq Images(doc)

\* Where the search looks: below each object there are objects, or lists of
\* objects; in an object that is a field of an object there are no lists, and
\* JSON text holds an object.
Text(value) == /\ value.t \notin {"list", "dict"}
               /\ value.t = "yaml" => DOMAIN value.images \subseteq {1}
               /\ value.t = "json" => value.value.t = "dict"

PlainAt(dict) ==
    /\ \A key \in Keys(dict) :
          LET v == dict.fields[key] IN
          \/ v.t = "dict"
          \/ v.t = "list" /\ \A x \in Range(v.items) : x.t = "dict"
          \/ Text(v) /\ (key = "image" => v.t \in {"name", "other"})
    /\ \A o \in Inner(dict) : \A key \in Keys(o) :
          LET v == o.fields[key] IN
          v.t = "dict" \/ (Text(v) /\ (key = "image" => v.t = "name"))

Plain(value) == \A d \in Searched(value) : PlainAt(d)

\* And there it finds everything, at whatever depth and in whatever text
\* within text (kf_parse.py 32-100).
PlainIsFound == found # NotSearched /\ Plain(doc) => found = Images(doc)

=============================================================================
