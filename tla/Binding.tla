------------------------------- MODULE Binding -------------------------------
(***************************************************************************)
(* How a request becomes the input of a handler: bindInput reads the tagged *)
(* fields from where their tags say, then a JSON body, then fills in the   *)
(* defaults and validates. And what extractParams documents of the input.  *)
(*                                                                         *)
(* A request says something of a field at each of the places it may be     *)
(* read from: nothing, an empty text, the zero of the field's type, some   *)
(* other value, or one that does not convert. Only what a field was set    *)
(* from and whether it is zero is kept of its value.                       *)
(***************************************************************************)
EXTENDS Naturals, FiniteSets, SequencesExt

CONSTANTS
  Inputs,     \* the input structs: [method, fields], a field
              \* [name, tags, dashed, json, default, required, number]: dashed, the
              \* tags "-"; default, "none" or a text that is a "value" or "bad"
  MediaTypes  \* the content types of requests

\* In the order in which they override one another.
Places == <<"path", "header", "cookie", "query", "form", "file">>

\* The fields of a struct have different names.
ASSUME InputsAssumption ==
  \A struct \in Inputs :
    /\ \A f, g \in ToSet(struct.fields) : f.name = g.name => f = g
    /\ \A f \in ToSet(struct.fields) : f.tags \subseteq ToSet(Places)

VARIABLES
  input,    \* the input struct of the operation
  request,  \* [type, says]: what the request says at each place of each field
  bound,    \* the fields: [from, zero]
  stage,    \* how far bindInput is
  status    \* its answer, 0 if it goes on

bindingVars == <<input, request, bound, stage, status>>

Texts == {"absent", "empty", "zero", "value", "bad"}
Untouched == [from |-> "nothing", zero |-> TRUE]

BodyMethod == input.method \in {"POST", "PUT", "PATCH"}
FormBody == BodyMethod /\ request.type = "form"
Multipart == request.type = "multipart"
BindsJSON == BodyMethod /\ ~Multipart /\ ~FormBody

\* isNonBody: a tag "-" does not count.
NonBody(f) == f.tags # {}

\* A tag "-" switches off a place of the query or the body, elsewhere it is a name.
NamedDash(f) == f.dashed \cap {"path", "header", "cookie"}

\* The places of a field that a request may say something at.
PlacesOf(f) == f.tags \cup NamedDash(f) \cup (IF f.json THEN {"json"} ELSE {})

-----------------------------------------------------------------------------
(* bindInput.                                                              *)

\* Whether a text at a place is taken at all: an empty path, cookie or query is
\* not, an empty header or form value is.
Taken(place, text) ==
  text # "absent" /\ (text = "empty" => place \in {"header", "form", "file"})

Converts(f, text) == text # "bad" /\ ~(text = "empty" /\ f.number)

\* The places read for a field of this request.
Read(f) ==
  {place \in f.tags \cup NamedDash(f) :
    /\ place = "form" => FormBody \/ Multipart
    /\ place = "file" => Multipart /\ "form" \notin f.tags}

Said(f, place) ==
  IF <<f.name, place>> \in DOMAIN request.says THEN request.says[<<f.name, place>>] ELSE "absent"

\* The ranks of the places that have something for a field.
Giving(f) ==
  {i \in DOMAIN Places : Places[i] \in Read(f) /\ Taken(Places[i], Said(f, Places[i]))}

\* bindRequestFields, of one field: the last of its places overrides the others.
Bound(f) ==
  LET place == Places[Max(Giving(f))]
  IN IF Giving(f) = {} THEN Untouched
     ELSE [from |-> place, zero |-> Said(f, place) \in {"empty", "zero"}]

FieldFails(f) ==
  \E place \in Read(f) :
    Taken(place, Said(f, place)) /\ ~Converts(f, Said(f, place))

\* A plausible bug: fields with tags are left to the body like the others.
BodyOverwrites(f) ==
  IF f.json /\ Said(f, "json") \in {"zero", "value"}
  THEN [from |-> "json", zero |-> Said(f, "json") = "zero"] ELSE bound[f.name]

\* json.Unmarshal sets what the body names, and restoreFieldValues puts back what
\* is not of the body.
Decoded(f) ==
  IF f.json /\ ~NonBody(f) /\ Said(f, "json") \in {"zero", "value"}
  THEN [from |-> "json", zero |-> Said(f, "json") = "zero"] ELSE bound[f.name]

BodyFails == \E f \in ToSet(input.fields) : f.json /\ Said(f, "json") = "bad"

\* applyDefaults: whether the first of these places has nothing for the field. A
\* cookie or a form value is there even if it is empty.
AbsentAt(f) ==
  CASE "header" \in f.tags -> Said(f, "header") \in {"absent", "empty"}
    [] "header" \notin f.tags /\ "cookie" \in f.tags -> Said(f, "cookie") = "absent"
    [] {"header", "cookie"} \cap f.tags = {} /\ "query" \in f.tags ->
         Said(f, "query") \in {"absent", "empty"}
    [] {"header", "cookie", "query"} \cap f.tags = {} /\ "form" \in f.tags ->
         request.type \notin {"form", "multipart"} \/ Said(f, "form") = "absent"
    [] OTHER -> FALSE

Defaulted(f) ==
  IF f.default # "none" /\ bound[f.name].zero /\ AbsentAt(f)
  THEN [from |-> "default", zero |-> FALSE] ELSE bound[f.name]

DefaultFails == \E f \in ToSet(input.fields) : Defaulted(f).from = "default" /\ f.default = "bad"

-----------------------------------------------------------------------------
(* extractParams.                                                          *)

IsMultipart == \E f \in ToSet(input.fields) : "file" \in f.tags
HasFormFields == \E f \in ToSet(input.fields) : "form" \in f.tags

\* Where the document says a field is, if it says so: in the first of its places
\* that counts. A "-" is a tag like any other here.
DocumentedAt(f) ==
  LET tagged == f.tags \cup f.dashed
  IN IF "file" \in tagged /\ BodyMethod THEN "file"
     ELSE IF "path" \in tagged THEN "path"
     ELSE IF "header" \in tagged THEN "header"
     ELSE IF "cookie" \in tagged THEN "cookie"
     ELSE IF "query" \in tagged THEN "query"
     ELSE IF "form" \in tagged THEN (IF BodyMethod THEN "form" ELSE "nowhere")
     ELSE IF BodyMethod /\ f.json THEN "json" ELSE "nowhere"

\* The content type of the documented body.
DocumentedType ==
  IF ~BodyMethod THEN "none"
  ELSE IF IsMultipart THEN "multipart" ELSE IF HasFormFields THEN "form" ELSE "json"

-----------------------------------------------------------------------------

BindingTypeOK ==
  /\ input \in Inputs /\ request.type \in MediaTypes
  /\ stage \in {"received", "fields", "body", "defaults", "done"}
  /\ status \in {0, 400, 413, 422}
  /\ \A f \in ToSet(input.fields) :
       bound[f.name].from \in ToSet(Places) \cup {"json", "default", "nothing"}

BindingInit ==
  /\ input \in Inputs
  /\ \E type \in MediaTypes :
       \E says \in [UNION {{f.name} \X PlacesOf(f) : f \in ToSet(input.fields)} -> Texts] :
         request = [type |-> type, says |-> says]
  /\ bound = [name \in {f.name : f \in ToSet(input.fields)} |-> Untouched]
  /\ stage = "received" /\ status = 0

Fail(code) == stage' = "done" /\ status' = code /\ UNCHANGED bound

SetAll(Value(_)) ==
  bound' = [name \in DOMAIN bound |-> Value(CHOOSE f \in ToSet(input.fields) : f.name = name)]

\* A form that does not parse is refused, if it is looked at.
BindRequestFields ==
  /\ stage = "received"
  /\ \/ (Multipart \/ (FormBody /\ HasFormFields)) /\ Fail(400)
     \/ (\E f \in ToSet(input.fields) : FieldFails(f)) /\ Fail(400)
     \/ /\ ~ \E f \in ToSet(input.fields) : FieldFails(f)
        /\ SetAll(Bound) /\ stage' = "fields" /\ UNCHANGED status
  /\ UNCHANGED <<input, request>>

\* readJSONBody refuses a body beyond its limit; no body at all is fine.
BindJSON ==
  /\ stage = "fields"
  /\ \/ BindsJSON /\ Fail(413)
     \/ BindsJSON /\ BodyFails /\ Fail(400)
     \/ BindsJSON /\ ~BodyFails /\ SetAll(Decoded) /\ stage' = "body" /\ UNCHANGED status
     \/ ~BindsJSON /\ stage' = "body" /\ UNCHANGED <<bound, status>>
  /\ UNCHANGED <<input, request>>

ApplyDefaults ==
  /\ stage = "body"
  /\ \/ DefaultFails /\ Fail(400)
     \/ ~DefaultFails /\ SetAll(Defaulted) /\ stage' = "defaults" /\ UNCHANGED status
  /\ UNCHANGED <<input, request>>

Validate ==
  /\ stage = "defaults"
  /\ stage' = "done"
  /\ status' = IF \E f \in ToSet(input.fields) : f.required /\ bound[f.name].zero THEN 422 ELSE 0
  /\ UNCHANGED <<input, request, bound>>

BindingNext == BindRequestFields \/ BindJSON \/ ApplyDefaults \/ Validate

BindingSpec == BindingInit /\ [][BindingNext]_bindingVars

-----------------------------------------------------------------------------

\* A field that is read from one place only, and an input whose body is of one kind.
OnePlace(f) == Cardinality(f.tags \cup f.dashed) <= 1 /\ f.dashed = {}
OneKindOfBody ==
  ~(HasFormFields \/ IsMultipart) \/ \A f \in ToSet(input.fields) : NonBody(f) \/ ~f.json

\* The document and the binding agree: given a request of the documented content
\* type, what it says where a field is documented is what the field gets, and a
\* field gets nothing from anywhere else, in particular not from the body. (For
\* fields with one tag, in inputs that do not mix form and JSON fields.)
DocumentedIsRead ==
  stage \in {"body", "defaults", "done"} /\ status \in {0, 422} /\ OneKindOfBody
    /\ request.type \in {DocumentedType, "none"} =>
    \A f \in ToSet(input.fields) :
      OnePlace(f) =>
        /\ bound[f.name].from \in {DocumentedAt(f), "nothing", "default"}
        /\ (DocumentedAt(f) # "nowhere" /\ request.type = DocumentedType
              /\ Said(f, DocumentedAt(f)) = "value")
             => bound[f.name].from = DocumentedAt(f)

\* A default stands in for what is absent only: a zero that the request gives is
\* kept. (For fields with one tag: the default of a field with more looks at the
\* first of them, whichever place the value came from.)
GivenZeroIsKept ==
  stage \in {"defaults", "done"} /\ status \in {0, 422} =>
    \A f \in ToSet(input.fields) :
      OnePlace(f) /\ (\E place \in Read(f) : Said(f, place) = "zero")
        => bound[f.name].from # "default"

\* A handler gets what the request says where the document says it.
InputsAreRead == DocumentedIsRead /\ GivenZeroIsKept
=============================================================================
