----------------------------- MODULE ModelSchemas ----------------------------
(***************************************************************************)
(* Model schemas: which fields of a struct a filter selects, what of them  *)
(* is serialized, what the OpenAPI components say is, which associations   *)
(* are loaded for it, and which fields an input may write.                 *)
(*                                                                         *)
(* A component is registered under a name made of the type and the filter  *)
(* by the first reference to it; later references only point there. A name *)
(* is a sequence of words, for "_" both is part of a field's name and      *)
(* joins the fields of a filter.                                           *)
(***************************************************************************)
EXTENDS Integers, FiniteSets, SequencesExt, TLC

CONSTANTS
  Structs,   \* the struct types, by package and name: [bare, custom, embeds, fields]
  Alphabet,  \* the names of all fields, in the order of sort.Strings
  Asked,     \* what operations refer to: [type, name, raw] and a selection
  Bodies,    \* the bound inputs, a function from names of fields to "nil" or "sent"
  Writers    \* the filters of the descriptors that apply them, each with its type

VARIABLES
  components,  \* the registered components: their properties
  referred,    \* history: the references to components
  row,         \* the model an input is applied to: its fields, "old" or "sent"
  writes       \* history: the inputs applied

schemaVars == <<components, referred, row, writes>>

Scalar == "scalar"
Hidden == <<"-">>

-----------------------------------------------------------------------------
(* Filters.                                                                *)

\* normalizeModelSchemaMode; an unknown mode stays as it is.
NormalMode(mode) ==
  CASE mode \in {"", "none"} -> ""
    [] mode \in {"read", "output"} -> "read"
    [] mode \in {"detail", "details"} -> "detail"
    [] mode \in {"create", "creation", "insert"} -> "create"
    [] mode \in {"update", "patch"} -> "update"
    [] OTHER -> mode

Filter(selection) ==
  [fields |-> selection.fields, exclude |-> selection.exclude,
   mode |-> NormalMode(selection.mode),
   depth |-> IF selection.depth < 0 THEN 0 ELSE selection.depth]

NoFilter == [fields |-> {}, exclude |-> {}, mode |-> "", depth |-> 0]

\* What nested models are serialized with: the lists of fields stay behind.
Child(filter) ==
  IF filter.depth = 0 THEN NoFilter
  ELSE [NoFilter EXCEPT !.mode = filter.mode, !.depth = filter.depth - 1]

-----------------------------------------------------------------------------
(* Fields.                                                                 *)

\* jsonFieldName: untagged fields get their lower camel name.
JSONName(f) == IF f.tag = <<>> THEN f.lower ELSE f.tag

ReadOnly(f) ==
  \/ f.gorm \cap {"-", "primarykey", "->", "<-:false", "autocreatetime", "autoupdatetime"} # {}
  \/ f.go \in {<<"ID">>, <<"CreatedAt">>, <<"UpdatedAt">>, <<"DeletedAt">>}
  \/ JSONName(f) = <<"id">>

\* The createonly and updateonly tags leave a field to the modes they name.
Writable(f, mode) ==
  /\ ~ReadOnly(f)
  /\ mode = "create" => "<-:update" \notin f.gorm
  /\ mode = "update" => "<-:create" \notin f.gorm
  /\ \/ f.access \cap {"createonly", "updateonly"} = {}
     \/ (IF mode = "create" THEN "createonly" ELSE "updateonly") \in f.access

Readable(f) == "writeonly" \notin f.access

\* modelSchemaNestedField: a struct that does not marshal itself.
Nested(f) == f.of # Scalar /\ ~Structs[f.of].custom

ModeIncludes(mode, f) ==
  CASE mode \in {"read", "detail"} -> Readable(f)
    [] mode = "list" -> Readable(f) /\ ~Nested(f)
    [] mode \in {"create", "update"} -> Writable(f, mode)
    [] OTHER -> TRUE

Includes(filter, f) ==
  LET names == {f.go, JSONName(f)}
  IN /\ filter.fields # {} => names \cap filter.fields # {}
     /\ names \cap filter.exclude = {}
     /\ ModeIncludes(filter.mode, f)

\* modelSchemaFieldName: a field that json skips is in if Fields names it, whatever
\* Exclude and the mode say.
Selected(filter, f) ==
  IF JSONName(f) = Hidden THEN {f.go, f.lower} \cap filter.fields # {} ELSE Includes(filter, f)

FieldName(f) == IF JSONName(f) = Hidden THEN f.lower ELSE JSONName(f)

\* The fields of a struct, with those of the structs embedded in it.
RECURSIVE FieldsOf(_)
FieldsOf(t) == FlattenSeq([i \in DOMAIN Structs[t].embeds |-> FieldsOf(Structs[t].embeds[i])])
               \o Structs[t].fields

SelectedFields(t, filter) == SelectSeq(FieldsOf(t), LAMBDA f : Selected(filter, f))

-----------------------------------------------------------------------------
(* Components.                                                             *)

Joined(names) == FlattenSeq(SelectSeq(Alphabet, LAMBDA name : name \in names))

\* Plausible bug: descriptors of other depths share a component.
ComponentNameWithoutDepth(reference) ==
  IF reference.name # "" THEN <<reference.name>>
  ELSE <<Structs[reference.type].bare, reference.filter.mode,
         Joined(reference.filter.fields), Joined(reference.filter.exclude)>>

\* typeName and modelSchemaComponentName: the type without its package. A schema
\* struct and ComponentName give a name of their own.
ComponentName(reference) ==
  LET filter == reference.filter
      bare == Structs[reference.type].bare
  IN IF reference.name # "" THEN <<reference.name>>
     ELSE IF filter = NoFilter THEN <<bare>>
     ELSE <<bare, filter.mode, filter.depth, Joined(filter.fields), Joined(filter.exclude)>>

Reference(t, filter, raw) == [type |-> t, filter |-> filter, name |-> "", raw |-> raw]

\* The schema of a field under a filter: that of its plain type, or of the child.
FieldReference(f, filter) ==
  IF filter.depth > 0 /\ Nested(f) THEN Reference(f.of, Child(filter), FALSE)
  ELSE Reference(f.of, NoFilter, TRUE)

\* buildStructSchemaWithFilter.
Properties(t, filter) ==
  {[key |-> FieldName(f),
    schema |-> IF f.of = Scalar THEN <<>> ELSE ComponentName(FieldReference(f, filter))] :
      f \in ToSet(SelectedFields(t, filter))}

\* schemaForDescriptor, on a registry [components, referred]. A placeholder stands
\* for the component while its fields are looked at, so that types may refer to
\* each other; the plain type of every field is registered even if a child is used.
RECURSIVE Component(_, _)
Component(registry, reference) ==
  LET name == ComponentName(reference)
      seen == [registry EXCEPT !.referred = @ \cup {reference}]
      Field(sofar, f) ==
        IF f.of = Scalar THEN sofar
        ELSE LET plain == Component(sofar, Reference(f.of, NoFilter, TRUE))
                 used == FieldReference(f, reference.filter)
             IN IF used.raw THEN plain ELSE Component(plain, used)
  IN IF name \in DOMAIN registry.components THEN seen
     ELSE [FoldLeft(Field, [seen EXCEPT !.components = @ @@ (name :> {})],
                    SelectedFields(reference.type, reference.filter))
           EXCEPT !.components[name] = Properties(reference.type, reference.filter)]

-----------------------------------------------------------------------------
(* Answers.                                                                *)

\* What the value under a key is: a scalar (or a value that marshals itself), a
\* struct left to encoding/json, or one filtered in turn.
\* serializeModelSchemaStruct.
Serialized(t, filter) ==
  {[key |-> FieldName(f),
    value |-> IF ~Nested(f) THEN Scalar
              ELSE IF filter.depth > 0 THEN ComponentName(Reference(f.of, Child(filter), FALSE))
              ELSE ComponentName(Reference(f.of, NoFilter, TRUE))] :
      f \in ToSet(SelectedFields(t, filter))}

\* encoding/json knows no lower camel names.
Marshalled(t) ==
  {[key |-> IF f.tag = <<>> THEN f.go ELSE f.tag,
    value |-> IF ~Nested(f) THEN Scalar ELSE ComponentName(Reference(f.of, NoFilter, TRUE))] :
      f \in {g \in ToSet(FieldsOf(t)) : JSONName(g) # Hidden}}

Answered(reference) ==
  IF reference.raw THEN Marshalled(reference.type) ELSE Serialized(reference.type, reference.filter)

\* modelSchemaPreloads: the paths GORM loads for a descriptor.
RECURSIVE Preloads(_, _)
Preloads(t, filter) ==
  IF filter.depth = 0 THEN {}
  ELSE UNION {{f.go} \cup {f.go \o path : path \in Preloads(f.of, Child(filter))} :
                f \in {g \in ToSet(SelectedFields(t, filter)) :
                         Nested(g) /\ g.gorm \cap {"-", "embedded"} = {}}}

-----------------------------------------------------------------------------
(* Inputs.                                                                 *)

\* collectModelSchemaInputFields, modelSchemaInputFieldValue: an input names a field
\* of the model by its Go name or its JSON name; a nil pointer is not there.
InputPresent(body, f) ==
  LET name == IF f.go \in DOMAIN body THEN f.go ELSE JSONName(f)
  IN name \in DOMAIN body /\ body[name] # "nil"

\* applyModelSchemaInputFields.
Applied(t, filter, body) ==
  {f \in ToSet(FieldsOf(t)) :
     JSONName(f) # Hidden /\ Includes(filter, f) /\ InputPresent(body, f)}

-----------------------------------------------------------------------------

SchemaInit == components = [name \in {} |-> {}] /\ referred = {} /\ row = {} /\ writes = {}

\* An operation is added to the document.
Refer ==
  \E asked \in Asked :
    LET reference == [type |-> asked.type, filter |-> Filter(asked.selection),
                      name |-> asked.name, raw |-> asked.raw]
        registry == Component([components |-> components, referred |-> referred], reference)
    IN /\ reference \notin referred
       /\ components' = registry.components /\ referred' = registry.referred
  /\ UNCHANGED <<row, writes>>

ApplyInput ==
  \E writer \in Writers, body \in Bodies :
    LET filter == Filter(writer.selection)
    IN /\ writes = {}
       /\ row' = row \cup {[type |-> writer.type, field |-> f, mode |-> filter.mode] :
                             f \in Applied(writer.type, filter, body)}
       /\ writes' = writes \cup {[type |-> writer.type, mode |-> filter.mode, body |-> body]}
  /\ UNCHANGED <<components, referred>>

SchemaNext == Refer \/ ApplyInput

SchemaTypeOK ==
  /\ \A name \in DOMAIN components : \A p \in components[name] : p.schema = <<>> \/ p.schema \in DOMAIN components
  /\ {ComponentName(reference) : reference \in referred} = DOMAIN components
  /\ \A w \in row : w.type \in DOMAIN Structs

-----------------------------------------------------------------------------

\* Names that the code does not keep apart: types of two packages, a name given
\* twice, lists of fields that read the same once joined.
Clash(a, b) ==
  \/ a.name # "" /\ a.name = b.name
  \/ Structs[a.type].bare = Structs[b.type].bare
     /\ (\/ a.type # b.type
         \/ a.filter.fields # b.filter.fields /\ Joined(a.filter.fields) = Joined(b.filter.fields)
         \/ a.filter.exclude # b.filter.exclude /\ Joined(a.filter.exclude) = Joined(b.filter.exclude))

\* A component describes the answers of every reference to it, not only of the one
\* that registered it: the same keys, and the models behind them under the filter
\* they are serialized with. (Not where names clash, nor for the untagged fields
\* of a struct that encoding/json writes.)
ComponentsDescribeAnswers ==
  \A reference \in referred :
    \/ \E other \in referred \ {reference} : Clash(reference, other)
    \/ reference.raw /\ \E f \in ToSet(FieldsOf(reference.type)) : f.tag = <<>>
    \/ LET properties == components[ComponentName(reference)]
           answer == Answered(reference)
       IN /\ {p.key : p \in properties} = {a.key : a \in answer}
          /\ \A a \in answer, p \in properties : a.key = p.key /\ a.value # Scalar => p.schema = a.value

\* The models within an answer: the paths of at most as many fields as the depth, of
\* which the filter lets the first through and its mode the others.
OpenedBy(reference) ==
  LET filter == reference.filter
      Kept(t) == {f \in ToSet(SelectedFields(t, filter)) : Nested(f) /\ f.gorm \cap {"-", "embedded"} = {}}
      Inner(t) == {f \in ToSet(FieldsOf(t)) : JSONName(f) # Hidden /\ ModeIncludes(filter.mode, f) /\ Nested(f)
                                             /\ f.gorm \cap {"-", "embedded"} = {}}
  IN {path \in BoundedSeq(UNION {Kept(t) \cup Inner(t) : t \in DOMAIN Structs}, filter.depth) :
        /\ path # <<>> => path[1] \in Kept(reference.type)
        /\ \A i \in 2..Len(path) : path[i] \in Inner(path[i - 1].of)}

\* What an answer shows of the models behind its own, level by level, is loaded: the
\* paths its descriptor has GORM preload are those the depth and the mode open, no
\* level early, where an answer would say null, and none beyond what it shows.
OpenedIsLoaded ==
  \A reference \in referred :
    Preloads(reference.type, reference.filter) =
      {[i \in DOMAIN path |-> path[i].go[1]] : path \in OpenedBy(reference) \ {<<>>}}

\* An input writes no field that its mode leaves alone, and a nil pointer erases
\* nothing: what is written was sent.
WrittenWasSent ==
  \A w \in row :
    /\ ~ReadOnly(w.field) \/ w.mode \notin {"create", "update"}
    /\ \E written \in writes :
         /\ written.type = w.type /\ written.mode = w.mode
         /\ \E name \in {w.field.go, JSONName(w.field)} :
              name \in DOMAIN written.body /\ written.body[name] = "sent"

\* A model schema keeps its word to all three who rely on it: the reader of the
\* document, the reader of an answer, and the owner of the row.
SchemasKeepTheirWord == ComponentsDescribeAnswers /\ OpenedIsLoaded /\ WrittenWasSent
=============================================================================
