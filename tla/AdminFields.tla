----------------------------- MODULE AdminFields -----------------------------
(***************************************************************************)
(* What the admin site knows of its resources: the fields it reads off a   *)
(* model with their modes (admin/metadata.go: list, detail, create, ...),  *)
(* the relations between resources, and Site.Register (admin/admin.go),    *)
(* which completes the relations of all resources each time one is added.  *)
(*                                                                         *)
(* A resource is [name, model, fields, sets]; a field [name, kind, hidden, *)
(* sensitive, gorm, access, tag, options, relates, virtual]:               *)
(*   hidden     json:"-",  sensitive  by its name (password, key, ...)     *)
(*   gorm       "primarykey", "not null", "-"; access: "writeonly", ...    *)
(*   tag        settings of the admin tag: <<key, value>> pairs            *)
(*   options    the FieldOptions: mode or "hidden" -> BOOLEAN, and         *)
(*              relations: the relation given by tag or options, or none   *)
(*   relates    the model of the struct field a foreign key stands for     *)
(* Labels, components, placeholders and other texts are left out.          *)
(***************************************************************************)
EXTENDS Naturals, SequencesExt

CONSTANTS
  Resources,      \* the values of *Resource the program has
  MaxRegistered   \* bound on the calls of Register

ASSUME ResourcesAssumption == \A r \in Resources : r.fields \in Seq(ToSet(r.fields))

VARIABLES
  site,        \* the registered resources, in order
  prepared,    \* what prepare made of each resource: [modes, relations], or unprepared
  repeated,    \* history: resources prepared again since relations were last completed
  calls        \* how often Register was called

adminFieldsVars == <<site, prepared, repeated, calls>>

Modes == {"list", "detail", "create", "update", "filter", "sort", "search"}
NoRelation == [resource |-> "none"]
Unprepared == [modes |-> <<>>]

\* The keys of the admin tag that set a mode; two have two names.
TagModes == {<<m, m>> : m \in Modes} \cup {<<"filterable", "filter">>, <<"sortable", "sort">>}

-----------------------------------------------------------------------------
(* buildFieldMeta.                                                         *)

ScalarKinds == {"string", "number", "bool", "time"}

\* isReadOnlyField, and what json hides.
FieldReadOnly(field) ==
  \/ field.hidden \/ "primarykey" \in field.gorm
  \/ field.name \in {"id", "createdAt", "updatedAt", "deletedAt"}

InferredModes(field) ==
  LET unread == field.hidden \/ "writeonly" \in field.access
      secret == unread \/ field.sensitive
      scalar == field.kind \in ScalarKinds
      writable == ~FieldReadOnly(field) /\ field.kind \notin {"time", "struct"}
      either == field.access \cap {"createonly", "updateonly"} = {}
  IN {m \in Modes :
        CASE m = "detail" -> ~secret
          [] m \in {"list", "filter", "sort"} -> ~secret /\ scalar
          [] m = "search" -> ~secret /\ field.kind = "string"
          [] m = "create" -> writable /\ (either \/ "createonly" \in field.access)
          [] m = "update" -> writable /\ (either \/ "updateonly" \in field.access)}
     \ (IF field.name = "deletedAt" THEN {"detail", "list", "filter", "sort"} ELSE {})

\* applyAdminTag goes through the settings of a map, in no order: of two settings for
\* one mode either may be the last. lastly: the disputed modes that end up TRUE.
TagSettings(field, mode) == {s[2] : s \in {t \in field.tag : <<t[1], mode>> \in TagModes}}
DisputedModes(field) == {m \in Modes : TagSettings(field, m) = BOOLEAN}
TaggedModes(field, lastly) ==
  LET before == IF <<"hidden", TRUE>> \in field.tag THEN {} ELSE InferredModes(field)
  IN {m \in Modes :
        CASE TagSettings(field, m) = {} -> m \in before
          [] m \in DisputedModes(field) -> m \in lastly
          [] OTHER -> TagSettings(field, m) = {TRUE}}

\* applyFieldOptions: what the options say of a mode; hidden takes them all away.
OptionModes(field, modes) ==
  IF "hidden" \in DOMAIN field.options /\ field.options["hidden"] THEN {}
  ELSE {m \in Modes : IF m \in DOMAIN field.options THEN field.options[m] ELSE m \in modes}

\* applyFieldSet: a list of names of the resource decides alone.
SetModes(resource, field, modes) ==
  {m \in Modes : IF m \in DOMAIN resource.sets THEN field.name \in resource.sets[m] ELSE m \in modes}

\* relationMetaFromTag and FieldOptions.Relation; inferAutoRelation: the value is the
\* id, the rest is found when the related resource is registered.
GivenRelation(field) ==
  IF field.relations # NoRelation THEN field.relations
  ELSE IF field.relates # "none" THEN [resource |-> "", value |-> "id", label |-> "", search |-> {}]
  ELSE NoRelation
AutoRelation(field) == field.relations = NoRelation /\ field.relates # "none"

FieldsOf(resource) == ToSet(resource.fields)
FieldNames(resource) == {field.name : field \in FieldsOf(resource)}
Named(resource, name) == CHOOSE field \in FieldsOf(resource) : field.name = name

\* <<field, mode>> pairs whose tag settings contradict each other.
Disputes(resource) ==
  UNION {{field.name} \X DisputedModes(field) : field \in FieldsOf(resource)}

\* prepare fails without a primary key, and for a list that names an unknown field.
BadResource(resource) ==
  \/ \A field \in FieldsOf(resource) : "primarykey" \notin field.gorm /\ field.name # "id"
  \/ \E m \in DOMAIN resource.sets : ~(resource.sets[m] \subseteq FieldNames(resource))

FirstField(resource, places) == resource.fields[Min(places)]
KeyPlaces(resource) ==
  {i \in DOMAIN resource.fields : "primarykey" \in resource.fields[i].gorm \/ resource.fields[i].name = "id"}
PrimaryKey(resource) == FirstField(resource, KeyPlaces(resource))

-----------------------------------------------------------------------------
(* Relations.                                                              *)

UsualLabels == <<"name", "title", "code", "email">>

\* inferRelationLabelField: a text field with a usual name, the first text field, the key.
LabelField(target) ==
  LET texts == {i \in DOMAIN target.fields : target.fields[i].kind = "string"}
      usual == {k \in DOMAIN UsualLabels : \E i \in texts : target.fields[i].name = UsualLabels[k]}
  IN IF usual # {} THEN UsualLabels[Min(usual)]
     ELSE IF texts # {} THEN FirstField(target, texts).name ELSE PrimaryKey(target).name

\* inferRelationSearchFields.
SearchFieldsOf(target, label) ==
  {name \in {label} \cup ToSet(UsualLabels) :
     \E field \in FieldsOf(target) : field.name = name /\ field.kind = "string"}

Completed(relation, target) ==
  LET label == IF relation.label = "" THEN LabelField(target) ELSE relation.label
  IN [relation EXCEPT !.resource = IF @ = "" THEN target.name ELSE @,
                      !.label = label,
                      !.search = IF @ = {} THEN SearchFieldsOf(target, label) ELSE @]

\* byModel: the resource of a model, if there is but one; byName. Either has at most
\* one, which is The one.
OfModel(registered, model) ==
  {r \in ToSet(registered) : r.model = model /\ \A s \in ToSet(registered) : s.model = model => s = r}
OfName(registered, name) == {r \in ToSet(registered) : r.name = name}
The(found) == CHOOSE r \in found : TRUE

\* resolveAutoRelations, of one field. A model of two resources leads nowhere.
Resolved(registered, field, relation) ==
  IF relation = NoRelation THEN relation
  ELSE IF AutoRelation(field)
  THEN IF OfModel(registered, field.relates) = {} THEN GivenRelation(field)
       ELSE Completed(relation, The(OfModel(registered, field.relates)))
  ELSE IF OfName(registered, relation.resource) = {} THEN relation
  ELSE Completed(relation, The(OfName(registered, relation.resource)))

ResolveAll(registered, all) ==
  [r \in Resources |->
     IF r \notin ToSet(registered) THEN all[r]
     ELSE [all[r] EXCEPT !.relations =
             [name \in DOMAIN @ |-> Resolved(registered, Named(r, name), @[name])]]]

-----------------------------------------------------------------------------

AdminFieldsTypeOK ==
  /\ site \in Seq(Resources) /\ repeated \subseteq Resources
  /\ \A r \in ToSet(site) :
       /\ DOMAIN prepared[r].modes = FieldNames(r)
       /\ \A name \in FieldNames(r) : prepared[r].modes[name] \subseteq Modes
  /\ calls \in 0..MaxRegistered

AdminFieldsInit ==
  /\ site = <<>> /\ prepared = [r \in Resources |-> Unprepared]
  /\ repeated = {} /\ calls = 0

\* Register: prepare the resource, whatever it was before, then look whether its name
\* is taken, then complete the relations of all.
Register(resource) ==
  /\ calls < MaxRegistered /\ calls' = calls + 1
  /\ IF BadResource(resource)
     THEN UNCHANGED <<site, prepared, repeated>>
     ELSE \E lastly \in SUBSET Disputes(resource) :
       LET fresh == [prepared EXCEPT ![resource] =
                [modes |-> [name \in FieldNames(resource) |->
                   LET field == Named(resource, name)
                   IN SetModes(resource, field, OptionModes(field,
                        TaggedModes(field, {m \in Modes : <<name, m>> \in lastly})))],
                 relations |-> [name \in FieldNames(resource) |->
                                  GivenRelation(Named(resource, name))]]]
          IN IF OfName(site, resource.name) # {}
             THEN /\ prepared' = fresh
                  /\ repeated' = repeated \cup (ToSet(site) \cap {resource})
                  /\ UNCHANGED site
             ELSE /\ site' = Append(site, resource)
                  /\ prepared' = ResolveAll(site', fresh)
                  /\ repeated' = {}

AdminFieldsNext == \E resource \in Resources : Register(resource)

-----------------------------------------------------------------------------

\* In whatever order the resources are registered, a foreign key leads to the
\* resource of its model if there is exactly one, with a label that resource has, and
\* nowhere otherwise; but for a resource that was registered a second time, which
\* Register refuses after it has forgotten where its relations lead.
RelationsFollowRegistrations ==
  \A r \in ToSet(site) \ repeated : \A name \in FieldNames(r) :
    LET field == Named(r, name) targets == OfModel(site, field.relates)
    IN AutoRelation(field) =>
         /\ prepared[r].relations[name].resource = IF targets # {} THEN The(targets).name ELSE ""
         /\ targets # {} => prepared[r].relations[name].label \in FieldNames(The(targets))
=============================================================================
