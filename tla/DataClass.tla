------------------------------ MODULE DataClass ------------------------------
(***************************************************************************)
(* escudeiro/data: classes that the decorator rebuilds from their          *)
(* annotations, one after the other, each over those before it, and        *)
(* instances of the last one: their fields, which methods they inherit,    *)
(* what these compare and hash, and the way to a dict and back.            *)
(***************************************************************************)
EXTENDS Naturals, SequencesExt, FiniteSets, Sublists

CONSTANTS
  FieldNames,   \* names of fields
  FieldValues,  \* values of fields, which a dict holds as they are
  Bodies,       \* the class bodies of a program
  Simple,       \* those of them that it uses in a larger hierarchy
  MaxClasses    \* how many classes it declares

\* The annotations of a class body are a dict: each name is there once.
ASSUME DataAssumption ==
  \A body \in Bodies :
    /\ body \in [data : BOOLEAN, frozen : BOOLEAN, slots : BOOLEAN,
                 eq : BOOLEAN, hash : {"auto", "yes", "no"},
                 own : Seq([name : FieldNames, bare : BOOLEAN,
                            default : BOOLEAN, init : BOOLEAN,
                            kw_only : BOOLEAN, alias : STRING,
                            ref : FieldNames \cup {"none"},
                            eq : {"yes", "no", "parsed"},
                            hash : {"yes", "no", "own"},
                            hashable : BOOLEAN, dated : BOOLEAN])]
    /\ \A i, j \in DOMAIN body.own :
         body.own[i].name = body.own[j].name => i = j

VARIABLES
  classes,      \* the classes: [bases, mro, solid, body, attrs]
  instances,    \* instances of the last class
  touched,      \* a field was set after an instance was made
  copied        \* how the last instance was read from a dict: "no", by
                \* "name", or by "alias"

dataVars == <<classes, instances, touched, copied>>

\* field(), for an annotation with no value.  ref names the field from which
\* the value is computed; eq may be a function of the value, "parsed", and so
\* may hash, "own".  dated: the annotation is a date or a datetime.
FieldInfo(name) ==
  [name |-> name, bare |-> TRUE, default |-> FALSE, init |-> TRUE,
   kw_only |-> FALSE, alias |-> name, ref |-> "none", eq |-> "yes",
   hash |-> "yes", hashable |-> TRUE, dated |-> FALSE]

\* A class with the decorator's defaults.  (hash is "auto" for None.)
Decorated(own) ==
  [data |-> TRUE, own |-> own, frozen |-> TRUE, slots |-> TRUE, eq |-> TRUE,
   hash |-> "auto"]

DataInit ==
  classes = <<>> /\ instances = <<>> /\ touched = FALSE /\ copied = "no"

Body(k) == classes[k].body
NamesOf(fields) == {fields[i].name : i \in DOMAIN fields}

\* The first of a sequence of classes that is among some, or 0.
FirstIn(mro, ks) ==
  IF \E i \in DOMAIN mro : mro[i] \in ks
    THEN mro[CHOOSE i \in DOMAIN mro :
               mro[i] \in ks /\ \A j \in 1..(i - 1) : mro[j] \notin ks]
    ELSE 0

-----------------------------------------------------------------------------
(* Classes that Python makes.                                              *)

Own(i, j) ==
  Those(classes[i].mro, DOMAIN classes \ Range(classes[j].mro))

\* The order of classes, where the bases share only their last ancestors.
Mro(c, bases) ==
  CASE bases = <<>> -> <<c>>
    [] Len(bases) = 1 -> <<c>> \o classes[bases[1]].mro
    [] OTHER -> <<c>> \o Own(bases[1], bases[2]) \o classes[bases[2]].mro

\* Of two classes with slots of their own one must derive from the other.
DerivesFrom(i, j) == i # 0 /\ (j = 0 \/ Contains(classes[i].mro, j))
SolidBase(bases) ==
  LET solids == {classes[bases[i]].solid : i \in DOMAIN bases}
  IN  CHOOSE s \in solids \cup {0} :
        \A t \in solids : s = t \/ DerivesFrom(s, t)

Bases ==
  LET known == DOMAIN classes IN
  {<<>>} \cup {<<i>> : i \in known} \cup
  {b \in known \X known :
     LET s == classes[b[1]].solid
         t == classes[b[2]].solid
     IN  /\ ~Contains(classes[b[2]].mro, b[1])
         /\ IsPrefix(Own(b[1], b[2]), classes[b[1]].mro)
         /\ s = t \/ DerivesFrom(s, t) \/ DerivesFrom(t, s)}

-----------------------------------------------------------------------------
(* FieldsBuilder.                                                          *)

\* add_field: where the class inherits a slot of that name, an annotation
\* without a value adds nothing.
HasSlot(k, name) ==
  Body(k).data /\ Body(k).slots /\ name \in NamesOf(classes[k].attrs)
OwnFields(c, mro, body) ==
  LET slotted(f) == f.bare /\ \E k \in Range(Tail(mro)) : HasSlot(k, f.name)
      added == Picked(body.own,
                      {i \in DOMAIN body.own : ~slotted(body.own[i])})
  IN  [i \in DOMAIN added |-> [field |-> added[i], by |-> c,
                               name |-> added[i].name, inherited |-> FALSE]]

\* __squire_attrs__ as a class inherits it: a class without the decorator has
\* that of a parent.
SquireAttrs(k) ==
  LET there == FirstIn(classes[k].mro, {j \in DOMAIN classes : Body(j).data})
  IN  IF there = 0 THEN <<>> ELSE classes[there].attrs

Inherit(f) == [f EXCEPT !.inherited = TRUE]

\* Mutant: of the fields with one name the first is kept, not the last.
KeepFirst(fields) ==
  Picked(fields, {i \in DOMAIN fields :
                    \A j \in 1..(i - 1) : fields[j].name # fields[i].name})

\* Of the fields with one name the last is kept, in its place.
KeepLast(fields) ==
  Picked(fields, {i \in DOMAIN fields :
                    \A j \in (i + 1)..Len(fields) :
                      fields[j].name # fields[i].name})

\* _add_parent_fields: from the farthest parent to the nearest, what each has
\* added itself and the class does not.
Taken(k, own) ==
  LET attrs == SquireAttrs(k)
  IN  Picked(attrs, {i \in DOMAIN attrs : attrs[i].name \notin NamesOf(own)
                                           /\ ~attrs[i].inherited})
Gathered(parents, own) ==
  LET from[i \in 0..Len(parents)] ==   \* of the last i parents
        IF i = 0 THEN <<>>
        ELSE from[i - 1] \o Taken(parents[Len(parents) + 1 - i], own)
  IN  from[Len(parents)]
ParentFields(mro, own) ==
  LET kept == KeepLast(Gathered(Tail(mro), own))
  IN  [i \in DOMAIN kept |-> Inherit(kept[i])]

FieldMap(c, mro, body) ==
  LET own == OwnFields(c, mro, body)
  IN  IF body.data THEN ParentFields(mro, own) \o own ELSE <<>>

\* _validate_fields_order, and the names of the arguments of __init__.
ValidOrder(attrs) ==
  LET positional == {i \in DOMAIN attrs :
                       attrs[i].field.init /\ ~attrs[i].field.kw_only}
      arguments == {i \in DOMAIN attrs : attrs[i].field.init}
  IN  /\ \A i, j \in positional :
           i < j /\ attrs[i].field.default => attrs[j].field.default
      /\ \A i, j \in arguments :
           attrs[i].field.alias = attrs[j].field.alias => i = j

-----------------------------------------------------------------------------
(* __eq__ and __hash__.                                                    *)

Compared(attrs) ==
  Picked(attrs, {i \in DOMAIN attrs : attrs[i].field.eq # "no"})

\* Any value goes through a function, that of the hash before that of eq; one
\* that goes through none must be hashable.
MayHash(f) ==
  \/ f.field.hash = "own"
  \/ f.field.hash = "yes" /\ (f.field.eq = "parsed" \/ f.field.hashable)

\* Mutant: what __eq__ leaves out is hashed.
HashedAll(attrs) == Picked(attrs, {i \in DOMAIN attrs : MayHash(attrs[i])})

\* Fields of which _get_hash makes the hash, if it makes one.
Hashed(attrs) ==
  LET fields == Compared(attrs)
  IN  Picked(fields, {i \in DOMAIN fields : MayHash(fields[i])})

\* It raises where a hash is wanted that some field does not allow.
ValidHash(body, attrs) ==
  body.data /\ body.hash = "yes" =>
    /\ \A i \in DOMAIN attrs :
         LET f == attrs[i].field
         IN  f.eq = "yes" /\ f.hash = "yes" => f.hashable
    /\ Hashed(attrs) # <<>> \/ Compared(attrs) = <<>>

\* What the class has for __hash__: one of its own, none (Python's choice for
\* a class with only an __eq__), or what it inherits.
HashKind(k) ==
  LET body == Body(k)
      attrs == classes[k].attrs
      wanted == /\ body.data
                /\ body.hash = "yes" \/ (body.hash = "auto" /\ body.frozen)
  IN  CASE ~body.data -> "inherited"
        [] wanted /\ (Hashed(attrs) # <<>> \/ Compared(attrs) = <<>>) -> "own"
        [] OTHER -> IF body.eq THEN "none" ELSE "inherited"

\* The class whose method an instance of c uses, 0 for that of object.
EqOf(c) == FirstIn(classes[c].mro, {k \in DOMAIN classes :
                                       Body(k).data /\ Body(k).eq})
HashOf(c) == FirstIn(classes[c].mro, {k \in DOMAIN classes :
                                         HashKind(k) # "inherited"})

\* What __eq__ and __hash__ see of a field: a function that compares may hold
\* different values equal, which one that hashes tells apart.
View(f, o) == IF f.field.eq = "parsed" THEN "parsed" ELSE o[f.name]
HashView(f, o) == IF f.field.hash = "own" THEN o[f.name] ELSE View(f, o)
ViewAll(fields, o) == [i \in DOMAIN fields |-> View(fields[i], o)]
HashViewAll(fields, o) == [i \in DOMAIN fields |-> HashView(fields[i], o)]

-----------------------------------------------------------------------------
(* The program declares its classes.                                       *)

DeclareClass ==
  /\ Len(classes) < MaxClasses /\ instances = <<>>
  /\ \E bases \in Bases, body \in Bodies :
       LET this == Len(classes) + 1
           mro == Mro(this, bases)
           attrs == FieldMap(this, mro, body)
           slotted == \A f \in NamesOf(attrs) :
                        \E k \in Range(Tail(mro)) : HasSlot(k, f)
       IN  /\ this > 2 => \A k \in DOMAIN classes : Body(k) \in Simple
           /\ this > 2 => body \in Simple
           /\ ValidOrder(attrs) /\ ValidHash(body, attrs)
           /\ classes' = Append(classes,
                [bases |-> bases, mro |-> mro, body |-> body, attrs |-> attrs,
                 solid |-> IF body.data /\ body.slots /\ ~slotted
                             THEN this ELSE SolidBase(bases)])
  /\ UNCHANGED <<instances, touched, copied>>

-----------------------------------------------------------------------------
(* Instances of the last class.                                            *)

UNINITIALIZED == "uninitialized"
NotSet == "unset"
DefaultValue == CHOOSE v \in FieldValues : TRUE

The == Len(classes)
Attrs == SquireAttrs(The)
InitNames == {Attrs[i].name : i \in {j \in DOMAIN Attrs : Attrs[j].field.init}}

\* __init__ sets the fields in their order.
Initial(f, given, o) ==
  CASE f.init -> given[f.name]
    [] ~f.init /\ f.default -> DefaultValue
    [] ~f.init /\ ~f.default /\ f.ref # "none" -> o[f.ref]
    [] OTHER -> UNINITIALIZED
Initialized(given) ==
  LET set[i \in 0..Len(Attrs)] ==   \* by the first i fields
        IF i = 0 THEN [n \in FieldNames |-> NotSet]
        ELSE [set[i - 1] EXCEPT ![Attrs[i].name] =
                                   Initial(Attrs[i].field, given, set[i - 1])]
  IN  set[Len(Attrs)]

\* A ref that reads a field which is not set yet raises.
Constructed(o) == \A n \in NamesOf(Attrs) : o[n] # NotSet

MakeInstance ==
  /\ classes # <<>> /\ The <= 2 /\ Attrs # <<>>
  /\ Len(instances) < 2 /\ ~touched /\ copied = "no"
  /\ \E given \in [InitNames -> FieldValues] :
       /\ Constructed(Initialized(given))
       /\ instances' = Append(instances, Initialized(given))
  /\ UNCHANGED <<classes, touched, copied>>

\* frozen_setattr, which the subclasses of a frozen class inherit.
Frozen == \E k \in Range(classes[The].mro) : Body(k).data /\ Body(k).frozen

SetAttribute ==
  /\ Len(instances) = 1 /\ copied = "no"
  /\ \E n \in NamesOf(Attrs), v \in FieldValues :
       /\ Frozen => instances[1][n] = UNINITIALIZED
       /\ instances' = <<[instances[1] EXCEPT ![n] = v]>>
  /\ touched' = TRUE
  /\ UNCHANGED <<classes, copied>>

\* asdict: a later field with the same key takes the place of an earlier one.
KeyOf(f, by) == IF by = "alias" THEN f.field.alias ELSE f.name
AsDict(o, by) ==
  LET keys == {KeyOf(Attrs[i], by) : i \in DOMAIN Attrs}
      place(k) == CHOOSE i \in DOMAIN Attrs :
                    /\ KeyOf(Attrs[i], by) = k
                    /\ \A j \in DOMAIN Attrs :
                         KeyOf(Attrs[j], by) = k => j <= i
  IN  [k \in keys |-> o[Attrs[place(k)].name]]

\* Mutant: the name goes before the alias.
NameFirst(d, f) ==
  IF f.name \in DOMAIN d THEN d[f.name] ELSE d[f.field.alias]

\* _dict_get: the alias goes before the name.
DictGet(d, f) ==
  IF f.field.alias \in DOMAIN d THEN d[f.field.alias] ELSE d[f.name]

\* By its annotation fromdict parses a date from a string, and raises on the
\* date that asdict has left; other values it takes as they are.
ReadsBack(f) == f.field.init => ~f.field.dated

\* fromdict of what asdict has made, where it does not raise.
Convert ==
  /\ Len(instances) = 1 /\ copied = "no"
  /\ \A i \in DOMAIN Attrs : ReadsBack(Attrs[i])
  /\ copied' \in {"name", "alias"}
  /\ LET d == AsDict(instances[1], copied')
         place(n) == CHOOSE i \in DOMAIN Attrs : Attrs[i].name = n
         given == [n \in InitNames |-> DictGet(d, Attrs[place(n)])]
     IN  instances' = Append(instances, Initialized(given))
  /\ UNCHANGED <<classes, touched>>

-----------------------------------------------------------------------------
DataNext == DeclareClass \/ MakeInstance \/ SetAttribute \/ Convert

DataSpec == DataInit /\ [][DataNext]_dataVars

-----------------------------------------------------------------------------
DataTypeOK ==
  /\ Len(classes) <= MaxClasses
  /\ \A c \in DOMAIN classes :
       /\ Body(c) \in Bodies
       /\ Range(classes[c].mro) \subseteq 1..c
       /\ NamesOf(classes[c].attrs) \subseteq FieldNames
  /\ Len(instances) <= 2 /\ touched \in BOOLEAN
  /\ copied \in {"no", "name", "alias"}

\* Each field of a class is there once, as the first class in its order of
\* classes that defines it did, which need not be the one nearest to the root
\* nor the one declared last.  With one base, those that the class does not
\* define again come first, in the base's order: calls by position go on
\* working.  (Only where all classes in the order are data classes: one that
\* is not stands for the next that is, and may put a field back.)
FieldsFollowMro ==
  \A c \in DOMAIN classes :
    LET mro == classes[c].mro
        attrs == classes[c].attrs
        defines(k, n) == \E i \in DOMAIN classes[k].attrs :
          classes[k].attrs[i].name = n /\ classes[k].attrs[i].by = k
        base == classes[classes[c].bases[1]].attrs
        left == Picked(base, {i \in DOMAIN base : ~defines(c, base[i].name)})
    IN  (\A k \in Range(mro) : Body(k).data) =>
          /\ NamesOf(attrs) =
               UNION {NamesOf(classes[k].attrs) : k \in Range(mro)}
          /\ Cardinality(NamesOf(attrs)) = Len(attrs)
          /\ \A i \in DOMAIN attrs :
               attrs[i].by =
                 FirstIn(mro, {k \in DOMAIN classes :
                                 defines(k, attrs[i].name)})
          /\ Len(classes[c].bases) = 1 =>
               \A i \in DOMAIN left : attrs[i].name = left[i].name

\* What reading and comparing instances agrees on: equal instances hash equal,
\* and an instance that was read from another's dict has its arguments, and
\* unless a field was set since, all of its fields.  (Not so where a class
\* opts out of an __eq__ that it inherits, where a field is compared by one
\* function and hashed by another, as test_define_creates_hashable_classes has
\* it, and where the key of one field may be taken for that of another.  No
\* instance is read from a dict that has a date for an argument: fromdict
\* raises on it.)
EqualsAgree ==
  LET eq == EqOf(The)
      hash == HashOf(The)
      opted == \E k \in Range(classes[The].mro) : Body(k).data /\ ~Body(k).eq
      split == \E f \in Range(classes[eq].attrs) :
                 f.field.eq = "parsed" /\ f.field.hash = "own"
      fields == Range(Attrs)
      clash(f, g) == f # g /\ f.field.alias =
                       (IF copied = "alias" THEN g.field.alias ELSE g.name)
  IN  Len(instances) = 2 =>
        /\ eq # 0 /\ ~opted /\ ~split /\ hash # 0 /\ HashKind(hash) = "own" =>
             \/ ViewAll(Compared(classes[eq].attrs), instances[1])
                  # ViewAll(Compared(classes[eq].attrs), instances[2])
             \/ HashViewAll(Hashed(classes[hash].attrs), instances[1])
                  = HashViewAll(Hashed(classes[hash].attrs), instances[2])
        /\ copied # "no" /\ ~(\E f, g \in fields : clash(f, g)) =>
             /\ \A n \in InitNames : instances[1][n] = instances[2][n]
             /\ touched \/ instances[1] = instances[2]
=============================================================================
