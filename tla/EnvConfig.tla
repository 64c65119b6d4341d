------------------------------ MODULE EnvConfig ------------------------------
(***************************************************************************)
(* escudeiro/config: an environment whose names may not change once they   *)
(* were read, EnvConfig objects over it, each with a dotfile and with lazy *)
(* fields that keep what they have found out, and a factory that keeps the *)
(* objects it has filled from a configuration.  One thread uses them, as   *)
(* at the start of a program.                                              *)
(***************************************************************************)
EXTENDS Naturals, Sequences, FiniteSets

CONSTANTS
  Values,       \* values of the names that are not special
  DotFileSets,  \* the dotfiles there can be, as functions on DotFiles
  Settings,     \* arguments for an EnvConfig: [default, strict, ignoring,
                \* cascade], the last for its dotfile for "prd"
  MaxChanges    \* how often the environment is changed

VARIABLES
  mapping,      \* the environment
  alreadyRead,  \* already_read
  seen,         \* what has been read of it: pairs of a name and a value
  dotfiles,     \* the dotfiles
  objects,      \* the EnvConfig objects
  current,      \* the ContextVar config: the object in it, 0 for none
  cache,        \* _cache of a CachedFactory, by prefix
  primary,      \* its _primary
  changes       \* how often the environment was changed

env == <<mapping, alreadyRead, seen>>
memo == <<cache, primary>>
configVars == <<env, dotfiles, objects, current, memo, changes>>

Special == {"CONFIG_ENV", "CONFIG_DOTFILE"}
EnvNames == Special \cup {"field", "FIELD", "p_field", "P_FIELD"}
FromEnv(n) == CASE n = "CONFIG_ENV" -> {"dev", "prd", "bad"}
                [] n = "CONFIG_DOTFILE" -> {"override"}
                [] OTHER -> Values

NoPrefix == ""
NamePrefixes == {NoPrefix, "P"}
Absent == "absent"    \* MISSING, a file that is not there
NoneValue == "None"
Unset == [val |-> "unset", from |-> "nowhere"]
Blank == [n \in EnvNames |-> Absent]

\* What a dotfile can be: absent, not readable, or names and values.
DotFiles == {"dev", "prd", "override"}
Contents == {Absent, "bad", "good"}
InFile(f) ==
  [n \in EnvNames |-> CASE n = "FIELD" -> f
                      [] n = "CONFIG_ENV" /\ f = "override" -> "prd"
                      [] OTHER -> Absent]

ConfigInit ==
  /\ mapping = Blank /\ alreadyRead = {} /\ seen = {}
  /\ dotfiles = [f \in DotFiles |-> Absent]
  /\ objects = <<>> /\ current = 0
  /\ cache = [p \in NamePrefixes |-> Unset] /\ primary = Unset
  /\ changes = 0

-----------------------------------------------------------------------------
(* EnvMapping.                                                             *)

Change == changes < MaxChanges /\ changes' = changes + 1

\* Mutant: only __setitem__ looks whether the name was read.
MayDeleteAny(n) == mapping[n] # Absent

MayDelete(n) == mapping[n] # Absent /\ n \notin alreadyRead

SetItem ==
  /\ Change
  /\ \E n \in EnvNames \ alreadyRead : \E v \in FromEnv(n) :
       mapping' = [mapping EXCEPT ![n] = v]
  /\ UNCHANGED <<alreadyRead, seen, dotfiles, objects, current, memo>>

DelItem ==
  /\ Change
  /\ \E n \in EnvNames :
       MayDelete(n) /\ mapping' = [mapping EXCEPT ![n] = Absent]
  /\ UNCHANGED <<alreadyRead, seen, dotfiles, objects, current, memo>>

\* pop reads the name, which makes the deletion fail; so does popitem.
Pop ==
  /\ \E n \in EnvNames : /\ mapping[n] # Absent
                         /\ alreadyRead' = alreadyRead \cup {n}
                         /\ seen' = seen \cup {<<n, mapping[n]>>}
  /\ UNCHANGED <<mapping, dotfiles, objects, current, memo, changes>>

-----------------------------------------------------------------------------
(* An EnvConfig.  What reads it yields whether it returns or raises, what, *)
(* and the state s that it leaves: the object, and what has been read.  A  *)
(* value goes with where it is from: the name that it has in the           *)
(* environment, the dotfile, or a default.                                 *)

Object(files, default, strict, ignoring) ==
  [files |-> files, default |-> default, strict |-> strict,
   ignoring |-> ignoring, values |-> Blank,
   env |-> Unset, override |-> Unset, dotfile |-> Unset, ignore |-> Unset]

Now(object) == [object |-> object, read |-> alreadyRead, seen |-> seen]

Value(v, from) == [val |-> v, from |-> from]
Ok(v, s) == [ok |-> TRUE, is |-> v, s |-> s]
Fails(error, s) == [ok |-> FALSE, is |-> Value(error, "raised"), s |-> s]

\* What follows when a read has returned, and when a name was missing.
Then(result, Next(_, _)) ==
  IF result.ok THEN Next(result.is, result.s) ELSE result
Missing(result) == ~result.ok /\ result.is.val = "MissingName"
Else(result, Next(_)) == IF Missing(result) THEN Next(result.s) ELSE result

\* A lazy field keeps the value for good.
Keep(field, v, s) == Ok(v, [s EXCEPT !.object = [@ EXCEPT ![field] = v]])
Field(field, s, Find(_)) ==
  IF s.object[field] # Unset THEN Ok(s.object[field], s) ELSE Find(s)

\* _get_val: the environment comes before the dotfile.
GetVal(n, s) ==
  IF mapping[n] # Absent
    THEN Ok(Value(mapping[n], n),
            [s EXCEPT !.read = @ \cup {n},
                      !.seen = @ \cup {<<n, mapping[n]>>}])
    ELSE Ok(Value(s.object.values[n], "file"), s)

\* dotfile_override
DotfileOverride(s) ==
  Field("override", s, LAMBDA r :
    Then(GetVal("CONFIG_DOTFILE", r), LAMBDA raw, t :
      IF raw.val = Absent
        THEN Keep("override", Value(NoneValue, "default"), t)
      ELSE IF dotfiles[raw.val] = Absent THEN Fails("InvalidCast", t)
      ELSE Keep("override", raw, t)))

\* The environment where CONFIG_ENV does not say it.
EnvWithout(s) ==
  IF s.object.default # NoneValue
    THEN Keep("env", Value(s.object.default, "default"), s)
    ELSE Then(DotfileOverride(s), LAMBDA over, t :
           IF over.val # NoneValue
             THEN Keep("env", Value("always", "default"), t)
           ELSE IF t.object.strict THEN Fails("MissingName", t)
           ELSE Keep("env", Value(NoneValue, "default"), t))

\* env
Env(s) ==
  Field("env", s, LAMBDA r :
    Then(GetVal("CONFIG_ENV", r), LAMBDA raw, t :
      IF raw.val = Absent THEN EnvWithout(t)
      ELSE IF raw.val = "bad" THEN Fails("InvalidCast", t)
      ELSE Keep("env", raw, t)))

Weight(e) == CASE e = "dev" -> 3 [] e = "prd" -> 5 [] e = "always" -> 99

\* Of the dotfiles that are there, the one for the environment e, else the
\* closest cascading one for a higher environment.
FileFor(e, files) ==
  LET there == {d \in files : dotfiles[d.env] # Absent}
      above == {d \in there : d.cascade /\ Weight(d.env) >= Weight(e)}
  IN  CASE e = NoneValue -> NoneValue
        [] \E d \in there : d.env = e -> e
        [] above = {} -> NoneValue
        [] OTHER -> (CHOOSE d \in above : \A o \in above :
                       Weight(d.env) <= Weight(o.env)).env

\* dotfile: that of the override, else the one for the environment.
Dotfile(s) ==
  Then(DotfileOverride(s), LAMBDA over, t :
    IF over.val # NoneValue THEN Ok(over, t)
    ELSE Then(Env(t), LAMBDA e, u :
           Ok(Value(FileFor(e.val, u.object.files), "default"), u)))

\* __post_init__ reads the dotfile into the values of the object.
PostInit(s) ==
  Then(Dotfile(s), LAMBDA file, t :
    IF file.val = NoneValue THEN Keep("dotfile", file, t)
    ELSE IF dotfiles[file.val] = "bad" THEN Fails("InvalidDotenv", t)
    ELSE Keep("dotfile", file, [t EXCEPT !.object.values = InFile(file.val)]))

\* ignore_default
IgnoreDefault(s) ==
  Field("ignore", s, LAMBDA r :
    Then(Env(r), LAMBDA e, t :
      Keep("ignore",
           Value(IF e.val # NoneValue /\ e.val \in t.object.ignoring
                   THEN "yes" ELSE "no", "default"), t)))

\* get, with a default or with none (Absent).
GetName(n, default, s) ==
  Then(IgnoreDefault(s), LAMBDA ignore, t :
    Then(GetVal(n, t), LAMBDA found, u :
      IF found.val # Absent THEN Ok(found, u)
      ELSE IF ignore.val = "yes" \/ default = Absent
        THEN Fails("MissingName", u)
      ELSE Ok(Value(default, "default"), u)))

\* What a call leaves behind, and where the object is kept.
Leaves(result, i) ==
  /\ alreadyRead' = result.s.read /\ seen' = result.s.seen
  /\ objects' = [objects EXCEPT ![i] = result.s.object]

-----------------------------------------------------------------------------
(* What programs do with them.                                             *)

\* The disk and an EnvConfig of the program.
Construct ==
  /\ objects = <<>>
  /\ dotfiles' \in DotFileSets
  /\ \E c \in Settings :
       objects' = <<Object({[env |-> "dev", cascade |-> FALSE],
                            [env |-> "prd", cascade |-> c.cascade]},
                           c.default, c.strict, c.ignoring)>>
  /\ UNCHANGED <<env, current, memo, changes>>

IsBuilt(i) == i \in DOMAIN objects /\ objects[i].dotfile # Unset

\* __init__ of an object, which may raise, and be tried again.
Build ==
  /\ objects # <<>> /\ ~IsBuilt(1)
  /\ \E built \in {PostInit(Now(objects[1]))} :
       Leaves(IF built.ok THEN built
              ELSE Fails(built.is.val,
                         [built.s EXCEPT !.object = objects[1]]), 1)
  /\ UNCHANGED <<mapping, dotfiles, current, memo, changes>>

\* get_config makes a default object, if the program has set none.
GetConfig ==
  /\ Len(objects) = 1 /\ current = 0
  /\ \E built \in {PostInit(Now(Object({}, NoneValue, FALSE, {})))} :
       /\ built.ok
       /\ alreadyRead' = built.s.read /\ seen' = built.s.seen
       /\ objects' = Append(objects, built.s.object)
  /\ UNCHANGED <<mapping, dotfiles, current, memo, changes>>

\* set_config, once.
SetConfig ==
  /\ IsBuilt(1) /\ current = 0 /\ current' = 1
  /\ UNCHANGED <<env, dotfiles, objects, memo, changes>>

GetEnv ==
  /\ \E i \in DOMAIN objects :
       /\ i = IF current = 0 THEN 2 ELSE current
       /\ Leaves(Env(Now(objects[i])), i)
  /\ UNCHANGED <<mapping, dotfiles, current, memo, changes>>

\* What a call of get leaves behind does not depend on its default.
Get ==
  /\ \E i \in DOMAIN objects, n \in EnvNames :
       IsBuilt(i) /\ Leaves(GetName(n, Absent, Now(objects[i])), i)
  /\ UNCHANGED <<mapping, dotfiles, current, memo, changes>>

-----------------------------------------------------------------------------
(* AdapterConfigFactory and CachedFactory, of the program's object.        *)

\* resolve_names, for a class with one field.
ResolveNames(prefix) == IF prefix = NoPrefix THEN <<"field", "FIELD">>
                                           ELSE <<"p_field", "P_FIELD">>

\* _try_each: the names in order, each in the environment and in the dotfile,
\* and then the default of the class, if one for the first name is allowed.
TryEach(names, default, s) ==
  Else(GetName(names[1], Absent, s), LAMBDA t :
    Else(GetName(names[2], Absent, t), LAMBDA u :
      Then(GetName(names[1], "probe", u), LAMBDA found, w :
        IF found.from = "default" THEN Ok(Value(default, "default"), w)
                                  ELSE Fails("MissingName", w))))

LoadNow(prefix) == TryEach(ResolveNames(prefix), "default", Now(objects[1]))

\* load: what is kept is returned, for the primary whatever its prefix was.
Load ==
  /\ IsBuilt(1)
  /\ \E prefix \in NamePrefixes, isPrimary \in BOOLEAN :
       /\ cache[prefix] = Unset /\ ~(prefix = NoPrefix /\ primary # Unset)
       /\ \E result \in {LoadNow(prefix)} :
            /\ Leaves(result, 1)
            /\ IF result.ok
                 THEN /\ cache' = [cache EXCEPT ![prefix] = result.is]
                      /\ primary' = IF isPrimary THEN result.is ELSE primary
                 ELSE UNCHANGED memo
  /\ UNCHANGED <<mapping, dotfiles, current, changes>>

-----------------------------------------------------------------------------
ConfigNext ==
  \/ SetItem \/ DelItem \/ Pop
  \/ Construct \/ Build \/ GetConfig \/ SetConfig \/ GetEnv \/ Get \/ Load

ConfigSpec == ConfigInit /\ [][ConfigNext]_configVars

-----------------------------------------------------------------------------
ConfigTypeOK ==
  /\ \A n \in EnvNames : mapping[n] \in FromEnv(n) \cup {Absent}
  /\ alreadyRead \subseteq EnvNames /\ changes \in 0..MaxChanges
  /\ dotfiles \in [DotFiles -> Contents] /\ Len(objects) <= 2
  /\ current \in {0, 1}

\* Values that lazy fields and the factory keep.
Kept == {objects[i][f] : i \in DOMAIN objects, f \in {"env", "override"}}
        \cup {cache[p] : p \in NamePrefixes} \cup {primary}

\* Names that come before the one that a value is from.
Earlier(names, v) ==
  CASE v.from = names[1] -> {}
    [] v.from = names[2] -> {names[1]}
    [] OTHER -> {names[1], names[2]}

\* What anyone has read from the environment, directly or by way of a lazy
\* field or a loaded object that is kept, is what the environment still says
\* under that name: configurations that have found their environment there
\* agree on it.  An object that was loaded would be loaded with the same value
\* again, unless a name that comes before the one it is from was set since: a
\* name that was looked for and not found is not kept from being set.
ReadOnce ==
  /\ \A r \in seen : mapping[r[1]] = r[2]
  /\ \A v \in Kept : v.from \in EnvNames => mapping[v.from] = v.val
  /\ \A p \in NamePrefixes :
       /\ cache[p] # Unset
       /\ \A n \in Earlier(ResolveNames(p), cache[p]) : mapping[n] = Absent
       => LoadNow(p).ok /\ LoadNow(p).is = cache[p]
=============================================================================
