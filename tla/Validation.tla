----------------------------- MODULE Validation -----------------------------
(***************************************************************************)
(* What a field value has to be: coercion of a value to the type of its    *)
(* field, the merge of the claims that the types of a node make on a        *)
(* field, and the validation of all values of a node.  Pure operators:      *)
(* their users keep the state.                                              *)
(*                                                                          *)
(* A value is a scalar or a list; an item is a pair of a kind ("string",    *)
(* "number", "boolean") and a text.  Only a few texts are distinguished;    *)
(* the tables below say what the parsers make of them.                      *)
(***************************************************************************)
EXTENDS Naturals, Sequences, FiniteSets, SequencesExt

CONSTANT Texts          \* what a value may say

ASSUME TextsAssumption == {"lo", "7", "2026-01-05", "true", "false"} \subseteq Texts

FieldTypes == {"string", "number", "date", "boolean", "reference", "enum", "list"}
Items == {"string", "number", "boolean"} \X Texts
Values == [list : BOOLEAN, items : Seq(Items)]

Scalar(kind, text) == [list |-> FALSE, items |-> <<<<kind, text>>>>]
ListOf(items) == [list |-> TRUE, items |-> items]

\* No value; also the result of a coercion that fails.
NoValue == [list |-> FALSE, items |-> <<>>]
NoItem == <<"none", "">>

\* Trimmed and in lower case.
Folded(text) == IF text \in {"LO", " lo"} THEN "lo" ELSE text

\* The texts that the parsers of the other types take, and what they make of them.
\* Dates are found in prose; a date that does not exist, as 2026-02-30, is none.
Readable(type) ==
  CASE type = "number"  -> {"7"}
    [] type = "date"    -> {"2026-01-05", "monday"}
    [] type = "boolean" -> {"true", "yes", "false", "no"}
    [] OTHER            -> {}

ReadAs(type, text) ==
  CASE type = "number" -> "7"
    [] type = "date"   -> "2026-01-05"
    [] OTHER           -> IF text \in {"true", "yes"} THEN "true" ELSE "false"

\* The target of a wiki link, without its brackets and alias.
Target(text) == IF text = "[[lo]]" THEN "lo" ELSE text

FirstOf(set) == CHOOSE i \in set : \A j \in set : i <= j

CoerceItem(item, type, enums) ==
  LET kind == item[1]
      text == item[2]
      like == {i \in DOMAIN enums : Folded(enums[i]) = Folded(text)}
      read == IF type = "boolean" THEN Folded(text) ELSE text
  IN CASE type = "enum" -> IF like = {} THEN NoItem ELSE <<"string", enums[FirstOf(like)]>>
       [] type = "reference" /\ kind = "string" -> <<"string", Target(text)>>
       [] type = kind -> item
       [] kind = "string" /\ read \in Readable(type) ->
            <<IF type = "date" THEN kind ELSE type, ReadAs(type, read)>>
       [] type = "string" -> <<"string", text>>
       [] OTHER -> NoItem

\* def: [type, item]; a single value is wrapped into a list, and a list of one
\* item reads as that item where an enum member is expected.
Coerce(value, def, enums) ==
  LET type == IF def.type = "list" THEN def.item ELSE def.type
      Whole(items) == IF NoItem \in ToSet(items) THEN NoValue
                      ELSE [list |-> def.type = "list", items |-> items]
  IN IF value.list /\ def.type # "list" /\ ~(def.type = "enum" /\ Len(value.items) = 1)
       THEN NoValue
       ELSE Whole([i \in DOMAIN value.items |-> CoerceItem(value.items[i], type, enums)])

-----------------------------------------------------------------------------
(* db.fields: name -> [type, item, enums, required, dflt, open] or NoField;    *)
(* db.claims: schema -> (field -> [required, dflt, enums]).  A claim overrides *)
(* an attribute with a set of one element, and inherits it with the empty set. *)

Claimants(db, types, f) == {t \in ToSet(types) : f \in DOMAIN db.claims[t]}

\* The types agree, or the override is cancelled.
Agreed(overrides, inherited) ==
  IF Cardinality(overrides) = 1 THEN CHOOSE o \in overrides : TRUE ELSE inherited

EffectiveRequired(db, types, f) ==
  Agreed(UNION {db.claims[t][f].required : t \in Claimants(db, types, f)}, db.fields[f].required)

EffectiveDefault(db, types, f) ==
  Agreed(UNION {db.claims[t][f].dflt : t \in Claimants(db, types, f)}, db.fields[f].dflt)

\* The members that a type allows: its own, or those of the field.
AllowedEnums(db, f, t) == Agreed(db.claims[t][f].enums, db.fields[f].enums)

\* The types are tried in order, until one has the value.
Accepted(db, types, f, value) ==
  LET As(i) == Coerce(value, db.fields[f], AllowedEnums(db, f, types[i]))
      takers == {i \in DOMAIN types : f \in DOMAIN db.claims[types[i]] /\ As(i) # NoValue}
  IN IF takers = {} THEN NoValue ELSE As(FirstOf(takers))

EffectiveFields(db, types) == {f \in DOMAIN db.fields : Claimants(db, types, f) # {}}

\* The state to be stored, and what is wrong with the proposed one.  A default is
\* stored as it is; values that nobody claims are kept as they are.
Validate(db, types, proposed, skipDefaults) ==
  LET effective == EffectiveFields(db, types)
      Missing(f) == proposed[f] = NoValue /\ EffectiveRequired(db, types, f)
      state == [f \in DOMAIN proposed |->
        CASE f \notin effective -> proposed[f]
          [] f \in effective /\ proposed[f] # NoValue -> Accepted(db, types, f, proposed[f])
          [] f \in effective /\ Missing(f) /\ ~skipDefaults -> EffectiveDefault(db, types, f)
          [] OTHER -> NoValue]
  IN [state   |-> state,
      missing |-> {f \in effective : Missing(f) /\ state[f] = NoValue},
      invalid |-> {f \in effective : proposed[f] # NoValue /\ state[f] = NoValue}]

\* The conformance report of a node.
Orphans(db, types, values) == {f \in DOMAIN values : values[f] # NoValue} \ EffectiveFields(db, types)
=============================================================================
