--------------------------- MODULE Schemas_proofs ---------------------------
(***************************************************************************)
(* Schemas, fields and the values of nodes, for any catalog, any nodes and *)
(* any sequence of changes and undo.                                       *)
(***************************************************************************)
EXTENDS Schemas, SequenceFacts

-----------------------------------------------------------------------------
(* Coercion: a value becomes one that is coerced again. *)

LEMMA FirstIsIn ==
  ASSUME NEW set \in SUBSET Nat, set # {}
  PROVE  FirstOf(set) \in set
<1>1. \E i \in set : \A j \in set : i <= j
  BY Least
<1> QED
  BY <1>1 DEF FirstOf

\* What the parsers read is a text, and a date is read again.
LEMMA ReadingsTyped ==
  ASSUME NEW type \in FieldTypes, NEW text \in Readable(type)
  PROVE  /\ type \in {"number", "date", "boolean"}
         /\ ReadAs(type, text) \in Texts
         /\ type = "date" => ReadAs(type, text) \in Readable(type)
<1>1. type \in {"number", "date", "boolean"}
  BY DEF Readable, FieldTypes
<1>2. CASE type = "number"
  BY <1>2, TextsAssumption DEF ReadAs
<1>3. CASE type = "date"
  BY <1>3, TextsAssumption DEF Readable, ReadAs
<1>4. CASE type = "boolean"
  BY <1>4, TextsAssumption DEF ReadAs
<1> QED
  BY <1>1, <1>2, <1>3, <1>4

Kinds == {"string", "number", "boolean"}
Like(text, enums) == {i \in DOMAIN enums : Folded(enums[i]) = Folded(text)}
Read(text, type) == IF type = "boolean" THEN Folded(text) ELSE text

\* The cases of a conversion.
LEMMA CasesOfCoercion ==
  ASSUME NEW kind \in Kinds, NEW text \in Texts, NEW type \in FieldTypes, NEW enums \in Seq(Texts),
         NEW new, new = CoerceItem(<<kind, text>>, type, enums)
  PROVE  /\ type = "enum" =>
              new = IF Like(text, enums) = {} THEN NoItem ELSE <<"string", enums[FirstOf(Like(text, enums))]>>
         /\ type = "reference" /\ kind = "string" => new = <<"string", Target(text)>>
         /\ type = kind => new = <<kind, text>>
         /\ type \in {"number", "boolean"} /\ kind = "string" /\ Read(text, type) \in Readable(type) =>
              new = <<type, ReadAs(type, Read(text, type))>>
         /\ type = "date" /\ kind = "string" /\ text \in Readable(type) => new = <<"string", ReadAs(type, text)>>
         /\ type = "string" => new = <<"string", text>>
         /\ \/ type \in {"enum", "string", kind}
            \/ kind = "string" /\ (type = "reference" \/ Read(text, type) \in Readable(type))
            \/ new = NoItem
<1>1. \A i \in {"enum", "reference", "string", "list"} : Readable(i) = {}
  BY DEF Readable
<1>2. new = LET like == Like(text, enums)
                read == Read(text, type)
            IN CASE type = "enum" -> IF like = {} THEN NoItem ELSE <<"string", enums[FirstOf(like)]>>
                 [] type = "reference" /\ kind = "string" -> <<"string", Target(text)>>
                 [] type = kind -> <<kind, text>>
                 [] kind = "string" /\ read \in Readable(type) ->
                      <<IF type = "date" THEN kind ELSE type, ReadAs(type, read)>>
                 [] type = "string" -> <<"string", text>>
                 [] OTHER -> NoItem
  BY DEF CoerceItem, Like, Read
<1> HIDE DEF Read
<1>3. type = "date" => Read(text, type) = text
  BY DEF Read
<1> QED
  BY <1>1, <1>2, <1>3 DEF Kinds, FieldTypes

LEMMA StringItems ==
  ASSUME NEW text \in Texts, NEW kind \in Kinds
  PROVE  <<kind, text>> \in Items /\ <<kind, text>> # NoItem
BY DEF Items, NoItem, Kinds

\* An item is converted to an item or to none, and what is converted, again.
LEMMA CoerceItemFits ==
  ASSUME NEW item \in Items, NEW type \in FieldTypes, NEW enums \in Seq(Texts),
         NEW new, new = CoerceItem(item, type, enums)
  PROVE  new = NoItem \/ (new \in Items /\ CoerceItem(new, type, enums) # NoItem)
<1>1. PICK kind \in Kinds, text \in Texts : item = <<kind, text>>
  BY DEF Items, Kinds
<1>2. Len(enums) \in Nat /\ DOMAIN enums = 1 .. Len(enums) /\ \A i \in DOMAIN enums : enums[i] \in Texts
  BY LenProperties, ElementOfSeq
<1>s. "string" \in Kinds
  BY DEF Kinds
<1>3. CASE type = "enum" /\ Like(text, enums) # {}
  <2>1. Like(text, enums) \in SUBSET Nat
    BY <1>2 DEF Like
  <2>2. FirstOf(Like(text, enums)) \in Like(text, enums)
    BY <1>3, <2>1, FirstIsIn
  <2> DEFINE member == enums[FirstOf(Like(text, enums))]
  <2>3. new = <<"string", member>>
    BY <1>1, <1>3, CasesOfCoercion
  <2>4. member \in Texts /\ FirstOf(Like(text, enums)) \in Like(member, enums)
    BY <1>2, <2>2 DEF Like
  <2> HIDE DEF member
  <2>5. Like(member, enums) \in SUBSET Nat /\ Like(member, enums) # {}
    BY <1>2, <2>4 DEF Like
  <2>6. FirstOf(Like(member, enums)) \in DOMAIN enums
    BY <2>5, FirstIsIn DEF Like
  <2>7. CoerceItem(<<"string", member>>, type, enums) = <<"string", enums[FirstOf(Like(member, enums))]>>
    BY <1>3, <1>s, <2>4, <2>5, CasesOfCoercion
  <2> QED
    BY <1>2, <1>s, <2>3, <2>4, <2>6, <2>7, StringItems
<1>4. CASE type = "reference" /\ kind = "string"
  <2>1. new = <<"string", Target(text)>>
    BY <1>1, <1>4, CasesOfCoercion
  <2>2. Target(text) \in Texts
    BY TextsAssumption DEF Target
  <2>3. CoerceItem(<<"string", Target(text)>>, type, enums) = <<"string", Target(Target(text))>>
    BY <1>4, <1>s, <2>2, CasesOfCoercion
  <2>4. Target(Target(text)) \in Texts
    BY <2>2, TextsAssumption DEF Target
  <2> QED
    BY <1>s, <2>1, <2>2, <2>3, <2>4, StringItems
<1>5. CASE type = kind
  <2>1. new = <<kind, text>>
    BY <1>1, <1>5, CasesOfCoercion
  <2> QED
    BY <1>1, <2>1, StringItems
<1>6. CASE type \in {"number", "boolean"} /\ kind = "string" /\ Read(text, type) \in Readable(type)
  <2> DEFINE read == ReadAs(type, Read(text, type))
  <2>1. new = <<type, read>>
    BY <1>1, <1>6, CasesOfCoercion
  <2>2. read \in Texts /\ type \in Kinds
    BY <1>6, ReadingsTyped DEF Kinds
  <2> HIDE DEF read
  <2>3. CoerceItem(<<type, read>>, type, enums) = <<type, read>>
    BY <2>2, CasesOfCoercion
  <2> QED
    BY <2>1, <2>2, <2>3, StringItems
<1>7. CASE type = "date" /\ kind = "string" /\ text \in Readable(type)
  <2> DEFINE read == ReadAs(type, text)
  <2>1. new = <<"string", read>>
    BY <1>1, <1>7, CasesOfCoercion
  <2>2. read \in Texts /\ read \in Readable(type)
    BY <1>7, ReadingsTyped
  <2>3. ReadAs(type, read) \in Texts
    BY <2>2, ReadingsTyped
  <2> HIDE DEF read
  <2>4. CoerceItem(<<"string", read>>, type, enums) = <<"string", ReadAs(type, read)>>
    BY <1>7, <1>s, <2>2, CasesOfCoercion
  <2> QED
    BY <1>s, <2>1, <2>2, <2>3, <2>4, StringItems
<1>8. CASE type = "string"
  <2>1. new = <<"string", text>>
    BY <1>1, <1>8, CasesOfCoercion
  <2>2. CoerceItem(<<"string", text>>, type, enums) = <<"string", text>>
    BY <1>8, <1>s, CasesOfCoercion
  <2> QED
    BY <1>s, <2>1, <2>2, StringItems
<1>9. CASE new = NoItem
  BY <1>9
<1>10. type = "date" => Read(text, type) = text
  BY DEF Read
<1>11. kind = "string" /\ Read(text, type) \in Readable(type) => type \in {"number", "date", "boolean"}
  BY ReadingsTyped
<1>12. /\ type = "enum" /\ Like(text, enums) = {} => new = NoItem
       /\ \/ type \in {"enum", "string", kind}
          \/ kind = "string" /\ (type = "reference" \/ Read(text, type) \in Readable(type))
          \/ new = NoItem
  BY <1>1, CasesOfCoercion
<1> QED
  BY <1>3, <1>4, <1>5, <1>6, <1>7, <1>8, <1>9, <1>10, <1>11, <1>12

\* A value is converted to a value, and what is converted, again.
LEMMA CoerceFits ==
  ASSUME NEW value \in Values, NEW def \in FieldDefs, NEW enums \in Seq(Texts),
         NEW new, new = Coerce(value, def, enums)
  PROVE  new \in Values /\ (new # NoValue => Coerce(new, def, enums) # NoValue)
<1> DEFINE type == IF def.type = "list" THEN def.item ELSE def.type
           items == [i \in DOMAIN value.items |-> CoerceItem(value.items[i], type, enums)]
           Wrong == value.list /\ def.type # "list" /\ ~(def.type = "enum" /\ Len(value.items) = 1)
<1>1. type \in FieldTypes /\ def.type \in FieldTypes
  BY DEF FieldDefs
<1>2. value.items \in Seq(Items) /\ value.list \in BOOLEAN /\ value = [list |-> value.list, items |-> value.items]
  BY DEF Values
<1>3. Len(value.items) \in Nat /\ DOMAIN value.items = 1 .. Len(value.items)
      /\ \A i \in DOMAIN value.items : value.items[i] \in Items
  BY <1>2, LenProperties, ElementOfSeq
<1>4. NoValue \in Values
  BY EmptySeq DEF NoValue, Values
<1>5. CASE Wrong \/ NoItem \in ToSet(items)
  <2>1. new = NoValue
    BY <1>5 DEF Coerce
  <2> QED
    BY <1>4, <2>1
<1>6. CASE ~Wrong /\ NoItem \notin ToSet(items)
  <2>1. new = [list |-> def.type = "list", items |-> items]
    BY <1>6 DEF Coerce
  <2>2. \A i \in DOMAIN items : items[i] # NoItem
    BY <1>6 DEF ToSet
  <2>3. \A i \in DOMAIN items : items[i] \in Items /\ CoerceItem(items[i], type, enums) # NoItem
    BY <1>1, <1>3, <2>2, CoerceItemFits
  <2>4. items \in [1 .. Len(value.items) -> Items]
    BY <1>3, <2>3
  <2>5. items \in Seq(Items)
    BY <1>3, <2>4, SeqDef
  <2>6. new \in Values
    BY <2>1, <2>5 DEF Values
  <2>7. new # NoValue => Coerce(new, def, enums) # NoValue
    <3> DEFINE again == [i \in DOMAIN new.items |-> CoerceItem(new.items[i], type, enums)]
    <3>1. new.items = items /\ new.list = (def.type = "list")
      BY <2>1
    <3>2. NoItem \notin ToSet(again)
      BY <2>3, <3>1 DEF ToSet
    <3>3. ~(new.list /\ def.type # "list" /\ ~(def.type = "enum" /\ Len(new.items) = 1))
      BY <3>1
    <3>4. Coerce(new, def, enums) = [list |-> def.type = "list", items |-> again]
      BY <3>2, <3>3 DEF Coerce
    <3>5. CASE def.type = "list"
      <4> DEFINE list == (def.type = "list")
      <4>1. list
        BY <3>5
      <4>2. Coerce(new, def, enums) = [list |-> list, items |-> again]
        BY <3>4
      <4> HIDE DEF list
      <4>3. Coerce(new, def, enums).list = list
        BY <4>2
      <4>4. NoValue.list = FALSE
        BY DEF NoValue
      <4> QED
        BY <4>1, <4>3, <4>4
    <3>6. CASE def.type # "list" /\ new # NoValue
      <4>1. items # <<>>
        BY <2>1, <3>6 DEF NoValue
      <4>2. DOMAIN items # {}
        BY <2>5, <4>1, EmptySeq, NoElements, LenProperties
      <4>3. DOMAIN again # DOMAIN <<>>
        BY <3>1, <4>2
      <4> QED
        BY <3>4, <4>3 DEF NoValue
    <3> QED
      BY <3>5, <3>6
  <2> QED
    BY <2>6, <2>7
<1> QED
  BY <1>5, <1>6
-----------------------------------------------------------------------------
(* Validation *)

TypedContext(c) ==
  /\ DOMAIN c.fields \subseteq FieldNames
  /\ \A f \in DOMAIN c.fields : c.fields[f] \in FieldDefs
  /\ \A s \in SchemaNames : DOMAIN c.claims[s] \subseteq DOMAIN c.fields
  /\ \A s \in SchemaNames : \A f \in DOMAIN c.claims[s] : c.claims[s][f] \in Claim

LEMMA AgreedIn ==
  ASSUME NEW X, NEW overrides \in SUBSET X, NEW inherited \in X
  PROVE  Agreed(overrides, inherited) \in X
<1>1. Cardinality({}) = 0
  BY FS_EmptySet
<1>2. CASE Cardinality(overrides) = 1
  <2>1. overrides # {}
    BY <1>1, <1>2
  <2>2. (CHOOSE o \in overrides : TRUE) \in overrides
    BY <2>1
  <2> QED
    BY <1>2, <2>2 DEF Agreed
<1>3. CASE Cardinality(overrides) # 1
  BY <1>3 DEF Agreed
<1> QED
  BY <1>2, <1>3

\* What the claims make of the attributes of a field.
LEMMA AttributesTyped ==
  ASSUME NEW c, TypedContext(c), NEW types \in Seq(SchemaNames), NEW f \in DOMAIN c.fields
  PROVE  /\ EffectiveRequired(c, types, f) \in BOOLEAN
         /\ EffectiveDefault(c, types, f) \in Values
         /\ \A i \in DOMAIN types :
              f \in DOMAIN c.claims[types[i]] => AllowedEnums(c, f, types[i]) \in Seq(Texts)
<1>1. c.fields[f] \in FieldDefs
  BY DEF TypedContext
<1>2. /\ c.fields[f].required \in BOOLEAN /\ c.fields[f].dflt \in Values
      /\ c.fields[f].enums \in Seq(Texts)
  BY <1>1 DEF FieldDefs
<1>3. \A t \in Claimants(c, types, f) :
        /\ t \in SchemaNames /\ f \in DOMAIN c.claims[t]
        /\ c.claims[t][f].required \in SUBSET BOOLEAN /\ c.claims[t][f].dflt \in SUBSET Values
  <2> SUFFICES ASSUME NEW t \in Claimants(c, types, f)
               PROVE  /\ t \in SchemaNames /\ f \in DOMAIN c.claims[t]
                      /\ c.claims[t][f].required \in SUBSET BOOLEAN /\ c.claims[t][f].dflt \in SUBSET Values
    OBVIOUS
  <2>1. t \in ToSet(types) /\ f \in DOMAIN c.claims[t]
    BY DEF Claimants
  <2>2. t \in SchemaNames
    BY <2>1, ElementOfSeq, LenProperties DEF ToSet
  <2>3. c.claims[t][f] \in Claim
    BY <2>1, <2>2 DEF TypedContext
  <2> QED
    BY <2>1, <2>2, <2>3 DEF Claim
<1>4. EffectiveRequired(c, types, f) \in BOOLEAN
  <2> DEFINE all == UNION {c.claims[t][f].required : t \in Claimants(c, types, f)}
  <2>1. all \in SUBSET BOOLEAN
    BY <1>3
  <2> HIDE DEF all
  <2>2. Agreed(all, c.fields[f].required) \in BOOLEAN
    BY <1>2, <2>1, AgreedIn
  <2> QED
    BY <2>2 DEF all, EffectiveRequired
<1>5. EffectiveDefault(c, types, f) \in Values
  <2> DEFINE all == UNION {c.claims[t][f].dflt : t \in Claimants(c, types, f)}
  <2>1. all \in SUBSET Values
    BY <1>3
  <2> HIDE DEF all
  <2>2. Agreed(all, c.fields[f].dflt) \in Values
    BY <1>2, <2>1, AgreedIn
  <2> QED
    BY <2>2 DEF all, EffectiveDefault
<1>6. ASSUME NEW i \in DOMAIN types, f \in DOMAIN c.claims[types[i]]
      PROVE  AllowedEnums(c, f, types[i]) \in Seq(Texts)
  <2>1. types[i] \in SchemaNames
    BY ElementOfSeq, LenProperties
  <2>2. c.claims[types[i]][f] \in Claim
    BY <1>6, <2>1 DEF TypedContext
  <2>3. c.claims[types[i]][f].enums \in SUBSET Seq(Texts)
    BY <2>2 DEF Claim
  <2> QED
    BY <1>2, <2>3, AgreedIn DEF AllowedEnums
<1> QED
  BY <1>4, <1>5, <1>6

\* A value that a type accepts is accepted again.
LEMMA AcceptedAgain ==
  ASSUME NEW c, TypedContext(c), NEW types \in Seq(SchemaNames), NEW f \in DOMAIN c.fields,
         NEW value \in Values, NEW new, new = Accepted(c, types, f, value)
  PROVE  new \in Values /\ (new # NoValue => Accepted(c, types, f, new) # NoValue)
<1> DEFINE As(x, i) == Coerce(x, c.fields[f], AllowedEnums(c, f, types[i]))
           Takers(x) == {i \in DOMAIN types : f \in DOMAIN c.claims[types[i]] /\ As(x, i) # NoValue}
<1>1. c.fields[f] \in FieldDefs
  BY DEF TypedContext
<1>2. \A i \in DOMAIN types : f \in DOMAIN c.claims[types[i]] => AllowedEnums(c, f, types[i]) \in Seq(Texts)
  BY AttributesTyped
<1>3. \A x : Accepted(c, types, f, x) = IF Takers(x) = {} THEN NoValue ELSE As(x, FirstOf(Takers(x)))
  BY DEF Accepted
<1>4. \A x : Takers(x) # {} => FirstOf(Takers(x)) \in Takers(x)
  <2> SUFFICES ASSUME NEW x, Takers(x) # {} PROVE FirstOf(Takers(x)) \in Takers(x)
    OBVIOUS
  <2>1. Takers(x) \in SUBSET Nat
    BY LenProperties
  <2> HIDE DEF Takers
  <2> QED
    BY <2>1, FirstIsIn
<1>5. NoValue \in Values
  BY EmptySeq DEF NoValue, Values
<1>6. CASE Takers(value) = {}
  BY <1>3, <1>5, <1>6
<1>7. CASE Takers(value) # {}
  <2> DEFINE k == FirstOf(Takers(value))
  <2>1. k \in DOMAIN types /\ f \in DOMAIN c.claims[types[k]] /\ As(value, k) # NoValue
    BY <1>4, <1>7
  <2>2. new = As(value, k)
    BY <1>3, <1>7
  <2> HIDE DEF k
  <2>3. new \in Values /\ As(new, k) # NoValue
    BY <1>1, <1>2, <2>1, <2>2, CoerceFits
  <2>4. k \in Takers(new)
    BY <2>1, <2>3
  <2>5. FirstOf(Takers(new)) \in Takers(new)
    BY <1>4, <2>4
  <2>6. As(new, FirstOf(Takers(new))) # NoValue
    BY <2>5
  <2> HIDE DEF As, Takers
  <2>7. Takers(new) # {}
    BY <2>4
  <2> QED
    BY <1>3, <2>3, <2>6, <2>7
<1> QED
  BY <1>6, <1>7

\* What is stored for a field.
StateOf(c, types, proposed, skip, f) ==
  CASE f \notin EffectiveFields(c, types) -> proposed[f]
    [] f \in EffectiveFields(c, types) /\ proposed[f] # NoValue -> Accepted(c, types, f, proposed[f])
    [] /\ f \in EffectiveFields(c, types)
       /\ proposed[f] = NoValue /\ EffectiveRequired(c, types, f) /\ ~skip -> EffectiveDefault(c, types, f)
    [] OTHER -> NoValue

LEMMA ValidateFields ==
  ASSUME NEW c, NEW types, NEW proposed, NEW skip, NEW v, v = Validate(c, types, proposed, skip)
  PROVE  /\ v.state = [f \in DOMAIN proposed |-> StateOf(c, types, proposed, skip, f)]
         /\ v.missing = {f \in EffectiveFields(c, types) :
                           /\ proposed[f] = NoValue /\ EffectiveRequired(c, types, f)
                           /\ v.state[f] = NoValue}
         /\ v.invalid = {f \in EffectiveFields(c, types) : proposed[f] # NoValue /\ v.state[f] = NoValue}
BY Zenon DEF Validate, StateOf

\* The values of a node: a field of its own, and a field without a value.
FieldByField(v, c, types, proposed) ==
  \A f \in FieldNames :
    /\ f \notin EffectiveFields(c, types) => v.state[f] = proposed[f]
    /\ f \in EffectiveFields(c, types) /\ proposed[f] # NoValue =>
         v.state[f] = Accepted(c, types, f, proposed[f])
    /\ f \notin v.invalid /\ proposed[f] # NoValue => v.state[f] # NoValue
    /\ f \in v.invalid => proposed[f] # NoValue /\ v.state[f] = NoValue

Undefaulted(v, proposed) == \A f \in FieldNames : proposed[f] = NoValue => v.state[f] = NoValue

LEMMA ValidateDoes ==
  ASSUME NEW c, TypedContext(c), NEW types \in Seq(SchemaNames),
         NEW proposed \in [FieldNames -> Values], NEW skip,
         NEW v, v = Validate(c, types, proposed, skip)
  PROVE  /\ v.state \in [FieldNames -> Values]
         /\ v.invalid \subseteq EffectiveFields(c, types) /\ v.missing \subseteq EffectiveFields(c, types)
         /\ EffectiveFields(c, types) \subseteq FieldNames
         /\ FieldByField(v, c, types, proposed)
         /\ skip => Undefaulted(v, proposed)
<1>1. /\ v.state = [f \in DOMAIN proposed |-> StateOf(c, types, proposed, skip, f)]
      /\ v.missing = {f \in EffectiveFields(c, types) :
                        /\ proposed[f] = NoValue /\ EffectiveRequired(c, types, f)
                        /\ v.state[f] = NoValue}
      /\ v.invalid = {f \in EffectiveFields(c, types) : proposed[f] # NoValue /\ v.state[f] = NoValue}
  BY ValidateFields
<1>2. EffectiveFields(c, types) \subseteq DOMAIN c.fields /\ DOMAIN c.fields \subseteq FieldNames
  BY DEF EffectiveFields, TypedContext
<1>3. NoValue \in Values
  BY EmptySeq DEF NoValue, Values
<1>4. ASSUME NEW f \in FieldNames
      PROVE  StateOf(c, types, proposed, skip, f) \in Values
  <2>1. f \in EffectiveFields(c, types) => EffectiveDefault(c, types, f) \in Values
    BY <1>2, AttributesTyped
  <2>2. f \in EffectiveFields(c, types) => Accepted(c, types, f, proposed[f]) \in Values
    BY <1>2, AcceptedAgain
  <2> QED
    BY <1>3, <2>1, <2>2 DEF StateOf
<1>5. v.state \in [FieldNames -> Values]
  BY <1>1, <1>4
<1>6. v.invalid \subseteq EffectiveFields(c, types) /\ v.missing \subseteq EffectiveFields(c, types)
  BY <1>1
<1>7. ASSUME NEW f \in FieldNames
      PROVE  /\ f \notin EffectiveFields(c, types) => v.state[f] = proposed[f]
             /\ f \in EffectiveFields(c, types) /\ proposed[f] # NoValue =>
                  v.state[f] = Accepted(c, types, f, proposed[f])
             /\ skip /\ proposed[f] = NoValue => v.state[f] = NoValue
  <2>1. v.state[f] = StateOf(c, types, proposed, skip, f)
    BY <1>1
  <2> QED
    BY <2>1 DEF StateOf
<1>8. ASSUME NEW f \in FieldNames
      PROVE  /\ f \notin v.invalid /\ proposed[f] # NoValue => v.state[f] # NoValue
             /\ f \in v.invalid => proposed[f] # NoValue /\ v.state[f] = NoValue
  BY <1>1, <1>7
<1>9. FieldByField(v, c, types, proposed) /\ (skip => Undefaulted(v, proposed))
  BY <1>7, <1>8 DEF FieldByField, Undefaulted
<1> QED
  BY <1>2, <1>5, <1>6, <1>9

\* The same without defaults.
LEMMA ValidateAlone ==
  ASSUME NEW c, TypedContext(c), NEW types \in Seq(SchemaNames),
         NEW proposed \in [FieldNames -> Values],
         NEW v, v = Validate(c, types, proposed, TRUE)
  PROVE  /\ v.state \in [FieldNames -> Values]
         /\ v.invalid \subseteq EffectiveFields(c, types) /\ v.missing \subseteq EffectiveFields(c, types)
         /\ EffectiveFields(c, types) \subseteq FieldNames
         /\ FieldByField(v, c, types, proposed)
         /\ Undefaulted(v, proposed)
BY ValidateDoes, Zenon

\* What a propagation stores fits, whatever it was made of.
LEMMA StoredFits ==
  ASSUME NEW c, TypedContext(c), NEW types \in Seq(SchemaNames),
         NEW proposed \in [FieldNames -> Values],
         NEW v, v = Validate(c, types, proposed, TRUE)
  PROVE  Validate(c, types, v.state, TRUE).invalid = {}
<1>1. v.state \in [FieldNames -> Values]
  BY ValidateAlone
<1> SUFFICES ASSUME NEW f \in Validate(c, types, v.state, TRUE).invalid PROVE FALSE
  OBVIOUS
<1>2. PICK again : again = Validate(c, types, v.state, TRUE)
  OBVIOUS
<1>3. again.invalid \subseteq EffectiveFields(c, types) /\ EffectiveFields(c, types) \subseteq FieldNames
  BY <1>1, <1>2, ValidateAlone
<1>4. f \in EffectiveFields(c, types) /\ f \in FieldNames /\ f \in again.invalid
  BY <1>2, <1>3
<1>5. /\ v.state[f] # NoValue /\ again.state[f] = NoValue
      /\ v.state[f] # NoValue => again.state[f] = Accepted(c, types, f, v.state[f])
  <2>1. FieldByField(again, c, types, v.state)
    BY <1>1, <1>2, ValidateAlone
  <2> QED
    BY <1>4, <2>1 DEF FieldByField
<1>6. /\ proposed[f] = NoValue => v.state[f] = NoValue
      /\ proposed[f] # NoValue => v.state[f] = Accepted(c, types, f, proposed[f])
  <2>1. FieldByField(v, c, types, proposed) /\ Undefaulted(v, proposed)
    BY ValidateAlone
  <2> QED
    BY <1>4, <2>1 DEF FieldByField, Undefaulted
<1>7. f \in DOMAIN c.fields /\ proposed[f] \in Values
  BY <1>4 DEF EffectiveFields
<1> QED
  BY <1>5, <1>6, <1>7, AcceptedAgain

\* Two contexts that say the same of a field.
SameField(c, d, f) ==
  /\ f \in DOMAIN c.fields <=> f \in DOMAIN d.fields
  /\ f \in DOMAIN c.fields => c.fields[f] = d.fields[f]
  /\ \A s \in SchemaNames : f \in DOMAIN c.claims[s] <=> f \in DOMAIN d.claims[s]
  /\ \A s \in SchemaNames : f \in DOMAIN c.claims[s] => c.claims[s][f] = d.claims[s][f]

\* What validation without defaults stores.
StateAlone(c, types, values) == Validate(c, types, values, TRUE).state

\* They make the same of its value.
LEMMA SameFieldSameState ==
  ASSUME NEW c, NEW d, NEW f \in FieldNames, SameField(c, d, f), NEW types \in Seq(SchemaNames),
         NEW proposed \in [FieldNames -> Values], NEW other \in [FieldNames -> Values],
         proposed[f] = other[f]
  PROVE  StateAlone(c, types, proposed)[f] = StateAlone(d, types, other)[f]
<1>1. \A i \in DOMAIN types : types[i] \in SchemaNames
  BY ElementOfSeq, LenProperties
<1>2. ToSet(types) \subseteq SchemaNames
  BY <1>1 DEF ToSet
<1>3. Claimants(c, types, f) = Claimants(d, types, f)
  BY <1>2 DEF Claimants, SameField
<1>4. f \in EffectiveFields(c, types) <=> f \in EffectiveFields(d, types)
  BY <1>3 DEF EffectiveFields, SameField
<1>5. ASSUME NEW value, f \in EffectiveFields(c, types)
      PROVE  Accepted(c, types, f, value) = Accepted(d, types, f, value)
  <2> DEFINE As(i) == Coerce(value, c.fields[f], AllowedEnums(c, f, types[i]))
             Bs(i) == Coerce(value, d.fields[f], AllowedEnums(d, f, types[i]))
             left == {i \in DOMAIN types : f \in DOMAIN c.claims[types[i]] /\ As(i) # NoValue}
             right == {i \in DOMAIN types : f \in DOMAIN d.claims[types[i]] /\ Bs(i) # NoValue}
  <2>1. c.fields[f] = d.fields[f]
    BY <1>5 DEF SameField, EffectiveFields
  <2>2. \A i \in DOMAIN types : f \in DOMAIN c.claims[types[i]] <=> f \in DOMAIN d.claims[types[i]]
    BY <1>1 DEF SameField
  <2>3. \A i \in DOMAIN types : f \in DOMAIN c.claims[types[i]] =>
          AllowedEnums(c, f, types[i]) = AllowedEnums(d, f, types[i])
    BY <1>1, <2>1 DEF SameField, AllowedEnums
  <2>4. \A i \in DOMAIN types : f \in DOMAIN c.claims[types[i]] => As(i) = Bs(i)
    BY <2>1, <2>3
  <2>5. left = right
    BY <2>2, <2>4
  <2>6. left # {} => FirstOf(left) \in left
    <3>1. left \in SUBSET Nat
      BY LenProperties
    <3> HIDE DEF left
    <3> QED
      BY <3>1, FirstIsIn
  <2>7. left # {} => As(FirstOf(left)) = Bs(FirstOf(right))
    BY <2>4, <2>5, <2>6
  <2>8. Accepted(c, types, f, value) = IF left = {} THEN NoValue ELSE As(FirstOf(left))
    BY DEF Accepted
  <2>9. Accepted(d, types, f, value) = IF right = {} THEN NoValue ELSE Bs(FirstOf(right))
    BY DEF Accepted
  <2> HIDE DEF left, right, As, Bs
  <2> QED
    BY <2>5, <2>7, <2>8, <2>9
<1>6. StateAlone(c, types, proposed)[f] = StateOf(c, types, proposed, TRUE, f)
  <2>1. StateAlone(c, types, proposed) = [h \in DOMAIN proposed |-> StateOf(c, types, proposed, TRUE, h)]
    BY Zenon DEF Validate, StateOf, StateAlone
  <2> QED
    BY <2>1
<1>7. StateAlone(d, types, other)[f] = StateOf(d, types, other, TRUE, f)
  <2>1. StateAlone(d, types, other) = [h \in DOMAIN other |-> StateOf(d, types, other, TRUE, h)]
    BY Zenon DEF Validate, StateOf, StateAlone
  <2> QED
    BY <2>1
<1> QED
  BY <1>4, <1>5, <1>6, <1>7 DEF StateOf

-----------------------------------------------------------------------------
(* Databases and worlds *)

NodeValues == [FieldNames -> Values]
ClaimSets == UNION {ClaimsOf(S) : S \in SUBSET FieldNames}
Renderings == UNION {RenderingsOf(S) : S \in SUBSET FieldNames}
Snaps == [Nodes -> [was : NodeValues, post : NodeValues] \cup {Nothing}]

DBs == [fields : [FieldNames -> FieldDefs \cup {NoField}], claims : [SchemaNames -> ClaimSets \cup {NoSchema}],
        rows : Rows, hash : Rows, marks : [CatalogFiles -> Renderings \cup {NoHash}]]
Vaults == [notes : Rows, catalog : [CatalogFiles -> Renderings \cup {NoFile, Edited}]]

\* Claims are on fields that exist.
Owned(d) == \A s \in SchemaNames : DOMAIN Claims(d)[s] \subseteq DOMAIN Fields(d)

SoundDBs == {d \in DBs : Owned(d)}
Worlds == [db : SoundDBs, vault : Vaults, snaps : Snaps, ok : BOOLEAN]

LEMMA NodesTyped ==
  ASSUME NEW n \in Nodes
  PROVE  Types[n] \in Seq(SchemaNames) /\ \A rows \in Rows : rows[n] \in NodeValues
BY SchemaConstants DEF Rows, NodeValues

LEMMA MarkersDiffer ==
  /\ NoSchema \notin ClaimSets /\ NoField \notin FieldDefs
  /\ \A x \in {NoFile, NoHash, Edited} : x \notin Renderings
  /\ NoFile # NoHash /\ Edited \notin {NoFile, NoHash} /\ Catalog \notin SchemaNames
  /\ Nothing \notin [was : NodeValues, post : NodeValues]
  /\ SchemaNames \cap FieldNames = {} /\ Nodes \cap (SchemaNames \cup FieldNames) = {}
BY SchemaConstants DEF ClaimSets, Renderings, NodeValues

\* The claims of a schema, one by one.
LEMMA ClaimsTyped ==
  ASSUME NEW d \in DBs, NEW s \in SchemaNames
  PROVE  /\ d.claims[s] = NoSchema => Claims(d)[s] = <<>> /\ DOMAIN Claims(d)[s] = {}
         /\ d.claims[s] # NoSchema => Claims(d)[s] = d.claims[s] /\ d.claims[s] \in ClaimSets
         /\ \A f \in DOMAIN Claims(d)[s] : f \in FieldNames /\ Claims(d)[s][f] \in Claim
<1>1. Claims(d)[s] = IF d.claims[s] = NoSchema THEN <<>> ELSE d.claims[s]
  BY DEF Claims
<1>2. d.claims[s] \in ClaimSets \cup {NoSchema}
  BY DEF DBs
<1>3. DOMAIN <<>> = {}
  BY EmptySeq, LenProperties
<1>4. CASE d.claims[s] # NoSchema
  <2>1. PICK S \in SUBSET FieldNames : d.claims[s] \in [S -> Claim]
    BY <1>2, <1>4 DEF ClaimSets, ClaimsOf
  <2> QED
    BY <1>1, <1>2, <1>4, <2>1
<1> QED
  BY <1>1, <1>3, <1>4

LEMMA FieldsTyped ==
  ASSUME NEW d \in DBs
  PROVE  /\ DOMAIN Fields(d) = {f \in FieldNames : d.fields[f] # NoField}
         /\ \A f \in DOMAIN Fields(d) : Fields(d)[f] = d.fields[f] /\ d.fields[f] \in FieldDefs
BY DEF Fields, DBs

LEMMA ContextTyped ==
  ASSUME NEW d \in SoundDBs
  PROVE  TypedContext(Context(d))
<1>1. d \in DBs /\ Owned(d)
  BY DEF SoundDBs
<1>2. Context(d).fields = Fields(d) /\ Context(d).claims = Claims(d)
  BY DEF Context
<1>3. DOMAIN Fields(d) \subseteq FieldNames /\ \A f \in DOMAIN Fields(d) : Fields(d)[f] \in FieldDefs
  BY <1>1, FieldsTyped
<1>4. \A s \in SchemaNames : DOMAIN Claims(d)[s] \subseteq DOMAIN Fields(d)
  BY <1>1 DEF Owned
<1>5. \A s \in SchemaNames : \A f \in DOMAIN Claims(d)[s] : Claims(d)[s][f] \in Claim
  BY <1>1, ClaimsTyped
<1> QED
  BY <1>2, <1>3, <1>4, <1>5 DEF TypedContext

\* Two databases with the same fields and claims.
SameCatalog(d, e) == d.fields = e.fields /\ d.claims = e.claims

LEMMA SameCatalogSame ==
  ASSUME NEW d, NEW e, SameCatalog(d, e)
  PROVE  /\ Claims(d) = Claims(e) /\ Fields(d) = Fields(e) /\ Context(d) = Context(e)
         /\ Owned(d) <=> Owned(e)
         /\ \A file : Rendered(d, file) = Rendered(e, file)
<1>1. Claims(d) = Claims(e) /\ Fields(d) = Fields(e)
  BY DEF SameCatalog, Claims, Fields
<1>2. \A file : Rendered(d, file) = Rendered(e, file)
  BY <1>1 DEF SameCatalog, Rendered, RenderedSchema
<1> QED
  BY <1>1, <1>2 DEF Context, Owned

LEMMA RenderedTyped ==
  ASSUME NEW d \in SoundDBs, NEW file \in CatalogFiles,
         file = Catalog \/ d.claims[file] # NoSchema
  PROVE  Rendered(d, file) \in Renderings
<1>1. d \in DBs /\ Owned(d)
  BY DEF SoundDBs
<1>2. CASE file = Catalog
  <2>1. Fields(d) \in [DOMAIN Fields(d) -> FieldDefs] /\ DOMAIN Fields(d) \in SUBSET FieldNames
    BY <1>1, FieldsTyped DEF Fields
  <2> QED
    BY <1>2, <2>1 DEF Rendered, Renderings, RenderingsOf
<1>3. CASE file # Catalog /\ d.claims[file] # NoSchema
  <2>1. file \in SchemaNames /\ d.claims[file] \in ClaimSets /\ Claims(d)[file] = d.claims[file]
    BY <1>1, <1>3, ClaimsTyped DEF CatalogFiles
  <2>2. PICK S \in SUBSET FieldNames : d.claims[file] \in ClaimsOf(S)
    BY <2>1 DEF ClaimSets
  <2>3. DOMAIN d.claims[file] = S
    BY <2>2 DEF ClaimsOf
  <2>4. S \subseteq DOMAIN Fields(d)
    BY <1>1, <2>1, <2>3 DEF Owned
  <2>5. \A f \in S : d.fields[f] \in FieldDefs
    BY <1>1, <2>4, FieldsTyped
  <2> DEFINE inlined == [f \in S |-> [type |-> d.fields[f].type, item |-> d.fields[f].item, enums |-> d.fields[f].enums]]
  <2>6. inlined \in [S -> [type : FieldTypes, item : FieldTypes, enums : Seq(Texts)]]
    BY <2>5 DEF FieldDefs
  <2>7. RenderedSchema(d, file) = [claims |-> d.claims[file], inlined |-> inlined]
    BY <2>3 DEF RenderedSchema
  <2> HIDE DEF inlined
  <2>8. RenderedSchema(d, file) \in RenderingsOf(S)
    BY <2>2, <2>6, <2>7 DEF RenderingsOf
  <2> QED
    BY <1>3, <2>2, <2>8 DEF Rendered, Renderings
<1> QED
  BY <1>2, <1>3

LEMMA OverDoes ==
  ASSUME NEW old, NEW new, DOMAIN new \subseteq DOMAIN old
  PROVE  /\ Over(new, old) = [x \in DOMAIN old |-> Over(new, old)[x]]
         /\ \A x \in DOMAIN new : Over(new, old)[x] = new[x]
         /\ \A x \in DOMAIN old \ DOMAIN new : Over(new, old)[x] = old[x]
<1>1. Over(new, old) = [x \in DOMAIN new \cup DOMAIN old |-> IF x \in DOMAIN new THEN new[x] ELSE old[x]]
  BY DEF Over
<1>2. DOMAIN new \cup DOMAIN old = DOMAIN old
  OBVIOUS
<1>3. Over(new, old) = [x \in DOMAIN old |-> IF x \in DOMAIN new THEN new[x] ELSE old[x]]
  BY <1>1, <1>2
<1> QED
  BY <1>3

\* What is in a world besides the catalog, and besides the nodes.
SameNodes(w, v) ==
  v.db.rows = w.db.rows /\ v.db.hash = w.db.hash /\ v.vault.notes = w.vault.notes /\ v.snaps = w.snaps
SameFiles(w, v) == v.db.marks = w.db.marks /\ v.vault.catalog = w.vault.catalog

\* A file of the catalog is what was rendered, or left alone.
FileRendered(w, v, file) ==
  v.vault.catalog[file] = Rendered(w.db, file) /\ v.db.marks[file] = Rendered(w.db, file)
FileKept(w, v, file) ==
  v.vault.catalog[file] = w.vault.catalog[file] /\ v.db.marks[file] = w.db.marks[file]

Renders(w, v, files) ==
  /\ v \in Worlds /\ SameCatalog(v.db, w.db) /\ SameNodes(w, v) /\ v.ok = w.ok
  /\ \A file \in CatalogFiles :
       /\ file \in files /\ Due(w, file) => FileRendered(w, v, file)
       /\ ~(file \in files /\ Due(w, file)) => FileKept(w, v, file)

\* The parts of a world, for the lemmas on its changes.
LEMMA WorldParts ==
  ASSUME NEW w \in Worlds
  PROVE  /\ w.db \in DBs /\ Owned(w.db) /\ w.vault \in Vaults /\ w.snaps \in Snaps /\ w.ok \in BOOLEAN
         /\ w = [db |-> w.db, vault |-> w.vault, snaps |-> w.snaps, ok |-> w.ok]
         /\ w.db = [fields |-> w.db.fields, claims |-> w.db.claims, rows |-> w.db.rows,
                    hash |-> w.db.hash, marks |-> w.db.marks]
         /\ w.vault = [notes |-> w.vault.notes, catalog |-> w.vault.catalog]
         /\ w.db.fields \in [FieldNames -> FieldDefs \cup {NoField}]
         /\ w.db.claims \in [SchemaNames -> ClaimSets \cup {NoSchema}]
         /\ w.db.rows \in Rows /\ w.db.hash \in Rows /\ w.vault.notes \in Rows
         /\ w.db.marks \in [CatalogFiles -> Renderings \cup {NoHash}]
         /\ w.vault.catalog \in [CatalogFiles -> Renderings \cup {NoFile, Edited}]
<1>1. /\ w.db \in SoundDBs /\ w.vault \in Vaults /\ w.snaps \in Snaps /\ w.ok \in BOOLEAN
      /\ w = [db |-> w.db, vault |-> w.vault, snaps |-> w.snaps, ok |-> w.ok]
  BY DEF Worlds
<1>2. w.db \in DBs /\ Owned(w.db)
  BY <1>1 DEF SoundDBs
<1> QED
  BY <1>1, <1>2 DEF DBs, Vaults

\* A world from its parts.
World(fields, claims, rows, hash, marks, notes, catalog, snaps, ok) ==
  [db |-> [fields |-> fields, claims |-> claims, rows |-> rows, hash |-> hash, marks |-> marks],
   vault |-> [notes |-> notes, catalog |-> catalog], snaps |-> snaps, ok |-> ok]

LEMMA WorldOf ==
  ASSUME NEW fields \in [FieldNames -> FieldDefs \cup {NoField}],
         NEW claims \in [SchemaNames -> ClaimSets \cup {NoSchema}],
         NEW rows \in Rows, NEW hash \in Rows, NEW notes \in Rows,
         NEW marks \in [CatalogFiles -> Renderings \cup {NoHash}],
         NEW catalog \in [CatalogFiles -> Renderings \cup {NoFile, Edited}],
         NEW snaps \in Snaps, NEW ok \in BOOLEAN, NEW v,
         v = World(fields, claims, rows, hash, marks, notes, catalog, snaps, ok), Owned(v.db)
  PROVE  /\ v \in Worlds
         /\ v.db.fields = fields /\ v.db.claims = claims /\ v.db.rows = rows /\ v.db.hash = hash
         /\ v.db.marks = marks /\ v.vault.notes = notes /\ v.vault.catalog = catalog
         /\ v.snaps = snaps /\ v.ok = ok
<1>1. v.db \in DBs /\ v.vault \in Vaults
  BY DEF World, DBs, Vaults
<1> QED
  BY <1>1 DEF World, Worlds, SoundDBs

LEMMA RenderFilesDoes ==
  ASSUME NEW w \in Worlds, NEW files \in SUBSET CatalogFiles, NEW v, v = RenderFiles(w, files)
  PROVE  Renders(w, v, files)
<1> DEFINE due == {g \in files : Due(w, g)}
           new == [file \in due |-> Rendered(w.db, file)]
           marks == Over(new, w.db.marks)
           catalog == Over(new, w.vault.catalog)
<1>1. v = [w EXCEPT !.vault.catalog = catalog, !.db.marks = marks]
  BY DEF RenderFiles
<1>2. w.db \in SoundDBs /\ due \in SUBSET CatalogFiles
  BY DEF Worlds
<1>3. \A file \in due : Rendered(w.db, file) \in Renderings
  <2> SUFFICES ASSUME NEW file \in due PROVE Rendered(w.db, file) \in Renderings
    OBVIOUS
  <2>1. Due(w, file) /\ file \in CatalogFiles
    OBVIOUS
  <2>2. file = Catalog \/ w.db.claims[file] # NoSchema
    BY <2>1 DEF Due
  <2> QED
    BY <1>2, <2>1, <2>2, RenderedTyped
<1>4. new \in [due -> Renderings] /\ \A file \in due : new[file] = Rendered(w.db, file)
  BY <1>3
<1>5. /\ new \in [due -> Renderings \cup {NoHash}] /\ new \in [due -> Renderings \cup {NoFile, Edited}]
  BY <1>4
<1> HIDE DEF due, new, marks, catalog
<1>6. /\ marks \in [CatalogFiles -> Renderings \cup {NoHash}]
      /\ \A file \in due : marks[file] = new[file]
      /\ \A file \in CatalogFiles \ due : marks[file] = w.db.marks[file]
  <2>1. w.db.marks \in [CatalogFiles -> Renderings \cup {NoHash}] /\ DOMAIN w.db.marks = CatalogFiles
    BY WorldParts
  <2>2. DOMAIN new = due
    BY <1>4
  <2>3. /\ marks = [x \in DOMAIN w.db.marks |-> marks[x]]
        /\ \A x \in DOMAIN new : marks[x] = new[x]
        /\ \A x \in DOMAIN w.db.marks \ DOMAIN new : marks[x] = w.db.marks[x]
    BY <1>2, <2>1, <2>2, OverDoes DEF marks
  <2> QED
    BY <1>2, <1>5, <2>1, <2>2, <2>3
<1>7. /\ catalog \in [CatalogFiles -> Renderings \cup {NoFile, Edited}]
      /\ \A file \in due : catalog[file] = new[file]
      /\ \A file \in CatalogFiles \ due : catalog[file] = w.vault.catalog[file]
  <2>1. w.vault.catalog \in [CatalogFiles -> Renderings \cup {NoFile, Edited}] /\ DOMAIN w.vault.catalog = CatalogFiles
    BY WorldParts
  <2>2. DOMAIN new = due
    BY <1>4
  <2>3. /\ catalog = [x \in DOMAIN w.vault.catalog |-> catalog[x]]
        /\ \A x \in DOMAIN new : catalog[x] = new[x]
        /\ \A x \in DOMAIN w.vault.catalog \ DOMAIN new : catalog[x] = w.vault.catalog[x]
    BY <1>2, <2>1, <2>2, OverDoes DEF catalog
  <2> QED
    BY <1>2, <1>5, <2>1, <2>2, <2>3
<1>8. v = World(w.db.fields, w.db.claims, w.db.rows, w.db.hash, marks, w.vault.notes, catalog, w.snaps, w.ok)
  <2>1. /\ w = [db |-> w.db, vault |-> w.vault, snaps |-> w.snaps, ok |-> w.ok]
        /\ w.db = [fields |-> w.db.fields, claims |-> w.db.claims, rows |-> w.db.rows,
                   hash |-> w.db.hash, marks |-> w.db.marks]
        /\ w.vault = [notes |-> w.vault.notes, catalog |-> w.vault.catalog]
    BY WorldParts
  <2> QED
    BY <1>1, <2>1 DEF World
<1>9. SameCatalog(v.db, w.db)
  BY <1>8 DEF World, SameCatalog
<1>10. Owned(v.db)
  BY <1>9, SameCatalogSame, WorldParts
<1>11. /\ v \in Worlds /\ v.db.rows = w.db.rows /\ v.db.hash = w.db.hash /\ v.db.marks = marks
       /\ v.vault.notes = w.vault.notes /\ v.vault.catalog = catalog /\ v.snaps = w.snaps /\ v.ok = w.ok
  <2>1. /\ w.db.fields \in [FieldNames -> FieldDefs \cup {NoField}]
        /\ w.db.claims \in [SchemaNames -> ClaimSets \cup {NoSchema}]
        /\ w.db.rows \in Rows /\ w.db.hash \in Rows /\ w.vault.notes \in Rows
        /\ w.snaps \in Snaps /\ w.ok \in BOOLEAN
    BY WorldParts
  <2> QED
    BY <1>6, <1>7, <1>8, <1>10, <2>1, WorldOf
<1>12. \A file \in CatalogFiles : file \in due <=> file \in files /\ Due(w, file)
  BY DEF due
<1> QED
  BY <1>4, <1>6, <1>7, <1>9, <1>11, <1>12 DEF Renders, SameNodes, FileRendered, FileKept

\* What validation makes of the values for a node.
Checked(w, n, values, source) == Validate(Context(w.db), Types[n], values[n], source # "tool")

\* A node is stored, with its file and its snapshot, or left alone.
NodeStored(w, v, n, state, source) ==
  /\ v.db.rows[n] = state /\ v.db.hash[n] = state
  /\ v.vault.notes[n] = IF source = "undo" THEN w.vault.notes[n] ELSE state
  /\ v.snaps[n] = [was |-> w.db.rows[n], post |-> state]
NodeKept(w, v, n) ==
  /\ v.db.rows[n] = w.db.rows[n] /\ v.db.hash[n] = w.db.hash[n]
  /\ v.vault.notes[n] = w.vault.notes[n] /\ v.snaps[n] = w.snaps[n]

Mutates(w, v, nodes, values, source) ==
  /\ v \in Worlds /\ SameCatalog(v.db, w.db) /\ SameFiles(w, v)
  /\ v.ok <=> w.ok /\ \A n \in nodes : ~Refuses(Checked(w, n, values, source), source)
  /\ \A n \in Nodes :
       \/ /\ NodeKept(w, v, n)
          /\ n \in nodes => \/ Refuses(Checked(w, n, values, source), source)
                            \/ NoOp(w, n, Checked(w, n, values, source).state)
       \/ /\ NodeStored(w, v, n, Checked(w, n, values, source).state, source)
          /\ n \in nodes /\ ~Refuses(Checked(w, n, values, source), source)

LEMMA MutateDoes ==
  ASSUME NEW w \in Worlds, NEW nodes \in SUBSET Nodes, NEW values,
         \A n \in nodes : values[n] \in NodeValues,
         NEW source, NEW v, v = Mutate(w, nodes, values, source)
  PROVE  Mutates(w, v, nodes, values, source)
<1> DEFINE Check(n) == Checked(w, n, values, source)
           checked == [n \in nodes |-> Validate(Context(w.db), Types[n], values[n], source # "tool")]
           refused == {n \in nodes : Refuses(checked[n], source)}
           stored == {n \in nodes \ refused : ~NoOp(w, n, checked[n].state)}
           new == [n \in stored |-> checked[n].state]
           shots == [n \in stored |-> [was |-> w.db.rows[n], post |-> new[n]]]
           rows == Over(new, w.db.rows)
           hash == Over(new, w.db.hash)
           notes == IF source = "undo" THEN w.vault.notes ELSE Over(new, w.vault.notes)
           snaps == Over(shots, w.snaps)
           ok == w.ok /\ refused = {}
<1>1. v = [w EXCEPT !.db.rows = rows, !.db.hash = hash, !.vault.notes = notes, !.snaps = snaps, !.ok = ok]
  BY Zenon DEF Mutate
<1>2. \A n \in nodes : checked[n] = Check(n)
  BY DEF Checked
<1>3. w.db \in SoundDBs
  BY DEF Worlds
<1>4. \A n \in nodes : Check(n).state \in NodeValues
  <2> SUFFICES ASSUME NEW n \in nodes PROVE Check(n).state \in NodeValues
    OBVIOUS
  <2>1. TypedContext(Context(w.db)) /\ Types[n] \in Seq(SchemaNames) /\ values[n] \in [FieldNames -> Values]
    BY <1>3, ContextTyped, NodesTyped DEF NodeValues
  <2>2. Check(n) = Validate(Context(w.db), Types[n], values[n], source # "tool")
    BY DEF Checked
  <2> HIDE DEF Check
  <2>3. Check(n).state \in [FieldNames -> Values]
    BY <2>1, <2>2, ValidateDoes
  <2> QED
    BY <2>3 DEF NodeValues
<1> HIDE DEF Check, checked
<1>5. /\ stored \subseteq Nodes /\ stored \subseteq nodes /\ DOMAIN new = stored
      /\ \A n \in stored : new[n] = Check(n).state /\ new[n] \in NodeValues /\ ~Refuses(Check(n), source)
      /\ \A n \in nodes \ stored : Refuses(Check(n), source) \/ NoOp(w, n, Check(n).state)
  BY <1>2, <1>4
<1>6. refused = {} <=> \A n \in nodes : ~Refuses(Check(n), source)
  BY <1>2
<1>7. /\ w.db.rows \in [Nodes -> NodeValues] /\ w.db.hash \in [Nodes -> NodeValues]
      /\ w.vault.notes \in [Nodes -> NodeValues] /\ w.snaps \in Snaps /\ w.ok \in BOOLEAN
  BY WorldParts DEF Rows, NodeValues
<1> HIDE DEF refused, stored, new
<1>8. /\ DOMAIN shots = stored
      /\ \A n \in stored : /\ shots[n] = [was |-> w.db.rows[n], post |-> new[n]]
                           /\ shots[n] \in [was : NodeValues, post : NodeValues]
  BY <1>5, <1>7
<1> HIDE DEF shots
<1>9. /\ rows \in [Nodes -> NodeValues]
      /\ \A n \in stored : rows[n] = new[n]
      /\ \A n \in Nodes \ stored : rows[n] = w.db.rows[n]
  <2>1. /\ rows = [x \in DOMAIN w.db.rows |-> rows[x]]
        /\ \A x \in DOMAIN new : rows[x] = new[x]
        /\ \A x \in DOMAIN w.db.rows \ DOMAIN new : rows[x] = w.db.rows[x]
    BY <1>5, <1>7, OverDoes
  <2> HIDE DEF rows
  <2> QED
    BY <1>5, <1>7, <2>1
<1>10. /\ hash \in [Nodes -> NodeValues]
       /\ \A n \in stored : hash[n] = new[n]
       /\ \A n \in Nodes \ stored : hash[n] = w.db.hash[n]
  <2>1. /\ hash = [x \in DOMAIN w.db.hash |-> hash[x]]
        /\ \A x \in DOMAIN new : hash[x] = new[x]
        /\ \A x \in DOMAIN w.db.hash \ DOMAIN new : hash[x] = w.db.hash[x]
    BY <1>5, <1>7, OverDoes
  <2> HIDE DEF hash
  <2> QED
    BY <1>5, <1>7, <2>1
<1>11. /\ notes \in [Nodes -> NodeValues]
       /\ \A n \in stored : notes[n] = IF source = "undo" THEN w.vault.notes[n] ELSE new[n]
       /\ \A n \in Nodes \ stored : notes[n] = w.vault.notes[n]
  <2> DEFINE written == Over(new, w.vault.notes)
  <2>1. /\ written = [x \in DOMAIN w.vault.notes |-> written[x]]
        /\ \A x \in DOMAIN new : written[x] = new[x]
        /\ \A x \in DOMAIN w.vault.notes \ DOMAIN new : written[x] = w.vault.notes[x]
    BY <1>5, <1>7, OverDoes
  <2> HIDE DEF written
  <2>2. notes = IF source = "undo" THEN w.vault.notes ELSE written
    BY DEF written
  <2> HIDE DEF notes
  <2> QED
    BY <1>5, <1>7, <2>1, <2>2
<1>12. /\ snaps \in Snaps
       /\ \A n \in stored : snaps[n] = [was |-> w.db.rows[n], post |-> new[n]]
       /\ \A n \in Nodes \ stored : snaps[n] = w.snaps[n]
  <2>1. DOMAIN w.snaps = Nodes /\ \A n \in Nodes : w.snaps[n] \in [was : NodeValues, post : NodeValues] \cup {Nothing}
    BY <1>7 DEF Snaps
  <2>2. /\ snaps = [x \in DOMAIN w.snaps |-> snaps[x]]
        /\ \A x \in DOMAIN shots : snaps[x] = shots[x]
        /\ \A x \in DOMAIN w.snaps \ DOMAIN shots : snaps[x] = w.snaps[x]
    BY <1>5, <1>8, <2>1, OverDoes
  <2> HIDE DEF snaps
  <2> QED
    BY <1>5, <1>8, <2>1, <2>2 DEF Snaps
<1>13. ok \in BOOLEAN /\ (ok <=> w.ok /\ refused = {})
  OBVIOUS
<1> HIDE DEF rows, hash, notes, snaps, ok
<1>14. v = World(w.db.fields, w.db.claims, rows, hash, w.db.marks, notes, w.vault.catalog, snaps, ok)
  <2>1. /\ w = [db |-> w.db, vault |-> w.vault, snaps |-> w.snaps, ok |-> w.ok]
        /\ w.db = [fields |-> w.db.fields, claims |-> w.db.claims, rows |-> w.db.rows,
                   hash |-> w.db.hash, marks |-> w.db.marks]
        /\ w.vault = [notes |-> w.vault.notes, catalog |-> w.vault.catalog]
    BY WorldParts
  <2>2. DOMAIN w = {"db", "vault", "snaps", "ok"}
    BY <2>1
  <2>3. /\ v.db = [w.db EXCEPT !.rows = rows, !.hash = hash]
        /\ v.vault = [w.vault EXCEPT !.notes = notes] /\ v.snaps = snaps
    BY <1>1, <2>2
  <2>4. v.ok = ok
    BY <1>1, <2>2
  <2>5. v = [db |-> v.db, vault |-> v.vault, snaps |-> v.snaps, ok |-> v.ok]
    BY <1>1, <2>1
  <2>6. /\ v.db = [fields |-> w.db.fields, claims |-> w.db.claims, rows |-> rows, hash |-> hash, marks |-> w.db.marks]
        /\ v.vault = [notes |-> notes, catalog |-> w.vault.catalog]
    BY <2>1, <2>3
  <2> QED
    BY <2>3, <2>4, <2>5, <2>6 DEF World
<1>15. SameCatalog(v.db, w.db)
  BY <1>14 DEF World, SameCatalog
<1>16. Owned(v.db)
  BY <1>15, SameCatalogSame, WorldParts
<1>17. rows \in Rows /\ hash \in Rows /\ notes \in Rows
  BY <1>9, <1>10, <1>11 DEF Rows, NodeValues
<1>18. /\ v \in Worlds /\ v.db.rows = rows /\ v.db.hash = hash /\ v.db.marks = w.db.marks
       /\ v.vault.notes = notes /\ v.vault.catalog = w.vault.catalog /\ v.snaps = snaps /\ v.ok = ok
  <2>1. /\ w.db.fields \in [FieldNames -> FieldDefs \cup {NoField}]
        /\ w.db.claims \in [SchemaNames -> ClaimSets \cup {NoSchema}]
        /\ w.db.marks \in [CatalogFiles -> Renderings \cup {NoHash}]
        /\ w.vault.catalog \in [CatalogFiles -> Renderings \cup {NoFile, Edited}]
    BY WorldParts
  <2> QED
    BY <1>12, <1>13, <1>14, <1>16, <1>17, <2>1, WorldOf
<1>19. ASSUME NEW n \in stored
       PROVE  NodeStored(w, v, n, Check(n).state, source)
  BY <1>5, <1>9, <1>10, <1>11, <1>12, <1>18 DEF NodeStored
<1>20. ASSUME NEW n \in Nodes \ stored
       PROVE  NodeKept(w, v, n)
  BY <1>9, <1>10, <1>11, <1>12, <1>18 DEF NodeKept
<1>21. v.ok <=> w.ok /\ \A n \in nodes : ~Refuses(Check(n), source)
  BY <1>6, <1>13, <1>18
<1> QED
  BY <1>5, <1>15, <1>18, <1>19, <1>20, <1>21 DEF Mutates, SameFiles, Check

\* The nodes that are put back have the files that their rows give.
Restores(w, v, nodes) ==
  /\ v \in Worlds /\ v.db = w.db /\ v.vault.catalog = w.vault.catalog /\ v.ok = w.ok
  /\ \A n \in nodes : v.vault.notes[n] = Validate(Context(w.db), Types[n], w.db.rows[n], TRUE).state
  /\ \A n \in Nodes \ nodes : v.vault.notes[n] = w.vault.notes[n]

LEMMA RenderRestoredNodesDoes ==
  ASSUME NEW w \in Worlds, NEW nodes \in SUBSET Nodes, NEW v, v = RenderRestoredNodes(w, nodes)
  PROVE  Restores(w, v, nodes)
<1> DEFINE State(n) == Validate(Context(w.db), Types[n], w.db.rows[n], TRUE).state
           new == [n \in nodes |-> State(n)]
           notes == Over(new, w.vault.notes)
<1>1. v = [w EXCEPT !.vault.notes = notes]
  BY Zenon DEF RenderRestoredNodes
<1>2. ASSUME NEW n \in nodes PROVE State(n) \in NodeValues
  <2>1. w.db \in SoundDBs /\ w.db.rows \in Rows
    BY WorldParts DEF Worlds
  <2>2. TypedContext(Context(w.db)) /\ Types[n] \in Seq(SchemaNames) /\ w.db.rows[n] \in [FieldNames -> Values]
    BY <2>1, ContextTyped, NodesTyped DEF NodeValues
  <2>3. PICK x : x = Validate(Context(w.db), Types[n], w.db.rows[n], TRUE)
    OBVIOUS
  <2>4. x.state \in [FieldNames -> Values]
    BY <2>2, <2>3, ValidateAlone
  <2> QED
    BY <2>3, <2>4 DEF NodeValues
<1> HIDE DEF State
<1>3. DOMAIN new = nodes /\ (\A n \in nodes : new[n] = State(n)) /\ w.vault.notes \in [Nodes -> NodeValues]
  BY WorldParts DEF Rows, NodeValues
<1> HIDE DEF new
<1>4. /\ notes \in [Nodes -> NodeValues]
      /\ \A n \in nodes : notes[n] = State(n)
      /\ \A n \in Nodes \ nodes : notes[n] = w.vault.notes[n]
  <2>1. /\ notes = [x \in DOMAIN w.vault.notes |-> notes[x]]
        /\ \A x \in DOMAIN new : notes[x] = new[x]
        /\ \A x \in DOMAIN w.vault.notes \ DOMAIN new : notes[x] = w.vault.notes[x]
    BY <1>3, OverDoes
  <2> HIDE DEF notes
  <2> QED
    BY <1>2, <1>3, <2>1
<1> HIDE DEF notes
<1>5. v = World(w.db.fields, w.db.claims, w.db.rows, w.db.hash, w.db.marks, notes, w.vault.catalog, w.snaps, w.ok)
      /\ v.db = w.db
  <2>1. /\ w = [db |-> w.db, vault |-> w.vault, snaps |-> w.snaps, ok |-> w.ok]
        /\ w.db = [fields |-> w.db.fields, claims |-> w.db.claims, rows |-> w.db.rows,
                   hash |-> w.db.hash, marks |-> w.db.marks]
        /\ w.vault = [notes |-> w.vault.notes, catalog |-> w.vault.catalog]
    BY WorldParts
  <2> QED
    BY <1>1, <2>1 DEF World
<1>6. Owned(v.db) /\ notes \in Rows
  BY <1>4, <1>5, WorldParts DEF Rows, NodeValues
<1>7. v \in Worlds /\ v.vault.notes = notes /\ v.vault.catalog = w.vault.catalog /\ v.ok = w.ok
  <2>1. /\ w.db.fields \in [FieldNames -> FieldDefs \cup {NoField}]
        /\ w.db.claims \in [SchemaNames -> ClaimSets \cup {NoSchema}]
        /\ w.db.rows \in Rows /\ w.db.hash \in Rows
        /\ w.db.marks \in [CatalogFiles -> Renderings \cup {NoHash}]
        /\ w.vault.catalog \in [CatalogFiles -> Renderings \cup {NoFile, Edited}]
        /\ w.snaps \in Snaps /\ w.ok \in BOOLEAN
    BY WorldParts
  <2> QED
    BY <1>5, <1>6, <2>1, WorldOf
<1> QED
  BY <1>4, <1>5, <1>7 DEF Restores, State

\* Rendering nodes again goes through all of them when none fails.
LEMMA RerenderNodesDoes ==
  ASSUME NEW w \in Worlds, NEW nodes \in SUBSET Nodes, NEW last, NEW v, v = RerenderNodes(w, nodes, last)
  PROVE  \E reached \in SUBSET nodes :
            Mutates(w, v, reached, w.db.rows, "propagation") /\ (v.ok => reached = nodes)
<1> DEFINE Fails(n) == n \in nodes /\ Validate(Context(w.db), Types[n], w.db.rows[n], TRUE).invalid # {}
           Earlier(i, j) == IF NodeIds[i] \in last <=> NodeIds[j] \in last THEN i < j ELSE NodeIds[j] \in last
           reached == {n \in nodes : \A i, j \in DOMAIN NodeIds :
                         Earlier(i, j) /\ NodeIds[j] = n => ~Fails(NodeIds[i])}
<1>1. v = Mutate(w, reached, w.db.rows, "propagation")
  BY Zenon DEF RerenderNodes
<1>2. \A n \in reached : w.db.rows[n] \in NodeValues
  BY WorldParts, NodesTyped
<1>3. reached \in SUBSET nodes
  OBVIOUS
<1>4. \A n \in reached : ~Refuses(Checked(w, n, w.db.rows, "propagation"), "propagation") => ~Fails(n)
  <2> SUFFICES ASSUME NEW n \in reached, Checked(w, n, w.db.rows, "propagation").invalid = {}
               PROVE  ~Fails(n)
    BY Zenon DEF Refuses
  <2>1. ("propagation" # "tool") = TRUE
    OBVIOUS
  <2> QED
    BY <2>1, Zenon DEF Checked
<1>5. ASSUME \A n \in reached : ~Fails(n), NEW n \in nodes PROVE n \in reached
  <2> SUFFICES ASSUME NEW i \in DOMAIN NodeIds, NEW j \in DOMAIN NodeIds, Earlier(i, j), NodeIds[j] = n, Fails(NodeIds[i])
               PROVE  FALSE
    OBVIOUS
  <2> DEFINE failing == {k \in DOMAIN NodeIds : Fails(NodeIds[k])}
             first == {k \in failing : NodeIds[k] \notin last}
             bad == IF first = {} THEN failing ELSE first
  <2>0. NodeIds \in Seq(Nodes) /\ DOMAIN NodeIds \in SUBSET Nat
    <3>1. NodeIds \in Seq(Nodes)
      BY SchemaConstants
    <3> QED
      BY <3>1, LenProperties
  <2>1. bad \in SUBSET Nat /\ bad # {}
    <3>1. failing # {}
      OBVIOUS
    <3>2. bad # {} /\ bad \subseteq DOMAIN NodeIds
      BY <3>1
    <3> QED
      BY <2>0, <3>1, <3>2
  <2> HIDE DEF bad
  <2>2. PICK k \in bad : \A l \in bad : k <= l
    BY <2>1, Least
  <2>3. /\ k \in DOMAIN NodeIds /\ Fails(NodeIds[k])
        /\ \A l \in DOMAIN NodeIds : Fails(NodeIds[l]) =>
             IF NodeIds[k] \in last THEN NodeIds[l] \in last /\ k <= l
             ELSE NodeIds[l] \notin last => k <= l
    BY <2>2 DEF bad
  <2>4. \A p, q \in DOMAIN NodeIds : Earlier(p, q) /\ NodeIds[q] = NodeIds[k] => ~Fails(NodeIds[p])
    <3> SUFFICES ASSUME NEW p \in DOMAIN NodeIds, NEW q \in DOMAIN NodeIds,
                        Earlier(p, q), NodeIds[q] = NodeIds[k], Fails(NodeIds[p])
                 PROVE  FALSE
      OBVIOUS
    <3>1. q = k /\ p \in Nat /\ q \in Nat /\ k \in Nat
      BY <2>0, <2>3, SchemaConstants
    <3>2. Earlier(p, k)
      BY <3>1
    <3>3. IF NodeIds[k] \in last THEN NodeIds[p] \in last /\ k <= p ELSE NodeIds[p] \notin last => k <= p
      BY <2>3
    <3>4. CASE NodeIds[k] \in last
      BY <3>1, <3>2, <3>3, <3>4
    <3>5. CASE NodeIds[k] \notin last
      BY <3>1, <3>2, <3>3, <3>5
    <3> QED
      BY <3>4, <3>5
  <2>5. NodeIds[k] \in nodes
    BY <2>3
  <2>6. NodeIds[k] \in reached
    BY <2>4, <2>5
  <2> QED
    BY <1>5, <2>3, <2>6
<1> HIDE DEF reached, Fails, Earlier
<1>6. Mutates(w, v, reached, w.db.rows, "propagation")
  BY <1>1, <1>2, <1>3, MutateDoes
<1>7. v.ok => \A n \in reached : ~Fails(n)
  BY <1>4, <1>6 DEF Mutates
<1>8. v.ok => reached = nodes
  BY <1>3, <1>5, <1>7
<1> QED
  BY <1>3, <1>6, <1>8

\* A world with other fields, claims and rows.
Recatalogued(w, fields, claims, rows) ==
  World(fields, claims, rows, w.db.hash, w.db.marks, w.vault.notes, w.vault.catalog, w.snaps, w.ok)

OwnedBy(fields, claims) ==
  \A s \in SchemaNames : claims[s] # NoSchema => \A f \in DOMAIN claims[s] : fields[f] # NoField

LEMMA OwnedIs ==
  ASSUME NEW d, d.fields \in [FieldNames -> FieldDefs \cup {NoField}],
         d.claims \in [SchemaNames -> ClaimSets \cup {NoSchema}]
  PROVE  Owned(d) <=> OwnedBy(d.fields, d.claims)
<1>1. DOMAIN <<>> = {}
  BY EmptySeq, LenProperties
<1>2. \A s \in SchemaNames : DOMAIN Claims(d)[s] = IF d.claims[s] = NoSchema THEN {} ELSE DOMAIN d.claims[s]
  BY <1>1 DEF Claims
<1>3. \A s \in SchemaNames : d.claims[s] # NoSchema => DOMAIN d.claims[s] \subseteq FieldNames
  <2> SUFFICES ASSUME NEW s \in SchemaNames, d.claims[s] # NoSchema PROVE DOMAIN d.claims[s] \subseteq FieldNames
    OBVIOUS
  <2>1. PICK S \in SUBSET FieldNames : d.claims[s] \in [S -> Claim]
    BY DEF ClaimSets, ClaimsOf
  <2> QED
    BY <2>1
<1>4. DOMAIN Fields(d) = {f \in FieldNames : d.fields[f] # NoField}
  BY DEF Fields
<1> QED
  BY <1>2, <1>3, <1>4 DEF Owned, OwnedBy

LEMMA RecataloguedDoes ==
  ASSUME NEW w \in Worlds,
         NEW fields \in [FieldNames -> FieldDefs \cup {NoField}],
         NEW claims \in [SchemaNames -> ClaimSets \cup {NoSchema}],
         NEW rows \in Rows, OwnedBy(fields, claims),
         NEW v, v = Recatalogued(w, fields, claims, rows)
  PROVE  /\ v \in Worlds /\ v.db.fields = fields /\ v.db.claims = claims /\ v.db.rows = rows
         /\ v.db.hash = w.db.hash /\ v.db.marks = w.db.marks /\ v.vault = w.vault
         /\ v.snaps = w.snaps /\ v.ok = w.ok
<1>1. v = World(fields, claims, rows, w.db.hash, w.db.marks, w.vault.notes, w.vault.catalog, w.snaps, w.ok)
  BY DEF Recatalogued
<1>2. v.db.fields = fields /\ v.db.claims = claims
  BY <1>1 DEF World
<1>3. Owned(v.db)
  BY <1>2, OwnedIs
<1>4. /\ w.db.hash \in Rows /\ w.vault.notes \in Rows /\ w.snaps \in Snaps /\ w.ok \in BOOLEAN
      /\ w.db.marks \in [CatalogFiles -> Renderings \cup {NoHash}]
      /\ w.vault.catalog \in [CatalogFiles -> Renderings \cup {NoFile, Edited}]
      /\ w.vault = [notes |-> w.vault.notes, catalog |-> w.vault.catalog]
  BY WorldParts
<1>5. /\ v \in Worlds /\ v.db.rows = rows /\ v.db.hash = w.db.hash /\ v.db.marks = w.db.marks
      /\ v.snaps = w.snaps /\ v.ok = w.ok
  BY <1>1, <1>3, <1>4, WorldOf
<1>6. v.vault = [notes |-> w.vault.notes, catalog |-> w.vault.catalog]
  BY <1>1 DEF World
<1> QED
  BY <1>2, <1>4, <1>5, <1>6

-----------------------------------------------------------------------------
(* The log *)

SchemaTools == {"create-schema", "update-schema", "delete-schema"}
FieldTools == {"create-global-field", "update-global-field", "discard", "rename-global-field", "delete-global-field"}
Names == SchemaNames \cup FieldNames \cup Nodes

Ops == [tool : SchemaTools \cup FieldTools \cup {"update-node"}, name : Names, from : Names,
        was : SoundDBs, left : SoundDBs, snaps : Snaps, status : {"active", "undone"}]

\* The snapshots say what the operation did to the nodes.
Snapped(op) ==
  \A n \in Nodes :
    IF op.snaps[n] = Nothing THEN op.left.rows[n] = op.was.rows[n]
    ELSE op.snaps[n].was = op.was.rows[n] /\ op.snaps[n].post = op.left.rows[n]

SchemaRecord(op) ==
  /\ op.tool \in SchemaTools /\ op.name \in SchemaNames /\ Snapped(op)
  /\ op.left.fields = op.was.fields
  /\ \A s \in SchemaNames \ {op.name} : op.left.claims[s] = op.was.claims[s]
  /\ op.tool = "create-schema" <=> op.was.claims[op.name] = NoSchema

NodeRecord(op) ==
  op.tool = "update-node" /\ op.name \in Nodes /\ Snapped(op) /\ SameCatalog(op.left, op.was)

\* An operation on a field does nothing to other fields, nor to their values that
\* are what validation makes of them.
FieldRecord(op) ==
  /\ op.tool \in FieldTools /\ op.name \in FieldNames /\ op.from \in FieldNames /\ op.snaps = NoSnaps
  /\ op.tool # "rename-global-field" => op.from = op.name
  /\ op.tool \in {"create-global-field", "rename-global-field"} => op.was.fields[op.name] = NoField
  /\ \A s \in SchemaNames : op.left.claims[s] = NoSchema <=> op.was.claims[s] = NoSchema
  /\ \A h \in FieldNames \ {op.name, op.from} :
       /\ SameField(Context(op.left), Context(op.was), h)
       /\ \A n \in Nodes : Canonical(op.was, n) => op.left.rows[n][h] = op.was.rows[n][h]

Recorded(op) == SchemaRecord(op) \/ FieldRecord(op) \/ NodeRecord(op)

\* A mark stands for what was rendered last, and the file was not changed but by users.
Marked(d, v) ==
  \A file \in CatalogFiles : d.marks[file] = NoHash \/ v.catalog[file] \in {Edited, NoFile, d.marks[file]}

Clean(d, v) ==
  \A s \in SchemaNames :
    IF d.claims[s] = NoSchema THEN d.marks[s] = NoHash /\ v.catalog[s] = NoFile
    ELSE d.marks[s] = v.catalog[s] /\ d.marks[s] # NoHash

SchemasInv ==
  /\ db \in SoundDBs /\ vault \in Vaults
  /\ log \in Seq(Ops) /\ \A i \in DOMAIN log : Recorded(log[i])
  /\ Marked(db, vault)
  /\ edits \in Nat /\ (edits = 0 => Clean(db, vault))

LEMMA HereIsWorld ==
  ASSUME db \in SoundDBs, vault \in Vaults
  PROVE  Here \in Worlds /\ NoSnaps \in Snaps
BY DEF Here, NoSnaps, Worlds, Snaps

\* What a call that committed leaves.
LEMMA CommittedIs ==
  ASSUME SchemasInv, NEW tool \in SchemaTools \cup FieldTools \cup {"update-node"},
         NEW name \in Names, NEW from \in Names, NEW w \in Worlds, Committed(tool, name, from, w),
         Recorded(Operation(tool, name, from, w))
  PROVE  /\ db' = w.db /\ vault' = w.vault /\ edits' = edits
         /\ answer'.tool = tool /\ answer'.ok = w.ok /\ answer'.name = name
         /\ log' \in Seq(Ops) /\ log' # log /\ \A i \in DOMAIN log' : Recorded(log'[i])
<1> DEFINE op == Operation(tool, name, from, w)
<1>1. /\ db' = w.db /\ vault' = w.vault /\ edits' = edits
      /\ answer' = [tool |-> tool, ok |-> w.ok, name |-> name] /\ log' = Append(log, op)
  BY DEF Committed, Reply
<1>2. op \in Ops
  <2>1. w.db \in SoundDBs /\ w.snaps \in Snaps
    BY DEF Worlds
  <2> QED
    BY <2>1 DEF Operation, Ops, SchemasInv
<1> HIDE DEF op
<1>3. log \in Seq(Ops) /\ Recorded(op) /\ \A i \in DOMAIN log : Recorded(log[i])
  BY DEF SchemasInv, op
<1>4. /\ log' \in Seq(Ops) /\ Len(log') = Len(log) + 1 /\ Len(log) \in Nat
      /\ \A i \in 1 .. Len(log) : log'[i] = log[i]
      /\ log'[Len(log) + 1] = op
  BY <1>1, <1>2, <1>3, AppendProperties, LenProperties
<1>5. \A i \in DOMAIN log' : Recorded(log'[i])
  BY <1>3, <1>4, LenProperties
<1>6. answer'.tool = tool /\ answer'.name = name
  BY <1>1
<1>7. answer'.ok = w.ok
  BY <1>1
<1> QED
  BY <1>1, <1>4, <1>5, <1>6, <1>7

-----------------------------------------------------------------------------
(* A step, and what the properties say of it. *)

Rejects == ~answer'.ok /\ log' = log => db' = db /\ ((\A n \in Nodes : Fits(db, n)) => vault' = vault)

AcceptsFitting ==
  answer'.tool = "update-schema" /\ answer'.ok /\ log' # log =>
    \A n \in Nodes : answer'.name \in ToSet(Types[n]) =>
      LET s == answer'.name
          new == DOMAIN db'.claims[s] \ DOMAIN db.claims[s]
      IN /\ db'.claims[s] # db.claims[s] => Fits(db', n)
         /\ \A f \in new : EffectiveRequired(Context(db'), Types[n], f)
                           /\ EffectiveDefault(Context(db'), Types[n], f) # NoValue
                              => db'.rows[n][f] # NoValue \/ vault.notes[n][f] # NoValue

KeepsValues ==
  answer'.tool \notin {"update-node", "undo", "discard"} =>
    \A h \in Held(db) :
      \/ h \in Held(db')
      \/ answer'.tool = "rename-global-field" /\ <<h[1], answer'.name>> \in Held(db')
      \/ answer'.tool = "none" /\ vault.notes[h[1]][h[2]] = NoValue

FollowsRows ==
  answer'.ok /\ answer'.tool # "none" => \A n \in Nodes :
    \/ vault.notes[n] = db.rows[n] /\ Canonical(db', n) => vault'.notes[n] = db'.rows[n]
    \/ \E f \in OldName : db.rows[n][f] # NoValue

KeepsEdited ==
  \A file \in CatalogFiles : vault.catalog[file] = Edited /\ db.marks[file] # NoHash =>
    \/ vault'.catalog[file] = Edited \/ answer'.tool = "edit"
    \/ answer'.tool = "undo" /\ log[answer'.name].tool = "create-schema" /\ log[answer'.name].name = file

FollowsCatalog ==
  answer'.tool # "edit" /\ (\A f \in OldName : db.fields[f] = NoField) => \A file \in CatalogFiles :
    vault.catalog[file] = Wanted(db, file) => vault'.catalog[file] = Wanted(db', file)

RestoresOperation ==
  answer'.tool = "undo" /\ answer'.ok /\ log' # log =>
    LET op == log[answer'.name]
        Unowned(n, f) == /\ op.tool \in {"create-global-field", "rename-global-field"}
                         /\ f = op.name /\ f \in Orphans(Context(op.was), Types[n], op.was.rows[n])
        Intact == /\ <<db.fields, db.claims, db.rows>> = <<op.left.fields, op.left.claims, op.left.rows>>
                  /\ Conflicted(answer'.name) = {}
    IN Intact =>
         /\ db'.fields = op.was.fields /\ db'.claims = op.was.claims
         /\ \A n \in Nodes : Canonical(op.was, n) =>
              \A f \in FieldNames : Unowned(n, f) \/ db'.rows[n][f] = op.was.rows[n][f]

GoodStep ==
  /\ SchemasInv' /\ Rejects /\ AcceptsFitting /\ KeepsValues
  /\ FollowsRows /\ KeepsEdited /\ FollowsCatalog /\ RestoresOperation

-----------------------------------------------------------------------------
(* Steps on the catalog *)

Exists(d, file) == file = Catalog \/ d.claims[file] # NoSchema
Clear(file) == db.marks[file] = NoHash \/ vault.catalog[file] \in {NoFile, db.marks[file]}

\* Some files are rendered, if they are to be, and the others are kept.
RenderStep(d, v, files) ==
  \A file \in CatalogFiles :
    /\ file \in files /\ Exists(d, file) /\ Clear(file) =>
         v.catalog[file] = Rendered(d, file) /\ d.marks[file] = Rendered(d, file)
    /\ ~(file \in files /\ Exists(d, file) /\ Clear(file)) =>
         v.catalog[file] = vault.catalog[file] /\ d.marks[file] = db.marks[file]

\* Schemas do not go, and come only where they are rendered.
SameExisting(d, files) ==
  \A s \in SchemaNames : /\ d.claims[s] = NoSchema => db.claims[s] = NoSchema
                         /\ s \notin files /\ db.claims[s] = NoSchema => d.claims[s] = NoSchema

OthersKept(d, files) == \A file \in CatalogFiles \ files : Wanted(d, file) = Wanted(db, file)

EditedKept(v) ==
  \A file \in CatalogFiles :
    vault.catalog[file] = Edited /\ db.marks[file] # NoHash => v.catalog[file] = Edited

Followed(d, v) ==
  \A file \in CatalogFiles :
    vault.catalog[file] = Wanted(db, file) => v.catalog[file] = Wanted(d, file)

LEMMA WantedIs ==
  ASSUME NEW d \in SoundDBs, NEW file \in CatalogFiles
  PROVE  /\ ~Exists(d, file) => Wanted(d, file) = NoFile
         /\ Exists(d, file) => /\ Wanted(d, file) = Rendered(d, file) /\ Wanted(d, file) \in Renderings
                               /\ Wanted(d, file) \notin {NoFile, NoHash, Edited}
<1>1. Exists(d, file) => Rendered(d, file) \in Renderings
  BY RenderedTyped DEF Exists
<1> QED
  BY <1>1, MarkersDiffer DEF Exists, Wanted

LEMMA RenderStepIsGood ==
  ASSUME SchemasInv, NEW d \in SoundDBs, NEW v \in Vaults, NEW files,
         RenderStep(d, v, files), SameExisting(d, files)
  PROVE  /\ Marked(d, v) /\ (Clean(db, vault) => Clean(d, v)) /\ EditedKept(v)
         /\ OthersKept(d, files) => Followed(d, v)
<1>1. \A file \in CatalogFiles : db.marks[file] \in Renderings \cup {NoHash}
  BY DEF SchemasInv, SoundDBs, DBs
<1>2. Marked(db, vault) /\ db \in SoundDBs
  BY DEF SchemasInv
<1>3. ASSUME NEW file \in CatalogFiles
      PROVE  d.marks[file] = NoHash \/ v.catalog[file] \in {Edited, NoFile, d.marks[file]}
  BY <1>2 DEF Marked, RenderStep
<1>4. EditedKept(v)
  <2> SUFFICES ASSUME NEW file \in CatalogFiles, vault.catalog[file] = Edited, db.marks[file] # NoHash
               PROVE  v.catalog[file] = Edited
    BY DEF EditedKept
  <2>1. ~Clear(file)
    BY <1>1, MarkersDiffer DEF Clear
  <2> QED
    BY <2>1 DEF RenderStep
<1>5. ASSUME Clean(db, vault)
      PROVE  Clean(d, v)
  <2> SUFFICES ASSUME NEW s \in SchemaNames
               PROVE  IF d.claims[s] = NoSchema THEN d.marks[s] = NoHash /\ v.catalog[s] = NoFile
                      ELSE d.marks[s] = v.catalog[s] /\ d.marks[s] # NoHash
    BY DEF Clean
  <2>1. s \in CatalogFiles /\ s # Catalog
    BY MarkersDiffer DEF CatalogFiles
  <2>2. IF db.claims[s] = NoSchema THEN db.marks[s] = NoHash /\ vault.catalog[s] = NoFile
        ELSE db.marks[s] = vault.catalog[s] /\ db.marks[s] # NoHash
    BY <1>5 DEF Clean
  <2>3. Clear(s)
    BY <2>2 DEF Clear
  <2>4. Exists(d, s) <=> d.claims[s] # NoSchema
    BY <2>1 DEF Exists
  <2>5. CASE s \in files /\ Exists(d, s)
    <3>1. v.catalog[s] = Rendered(d, s) /\ d.marks[s] = Rendered(d, s)
      BY <2>1, <2>3, <2>5 DEF RenderStep
    <3>2. Rendered(d, s) # NoHash
      BY <2>1, <2>5, WantedIs
    <3> QED
      BY <2>4, <2>5, <3>1, <3>2
  <2>6. CASE ~(s \in files /\ Exists(d, s))
    <3>1. v.catalog[s] = vault.catalog[s] /\ d.marks[s] = db.marks[s]
      BY <2>1, <2>6 DEF RenderStep
    <3> QED
      BY <2>2, <2>4, <2>6, <3>1 DEF SameExisting
  <2> QED
    BY <2>5, <2>6
<1>6. ASSUME OthersKept(d, files)
      PROVE  Followed(d, v)
  <2> SUFFICES ASSUME NEW file \in CatalogFiles, vault.catalog[file] = Wanted(db, file)
               PROVE  v.catalog[file] = Wanted(d, file)
    BY DEF Followed
  <2>1. CASE file \notin files
    BY <1>6, <2>1 DEF OthersKept, RenderStep
  <2>2. CASE file \in files /\ Exists(d, file)
    <3>1. vault.catalog[file] # Edited
      BY <1>2, WantedIs, MarkersDiffer
    <3>2. Clear(file)
      BY <1>2, <3>1 DEF Marked, Clear
    <3>3. v.catalog[file] = Rendered(d, file)
      BY <2>2, <3>2 DEF RenderStep
    <3> QED
      BY <2>2, <3>3, WantedIs
  <2>3. CASE file \in files /\ ~Exists(d, file)
    <3>1. ~Exists(db, file)
      BY <2>3 DEF Exists, SameExisting, CatalogFiles
    <3>2. v.catalog[file] = vault.catalog[file]
      BY <2>3 DEF RenderStep
    <3> QED
      BY <1>2, <2>3, <3>1, <3>2, WantedIs
  <2> QED
    BY <2>1, <2>2, <2>3
<1> QED
  BY <1>3, <1>4, <1>5, <1>6 DEF Marked

\* Nothing happens to the catalog.
LEMMA NothingRendered ==
  ASSUME SchemasInv, NEW d \in SoundDBs, NEW v \in Vaults,
         SameCatalog(d, db), d.marks = db.marks, v.catalog = vault.catalog
  PROVE  /\ Marked(d, v) /\ (Clean(db, vault) => Clean(d, v)) /\ EditedKept(v) /\ Followed(d, v)
<1>1. RenderStep(d, v, {}) /\ SameExisting(d, {})
  BY DEF RenderStep, SameExisting, SameCatalog
<1>2. OthersKept(d, {})
  BY SameCatalogSame DEF OthersKept, Wanted, SameCatalog
<1> QED
  BY <1>1, <1>2, RenderStepIsGood

\* A world whose catalog files are those of now, once rendered and with its nodes changed.
LEMMA RendersIsStep ==
  ASSUME NEW x \in Worlds, x.db.marks = db.marks, x.vault.catalog = vault.catalog,
         NEW files, NEW y, Renders(x, y, files), NEW z, SameCatalog(z.db, y.db), SameFiles(y, z)
  PROVE  RenderStep(z.db, z.vault, files) /\ SameCatalog(z.db, x.db)
<1>1. SameCatalog(z.db, x.db)
  BY DEF Renders, SameCatalog
<1>2. \A file \in CatalogFiles : Due(x, file) <=> Exists(z.db, file) /\ Clear(file)
  BY <1>1 DEF Due, Exists, Clear, SameCatalog
<1>3. \A file : Rendered(x.db, file) = Rendered(z.db, file)
  BY <1>1, SameCatalogSame
<1> QED
  BY <1>1, <1>2, <1>3 DEF Renders, FileRendered, FileKept, SameFiles, RenderStep

LEMMA InvAfter ==
  ASSUME SchemasInv, db' \in SoundDBs, vault' \in Vaults,
         log' \in Seq(Ops), \A i \in DOMAIN log' : Recorded(log'[i]),
         Marked(db', vault'), Clean(db, vault) => Clean(db', vault'),
         edits' \in Nat, edits' = 0 => edits = 0
  PROVE  SchemasInv'
BY DEF SchemasInv, Marked, Clean, Recorded

\* Rows and the files of nodes stay.
LEMMA NodesStay ==
  ASSUME db'.rows = db.rows, vault'.notes = vault.notes
  PROVE  KeepsValues /\ FollowsRows
<1>1. Held(db') = Held(db)
  BY DEF Held
<1> QED
  BY <1>1 DEF KeepsValues, FollowsRows

-----------------------------------------------------------------------------
(* Tools that change schemas *)

\* v is w with other claims of a schema.
SchemaChanged(w, v, s, claims) ==
  /\ v \in Worlds /\ v.db.fields = w.db.fields /\ v.db.claims = [w.db.claims EXCEPT ![s] = claims]
  /\ v.db.rows = w.db.rows /\ v.db.hash = w.db.hash /\ v.db.marks = w.db.marks
  /\ v.vault = w.vault /\ v.snaps = w.snaps /\ v.ok = w.ok

LEMMA ClaimsChanged ==
  ASSUME NEW w \in Worlds, NEW s \in SchemaNames, NEW claims \in ClaimSets \cup {NoSchema},
         claims # NoSchema => \A f \in DOMAIN claims : w.db.fields[f] # NoField,
         NEW v, v = [w EXCEPT !.db.claims[s] = claims]
  PROVE  SchemaChanged(w, v, s, claims)
<1> DEFINE all == [w.db.claims EXCEPT ![s] = claims]
<1>1. /\ w = [db |-> w.db, vault |-> w.vault, snaps |-> w.snaps, ok |-> w.ok]
      /\ w.db = [fields |-> w.db.fields, claims |-> w.db.claims, rows |-> w.db.rows,
                 hash |-> w.db.hash, marks |-> w.db.marks]
      /\ w.vault = [notes |-> w.vault.notes, catalog |-> w.vault.catalog]
      /\ w.db.fields \in [FieldNames -> FieldDefs \cup {NoField}]
      /\ w.db.claims \in [SchemaNames -> ClaimSets \cup {NoSchema}] /\ w.db.rows \in Rows
      /\ Owned(w.db)
  BY WorldParts
<1>2. v = Recatalogued(w, w.db.fields, all, w.db.rows)
  <2>1. v = [w EXCEPT !.db = [w.db EXCEPT !.claims = all]]
    BY <1>1
  <2> HIDE DEF all
  <2> QED
    BY <1>1, <2>1 DEF Recatalogued, World
<1>3. all \in [SchemaNames -> ClaimSets \cup {NoSchema}]
  BY <1>1
<1>4. OwnedBy(w.db.fields, w.db.claims)
  BY <1>1, OwnedIs
<1>5. OwnedBy(w.db.fields, all)
  BY <1>1, <1>4 DEF OwnedBy
<1>6. /\ v \in Worlds /\ v.db.fields = w.db.fields /\ v.db.claims = all /\ v.db.rows = w.db.rows
      /\ v.db.hash = w.db.hash /\ v.db.marks = w.db.marks /\ v.vault = w.vault
      /\ v.snaps = w.snaps /\ v.ok = w.ok
  <2> HIDE DEF all
  <2> QED
    BY <1>1, <1>2, <1>3, <1>5, RecataloguedDoes
<1> QED
  BY <1>6 DEF SchemaChanged

LEMMA UpdateSchemaDefinitionDoes ==
  ASSUME NEW w \in Worlds, NEW s \in SchemaNames, NEW claims \in ClaimInputs,
         NEW v, v = UpdateSchemaDefinition(w, s, claims)
  PROVE  /\ claims \in ClaimSets /\ claims # NoSchema
         /\ IF ValidClaims(w.db, claims) THEN SchemaChanged(w, v, s, claims) ELSE v = Refused(w)
<1>1. claims \in ClaimSets /\ claims # NoSchema
  BY SchemaConstants DEF ClaimSets
<1>2. ASSUME ValidClaims(w.db, claims)
      PROVE  SchemaChanged(w, v, s, claims)
  <2>1. \A f \in DOMAIN claims : w.db.fields[f] # NoField
    BY <1>2 DEF ValidClaims
  <2>2. v = [w EXCEPT !.db.claims[s] = claims]
    BY <1>2 DEF UpdateSchemaDefinition
  <2> QED
    BY <1>1, <2>1, <2>2, ClaimsChanged
<1> QED
  BY <1>1, <1>2 DEF UpdateSchemaDefinition

\* The other entries of the catalog say what they said.
LEMMA OtherSchemasKept ==
  ASSUME NEW d \in SoundDBs, db \in SoundDBs, NEW s \in SchemaNames, NEW claims, d.fields = db.fields,
         d.claims = [db.claims EXCEPT ![s] = claims]
  PROVE  OthersKept(d, {s})
<1>1. \A file \in CatalogFiles : file # Catalog => file \in SchemaNames
  BY DEF CatalogFiles
<1>2. db.claims \in [SchemaNames -> ClaimSets \cup {NoSchema}]
  BY DEF SoundDBs, DBs
<1>3. ASSUME NEW file \in CatalogFiles, file # s, file # Catalog
      PROVE  d.claims[file] = db.claims[file]
  BY <1>1, <1>2, <1>3
<1>4. Fields(d) = Fields(db)
  BY DEF Fields
<1> QED
  BY <1>3, <1>4 DEF OthersKept, Wanted, Rendered, RenderedSchema

LEMMA CreateSchemaGood ==
  ASSUME SchemasInv, NEW s \in SchemaNames, NEW claims \in ClaimInputs, CreateSchema(s, claims)
  PROVE  GoodStep
<1> DEFINE w == UpdateSchemaDefinition(Here, s, claims)
           y == RenderFiles(w, {s})
<1>1. db.claims[s] = NoSchema /\ w.ok /\ Committed("create-schema", s, s, y)
  BY DEF CreateSchema, RenderFile
<1>2. Here \in Worlds /\ db \in SoundDBs
  BY HereIsWorld DEF SchemasInv
<1>3. Here.db = db /\ Here.vault = vault /\ Here.snaps = NoSnaps
  BY DEF Here
<1>4. SchemaChanged(Here, w, s, claims) /\ claims \in ClaimSets /\ claims # NoSchema
  <2>1. w # Refused(Here)
    BY <1>1 DEF Refused, Here
  <2> QED
    BY <1>2, <2>1, UpdateSchemaDefinitionDoes
<1> HIDE DEF w
<1>5. w \in Worlds /\ {s} \in SUBSET CatalogFiles
  BY <1>4 DEF SchemaChanged, CatalogFiles
<1>6. Renders(w, y, {s})
  BY <1>5, RenderFilesDoes
<1> HIDE DEF y
<1>7. y \in Worlds /\ SameCatalog(y.db, w.db) /\ SameNodes(w, y)
  BY <1>6 DEF Renders
<1>8. /\ y.db.fields = db.fields /\ y.db.claims = [db.claims EXCEPT ![s] = claims]
      /\ y.db.rows = db.rows /\ y.vault.notes = vault.notes /\ y.snaps = NoSnaps
  BY <1>3, <1>4, <1>7 DEF SchemaChanged, SameCatalog, SameNodes
<1>9. db.claims \in [SchemaNames -> ClaimSets \cup {NoSchema}]
  BY <1>2 DEF SoundDBs, DBs
<1>10. Recorded(Operation("create-schema", s, s, y))
  BY <1>1, <1>8, <1>9 DEF Recorded, SchemaRecord, Operation, SchemaTools, Snapped, NoSnaps
<1>11. /\ db' = y.db /\ vault' = y.vault /\ edits' = edits
       /\ answer'.tool = "create-schema" /\ answer'.ok = y.ok /\ answer'.name = s
       /\ log' \in Seq(Ops) /\ log' # log /\ \A i \in DOMAIN log' : Recorded(log'[i])
  BY <1>1, <1>7, <1>10, CommittedIs DEF SchemaTools, Names
<1>12. RenderStep(y.db, y.vault, {s})
  BY <1>3, <1>4, <1>6, RendersIsStep DEF SchemaChanged, SameCatalog, SameFiles
<1>13. SameExisting(y.db, {s})
  BY <1>1, <1>4, <1>8, <1>9 DEF SameExisting
<1>14. y.db \in SoundDBs /\ y.vault \in Vaults
  BY <1>7 DEF Worlds
<1>15. OthersKept(y.db, {s})
  BY <1>2, <1>8, <1>14, OtherSchemasKept
<1>16. /\ Marked(y.db, y.vault) /\ (Clean(db, vault) => Clean(y.db, y.vault))
       /\ EditedKept(y.vault) /\ Followed(y.db, y.vault)
  BY <1>12, <1>13, <1>14, <1>15, RenderStepIsGood
<1>17. SchemasInv'
  BY <1>11, <1>14, <1>16, InvAfter DEF SchemasInv
<1>18. KeepsValues /\ FollowsRows
  BY <1>8, <1>11, NodesStay
<1> QED
  BY <1>11, <1>16, <1>17, <1>18
     DEF GoodStep, Rejects, AcceptsFitting, KeepsEdited, FollowsCatalog, RestoresOperation, EditedKept, Followed

LEMMA RejectedIs ==
  ASSUME NEW tool, NEW name, NEW w, Rejected(tool, name, w)
  PROVE  /\ db' = db /\ vault' = w.vault /\ edits' = edits /\ log' = log
         /\ answer'.tool = tool /\ answer'.ok = FALSE /\ answer'.name = name
BY DEF Rejected, RolledBack, Reply, Here

\* A call that is refused, once files of nodes are written.
LEMMA RejectedGood ==
  ASSUME SchemasInv, NEW tool, NEW name, NEW w, Rejected(tool, name, w),
         w.vault \in Vaults, w.vault.catalog = vault.catalog,
         (\A n \in Nodes : Fits(db, n)) => w.vault = vault
  PROVE  GoodStep
<1>1. /\ db' = db /\ vault' = w.vault /\ edits' = edits /\ log' = log /\ answer'.ok = FALSE
  BY RejectedIs
<1>2. db \in SoundDBs /\ log \in Seq(Ops) /\ edits \in Nat /\ \A i \in DOMAIN log : Recorded(log[i])
  BY DEF SchemasInv
<1>3. SameCatalog(db, db)
  BY DEF SameCatalog
<1>4. /\ Marked(db, w.vault) /\ (Clean(db, vault) => Clean(db, w.vault))
      /\ EditedKept(w.vault) /\ Followed(db, w.vault)
  BY <1>2, <1>3, NothingRendered
<1>5. SchemasInv'
  BY <1>1, <1>2, <1>4, InvAfter
<1>6. KeepsValues
  BY <1>1 DEF KeepsValues, Held
<1> QED
  BY <1>1, <1>4, <1>5, <1>6 DEF GoodStep, Rejects, AcceptsFitting, FollowsRows, KeepsEdited,
     FollowsCatalog, RestoresOperation, EditedKept, Followed

LEMMA RefusedAtOnce ==
  ASSUME SchemasInv, NEW tool, NEW name, Rejected(tool, name, Here)
  PROVE  GoodStep
<1>1. Here.vault = vault /\ vault \in Vaults
  BY DEF Here, SchemasInv
<1> QED
  BY <1>1, RejectedGood

\* A call that committed and is not update-schema.
LEMMA CommittedGood ==
  ASSUME SchemasInv, NEW tool \in SchemaTools \cup FieldTools \cup {"update-node"}, tool # "update-schema",
         NEW name \in Names, NEW from \in Names, NEW w \in Worlds, Committed(tool, name, from, w),
         Recorded(Operation(tool, name, from, w)),
         Marked(w.db, w.vault), Clean(db, vault) => Clean(w.db, w.vault),
         EditedKept(w.vault), Followed(w.db, w.vault), KeepsValues, FollowsRows
  PROVE  GoodStep
<1>1. /\ db' = w.db /\ vault' = w.vault /\ edits' = edits
      /\ answer'.tool = tool /\ log' \in Seq(Ops) /\ log' # log /\ \A i \in DOMAIN log' : Recorded(log'[i])
  BY CommittedIs
<1>2. w.db \in SoundDBs /\ w.vault \in Vaults
  BY DEF Worlds
<1>3. SchemasInv'
  BY <1>1, <1>2, InvAfter DEF SchemasInv
<1>4. tool # "undo"
  BY DEF SchemaTools, FieldTools
<1> QED
  BY <1>1, <1>3, <1>4 DEF GoodStep, Rejects, AcceptsFitting, KeepsEdited, FollowsCatalog,
     RestoresOperation, EditedKept, Followed

\* What validation is for a source that gets no defaults.
LEMMA CheckedAlone ==
  ASSUME NEW w, NEW n, NEW values, NEW source \in {"propagation", "undo"}
  PROVE  /\ Checked(w, n, values, source) = Validate(Context(w.db), Types[n], values[n], TRUE)
         /\ \A v : Refuses(v, source) <=> v.invalid # {}
<1>1. (source # "tool") = TRUE
  OBVIOUS
<1>2. Checked(w, n, values, source) = Validate(Context(w.db), Types[n], values[n], TRUE)
  BY <1>1, Zenon DEF Checked
<1>3. \A v : Refuses(v, source) <=> v.invalid # {}
  BY DEF Refuses
<1> QED
  BY <1>2, <1>3

\* The nodes that a change of claims concerns, and what they are proposed.
Affected(s, diff) ==
  IF diff.added \cup diff.removed \cup diff.changed = {} THEN {} ELSE {n \in Nodes : s \in ToSet(Types[n])}
Proposed(d, added) == [n \in Nodes |-> Adopted(d, n, added)]

LEMMA AdoptedIs ==
  ASSUME NEW d \in SoundDBs, NEW n \in Nodes, NEW added, added \subseteq DOMAIN Fields(d)
  PROVE  /\ Adopted(d, n, added) \in NodeValues
         /\ \A f \in FieldNames :
              /\ d.rows[n][f] # NoValue => Adopted(d, n, added)[f] = d.rows[n][f]
              /\ f \in added /\ d.rows[n][f] = NoValue /\ EffectiveRequired(Context(d), Types[n], f) =>
                   Adopted(d, n, added)[f] = EffectiveDefault(Context(d), Types[n], f)
         /\ added = {} => Adopted(d, n, added) = d.rows[n]
<1>1. Adopted(d, n, added) =
        [f \in FieldNames |->
           IF f \in added /\ d.rows[n][f] = NoValue /\ EffectiveRequired(Context(d), Types[n], f)
             THEN EffectiveDefault(Context(d), Types[n], f) ELSE d.rows[n][f]]
  BY Zenon DEF Adopted
<1>2. d.rows[n] \in [FieldNames -> Values]
  BY NodesTyped DEF SoundDBs, DBs, NodeValues
<1>3. \A f \in added : EffectiveDefault(Context(d), Types[n], f) \in Values
  BY ContextTyped, NodesTyped, AttributesTyped DEF Context
<1> QED
  BY <1>1, <1>2, <1>3 DEF NodeValues

LEMMA PropagateDoes ==
  ASSUME NEW w \in Worlds, NEW s \in SchemaNames, NEW diff, diff.added \subseteq DOMAIN Fields(w.db),
         NEW v, v = PropagateSchemaChange(w, s, diff)
  PROVE  Mutates(w, v, Affected(s, diff), Proposed(w.db, diff.added), "propagation")
<1>1. v = Mutate(w, Affected(s, diff), Proposed(w.db, diff.added), "propagation")
  BY Zenon DEF PropagateSchemaChange, Affected, Proposed
<1>2. Affected(s, diff) \in SUBSET Nodes
  BY DEF Affected
<1>3. w.db \in SoundDBs
  BY DEF Worlds
<1>4. \A n \in Affected(s, diff) : Proposed(w.db, diff.added)[n] \in NodeValues
  BY <1>2, <1>3, AdoptedIs DEF Proposed
<1> QED
  BY <1>1, <1>2, <1>4, MutateDoes

\* What a mutation without defaults does to a node: it keeps the values it has, and
\* either leaves row and file alone or brings them in line.
ValuesStay(w, v, n, nodes, values) ==
  \A f \in FieldNames :
    w.db.rows[n][f] # NoValue /\ (n \in nodes => values[n][f] = w.db.rows[n][f])
      => v.db.rows[n][f] # NoValue

KeptOrStored(w, v, n, nodes, values) ==
  \/ NodeKept(w, v, n)
  \/ n \in nodes /\ NodeStored(w, v, n, Validate(Context(w.db), Types[n], values[n], TRUE).state, "propagation")

InLine(w, v, n) == w.vault.notes[n] = w.db.rows[n] => v.vault.notes[n] = v.db.rows[n]

LEMMA MutatedNode ==
  ASSUME NEW w \in Worlds, NEW nodes \in SUBSET Nodes, NEW values \in Rows, NEW v,
         Mutates(w, v, nodes, values, "propagation"), NEW n \in Nodes
  PROVE  KeptOrStored(w, v, n, nodes, values) /\ ValuesStay(w, v, n, nodes, values) /\ InLine(w, v, n)
<1> DEFINE x == Checked(w, n, values, "propagation")
<1>1. x = Validate(Context(w.db), Types[n], values[n], TRUE) /\ (Refuses(x, "propagation") <=> x.invalid # {})
  BY CheckedAlone
<1> HIDE DEF x
<1>2. \/ NodeKept(w, v, n)
      \/ n \in nodes /\ NodeStored(w, v, n, x.state, "propagation") /\ ~Refuses(x, "propagation")
  BY DEF Mutates, x
<1>3. CASE NodeKept(w, v, n)
  BY <1>3 DEF NodeKept, ValuesStay, KeptOrStored, InLine
<1>4. CASE n \in nodes /\ NodeStored(w, v, n, x.state, "propagation") /\ ~Refuses(x, "propagation")
  <2>1. v.db.rows[n] = x.state /\ v.vault.notes[n] = x.state
    BY <1>4 DEF NodeStored
  <2>2. TypedContext(Context(w.db)) /\ Types[n] \in Seq(SchemaNames) /\ values[n] \in [FieldNames -> Values]
    BY <1>4, ContextTyped, NodesTyped DEF Worlds, NodeValues
  <2>3. FieldByField(x, Context(w.db), Types[n], values[n])
    BY <1>1, <2>2, ValidateAlone
  <2>4. \A f \in FieldNames : values[n][f] # NoValue => x.state[f] # NoValue
    BY <1>1, <1>4, <2>3 DEF FieldByField
  <2> QED
    BY <1>1, <1>4, <2>1, <2>4 DEF ValuesStay, KeptOrStored, InLine
<1> QED
  BY <1>2, <1>3, <1>4

\* The preview of a change of claims fails if the change does, unless a node has
\* a value that does not fit its field.
LEMMA PreviewIsStrict ==
  ASSUME SchemasInv, NEW s \in SchemaNames, NEW claims \in ClaimInputs, NEW stated \in BOOLEAN,
         db.claims[s] # NoSchema, PreviewSchemaChange(Here, s, claims).ok,
         \A n \in Nodes : Fits(db, n)
  PROVE  PropagateSchemaChange(UpdateSchemaDefinition(Here, s, claims), s,
           DiffClaims(db.claims[s], claims, stated)).ok
<1> DEFINE x == UpdateSchemaDefinition(Here, s, claims)
           old == db.claims[s]
           seen == DiffClaims(old, claims, FALSE)
           diff == DiffClaims(old, claims, stated)
           w == PropagateSchemaChange(x, s, diff)
<1>1. Here \in Worlds /\ db \in SoundDBs /\ Here.db = db /\ Here.vault = vault /\ Here.ok = TRUE
  BY HereIsWorld DEF SchemasInv, Here
<1>2. x.ok /\ PropagateSchemaChange(x, s, seen).ok
  BY <1>1, Zenon DEF PreviewSchemaChange
<1>3. SchemaChanged(Here, x, s, claims) /\ claims \in ClaimSets
  <2>1. x # Refused(Here)
    BY <1>2 DEF Refused, Here
  <2> QED
    BY <1>1, <2>1, UpdateSchemaDefinitionDoes
<1>4. old \in ClaimSets
  BY <1>1 DEF SoundDBs, DBs
<1>5. /\ diff.added = DOMAIN claims \ DOMAIN old /\ seen.added = DOMAIN claims \ DOMAIN old
      /\ diff.removed = DOMAIN old \ DOMAIN claims /\ seen.removed = DOMAIN old \ DOMAIN claims
  BY DEF DiffClaims
<1>6. /\ diff.changed = {f \in DOMAIN claims \cap DOMAIN old : stated \/ claims[f] # old[f]}
      /\ seen.changed = {f \in DOMAIN claims \cap DOMAIN old : claims[f] # old[f]}
  BY DEF DiffClaims
<1> HIDE DEF x, seen, diff
<1>7. CASE seen.added \cup seen.removed \cup seen.changed # {}
  <2>1. diff.added \cup diff.removed \cup diff.changed # {}
    BY <1>5, <1>6, <1>7
  <2>2. PropagateSchemaChange(x, s, diff) = PropagateSchemaChange(x, s, seen)
    BY <1>5, <1>7, <2>1 DEF PropagateSchemaChange
  <2> QED
    BY <1>2, <2>2 DEF x, diff
<1>8. CASE seen.added \cup seen.removed \cup seen.changed = {}
  <2>1. DOMAIN claims = DOMAIN old /\ \A f \in DOMAIN old : claims[f] = old[f]
    BY <1>5, <1>6, <1>8
  <2>2. claims = [f \in DOMAIN claims |-> claims[f]] /\ old = [f \in DOMAIN old |-> old[f]]
    BY <1>3, <1>4 DEF ClaimSets, ClaimsOf
  <2>3. claims = old
    BY <2>1, <2>2
  <2>4. db.claims \in [SchemaNames -> ClaimSets \cup {NoSchema}]
    BY <1>1 DEF SoundDBs, DBs
  <2>5. x.db.claims = db.claims /\ x.db.fields = db.fields /\ x.db.rows = db.rows /\ x \in Worlds
    BY <1>1, <1>3, <2>3, <2>4 DEF SchemaChanged
  <2>6. Context(x.db) = Context(db)
    BY <2>5, SameCatalogSame DEF SameCatalog
  <2>7. diff.added = {}
    BY <1>5, <1>8
  <2>8. Mutates(x, w, Affected(s, diff), Proposed(x.db, diff.added), "propagation")
    BY <2>5, <2>7, PropagateDoes
  <2>9. \A n \in Affected(s, diff) :
          ~Refuses(Checked(x, n, Proposed(x.db, diff.added), "propagation"), "propagation")
    <3> SUFFICES ASSUME NEW n \in Affected(s, diff)
                 PROVE  ~Refuses(Checked(x, n, Proposed(x.db, diff.added), "propagation"), "propagation")
      OBVIOUS
    <3>1. n \in Nodes
      BY DEF Affected
    <3>2. Adopted(x.db, n, diff.added) = db.rows[n]
      BY <2>5, <2>7, <3>1, AdoptedIs DEF Worlds
    <3>3. Proposed(x.db, diff.added)[n] = db.rows[n]
      BY <3>1, <3>2 DEF Proposed
    <3>4. Checked(x, n, Proposed(x.db, diff.added), "propagation")
            = Validate(Context(x.db), Types[n], Proposed(x.db, diff.added)[n], TRUE)
      BY CheckedAlone
    <3>5. Validate(Context(db), Types[n], db.rows[n], TRUE).invalid = {}
      BY <3>1, Zenon DEF Fits
    <3>6. Checked(x, n, Proposed(x.db, diff.added), "propagation").invalid = {}
      BY <2>6, <3>3, <3>4, <3>5
    <3> QED
      BY <3>6, CheckedAlone
  <2>10. w.ok
    BY <1>2, <2>8, <2>9 DEF Mutates
  <2> QED
    BY <2>10 DEF x, diff
<1> QED
  BY <1>7, <1>8

\* A change of claims that went through, for a node: the values that it has fit, and
\* a required claim that is new is met, by the row or by the file.
RequiredMet(x, w, n, added) ==
  \A f \in added \cap EffectiveFields(Context(x.db), Types[n]) :
    EffectiveRequired(Context(x.db), Types[n], f) /\ EffectiveDefault(Context(x.db), Types[n], f) # NoValue
      => w.db.rows[n][f] # NoValue \/ x.vault.notes[n][f] # NoValue

LEMMA AcceptedNode ==
  ASSUME NEW x \in Worlds, NEW s \in SchemaNames, NEW diff, diff.added \subseteq DOMAIN Fields(x.db),
         NEW w, Mutates(x, w, Affected(s, diff), Proposed(x.db, diff.added), "propagation"), w.ok,
         NEW n \in Affected(s, diff)
  PROVE  /\ Fits(w.db, n)
         /\ RequiredMet(x, w, n, diff.added)
<1> DEFINE c == Context(x.db)
           p == Adopted(x.db, n, diff.added)
           row == x.db.rows[n]
<1>1. n \in Nodes /\ x.db \in SoundDBs /\ w.db \in SoundDBs
  BY DEF Affected, Mutates, Worlds
<1>2. TypedContext(c) /\ Types[n] \in Seq(SchemaNames) /\ row \in [FieldNames -> Values]
  BY <1>1, ContextTyped, NodesTyped DEF NodeValues, SoundDBs, DBs
<1>3. p \in [FieldNames -> Values] /\ Proposed(x.db, diff.added)[n] = p
  BY <1>1, AdoptedIs DEF NodeValues, Proposed
<1>4. \A f \in FieldNames :
         /\ row[f] # NoValue => p[f] = row[f]
         /\ f \in diff.added /\ row[f] = NoValue /\ EffectiveRequired(c, Types[n], f) =>
              p[f] = EffectiveDefault(c, Types[n], f)
  BY <1>1, AdoptedIs
<1>5. Context(w.db) = c
  BY SameCatalogSame DEF Mutates
<1> HIDE DEF c, p, row
<1>6. PICK v : v = Validate(c, Types[n], p, TRUE)
  OBVIOUS
<1>7. v = Checked(x, n, Proposed(x.db, diff.added), "propagation")
  BY <1>3, <1>6, CheckedAlone DEF c
<1>8. v.invalid = {}
  BY <1>7, CheckedAlone DEF Mutates
<1>9. FieldByField(v, c, Types[n], p) /\ v.state \in [FieldNames -> Values]
      /\ EffectiveFields(c, Types[n]) \subseteq FieldNames
  BY <1>2, <1>3, <1>6, ValidateAlone
<1>10. \/ NodeKept(x, w, n) /\ NoOp(x, n, v.state)
       \/ NodeStored(x, w, n, v.state, "propagation")
  BY <1>1, <1>7, <1>8, CheckedAlone DEF Mutates
<1>11. Fits(w.db, n)
  <2>1. CASE NodeStored(x, w, n, v.state, "propagation")
    <3>1. Validate(c, Types[n], v.state, TRUE).invalid = {}
      BY <1>2, <1>3, <1>6, StoredFits
    <3>2. w.db.rows[n] = v.state
      BY <2>1 DEF NodeStored
    <3> QED
      BY <1>5, <3>1, <3>2 DEF Fits
  <2>2. CASE NodeKept(x, w, n)
    <3>1. w.db.rows[n] = row
      BY <2>2 DEF NodeKept, row
    <3>2. PICK u : u = Validate(c, Types[n], row, TRUE)
      OBVIOUS
    <3>3. FieldByField(u, c, Types[n], row) /\ u.invalid \subseteq EffectiveFields(c, Types[n])
      BY <1>2, <3>2, ValidateAlone
    <3>4. ASSUME NEW f \in u.invalid PROVE FALSE
      <4>1. f \in FieldNames /\ f \in EffectiveFields(c, Types[n])
        BY <1>9, <3>3
      <4>2. row[f] # NoValue /\ u.state[f] = NoValue /\ u.state[f] = Accepted(c, Types[n], f, row[f])
        BY <3>3, <4>1 DEF FieldByField
      <4>3. p[f] = row[f] /\ v.state[f] = Accepted(c, Types[n], f, p[f]) /\ v.state[f] # NoValue
        BY <1>4, <1>8, <1>9, <4>1, <4>2 DEF FieldByField
      <4> QED
        BY <4>2, <4>3
    <3> QED
      BY <1>5, <3>1, <3>2, <3>4, Zenon DEF Fits
  <2> QED
    BY <1>10, <2>1, <2>2
<1>12. ASSUME NEW f \in diff.added \cap EffectiveFields(c, Types[n]), EffectiveRequired(c, Types[n], f),
              EffectiveDefault(c, Types[n], f) # NoValue
       PROVE  w.db.rows[n][f] # NoValue \/ x.vault.notes[n][f] # NoValue
  <2>1. f \in FieldNames /\ p[f] # NoValue
    BY <1>4, <1>9, <1>12
  <2>2. v.state[f] # NoValue
    BY <1>8, <1>9, <2>1 DEF FieldByField
  <2> QED
    BY <1>10, <2>2 DEF NodeStored, NoOp
<1> QED
  BY <1>11, <1>12 DEF c, RequiredMet

\* What a change of claims leaves when it went through.
LEMMA UpdatedGood ==
  ASSUME SchemasInv, NEW s \in SchemaNames, NEW claims \in ClaimInputs, NEW stated \in BOOLEAN,
         db.claims[s] # NoSchema, NEW x, x = UpdateSchemaDefinition(Here, s, claims), x.ok,
         NEW diff, diff = DiffClaims(db.claims[s], claims, stated),
         NEW w, w = PropagateSchemaChange(x, s, diff), w.ok,
         Committed("update-schema", s, s, RenderFile(w, s))
  PROVE  GoodStep
<1> DEFINE y == RenderFiles(w, {s})
<1>1. Here \in Worlds /\ db \in SoundDBs /\ Here.db = db /\ Here.vault = vault /\ Here.snaps = NoSnaps
  BY HereIsWorld DEF SchemasInv, Here
<1>2. SchemaChanged(Here, x, s, claims) /\ claims \in ClaimSets /\ claims # NoSchema
  <2>1. x # Refused(Here)
    BY DEF Refused, Here
  <2> QED
    BY <1>1, <2>1, UpdateSchemaDefinitionDoes
<1>3. db.claims \in [SchemaNames -> ClaimSets \cup {NoSchema}]
  BY <1>1 DEF SoundDBs, DBs
<1>4. /\ x \in Worlds /\ x.db \in SoundDBs /\ x.db.fields = db.fields
      /\ x.db.claims = [db.claims EXCEPT ![s] = claims] /\ x.db.claims[s] = claims
      /\ x.db.rows = db.rows /\ x.db.marks = db.marks /\ x.vault = vault /\ x.snaps = NoSnaps
  BY <1>1, <1>2, <1>3 DEF SchemaChanged, Worlds
<1>5. diff.added = DOMAIN claims \ DOMAIN db.claims[s] /\ diff.added \subseteq DOMAIN Fields(x.db)
  <2>1. diff.added = DOMAIN claims \ DOMAIN db.claims[s]
    BY DEF DiffClaims
  <2>2. DOMAIN claims \subseteq DOMAIN Fields(x.db)
    <3>1. Claims(x.db)[s] = claims /\ x.db \in DBs /\ Owned(x.db)
      BY <1>2, <1>4, ClaimsTyped DEF SoundDBs
    <3> QED
      BY <3>1 DEF Owned
  <2> QED
    BY <2>1, <2>2
<1>6. Mutates(x, w, Affected(s, diff), Proposed(x.db, diff.added), "propagation")
  BY <1>4, <1>5, PropagateDoes
<1>7. w \in Worlds /\ SameCatalog(w.db, x.db) /\ SameFiles(x, w) /\ {s} \in SUBSET CatalogFiles
  BY <1>6 DEF Mutates, CatalogFiles
<1>8. Renders(w, y, {s})
  BY <1>7, RenderFilesDoes
<1> HIDE DEF y
<1>9. y \in Worlds /\ SameCatalog(y.db, w.db) /\ SameNodes(w, y) /\ y.ok = w.ok
  BY <1>8 DEF Renders
<1>10. \A n \in Nodes : NodeKept(x, w, n) \/ \E state \in NodeValues : NodeStored(x, w, n, state, "propagation")
  <2> SUFFICES ASSUME NEW n \in Nodes
               PROVE  NodeKept(x, w, n) \/ \E state \in NodeValues : NodeStored(x, w, n, state, "propagation")
    OBVIOUS
  <2> DEFINE state == Checked(x, n, Proposed(x.db, diff.added), "propagation").state
  <2>1. NodeKept(x, w, n) \/ NodeStored(x, w, n, state, "propagation")
    BY <1>6 DEF Mutates
  <2> HIDE DEF state
  <2>2. w.db.rows[n] \in NodeValues
    BY <1>7, NodesTyped, WorldParts
  <2>3. NodeStored(x, w, n, state, "propagation") => state \in NodeValues
    BY <2>2 DEF NodeStored
  <2> QED
    BY <2>1, <2>3
<1>11. Recorded(Operation("update-schema", s, s, y))
  <2> DEFINE op == Operation("update-schema", s, s, y)
  <2>1. /\ op.tool = "update-schema" /\ op.name = s /\ op.was = db /\ op.left = y.db /\ op.snaps = y.snaps
    BY DEF Operation
  <2>2. y.db.fields = db.fields /\ y.db.claims = [db.claims EXCEPT ![s] = claims]
        /\ y.db.rows = w.db.rows /\ y.snaps = w.snaps
    BY <1>4, <1>7, <1>9 DEF SameCatalog, SameNodes
  <2>3. ASSUME NEW n \in Nodes
        PROVE  IF y.snaps[n] = Nothing THEN y.db.rows[n] = db.rows[n]
               ELSE y.snaps[n].was = db.rows[n] /\ y.snaps[n].post = y.db.rows[n]
    <3>1. CASE NodeKept(x, w, n)
      BY <1>4, <2>2, <3>1 DEF NodeKept, NoSnaps
    <3>2. ASSUME NEW state \in NodeValues, NodeStored(x, w, n, state, "propagation")
          PROVE  y.snaps[n].was = db.rows[n] /\ y.snaps[n].post = y.db.rows[n] /\ y.snaps[n] # Nothing
      <4>1. y.snaps[n] = [was |-> db.rows[n], post |-> state] /\ y.db.rows[n] = state
        BY <1>4, <2>2, <3>2 DEF NodeStored
      <4>2. db.rows[n] \in NodeValues
        BY <1>1, NodesTyped DEF SoundDBs, DBs
      <4>3. [was |-> db.rows[n], post |-> state] \in [was : NodeValues, post : NodeValues]
        BY <4>2
      <4> QED
        BY <4>1, <4>3, MarkersDiffer
    <3> QED
      BY <1>10, <3>1, <3>2
  <2> HIDE DEF op
  <2>4. Snapped(op)
    BY <2>1, <2>3 DEF Snapped
  <2>5. SchemaRecord(op)
    BY <1>3, <2>1, <2>2, <2>4 DEF SchemaRecord, SchemaTools
  <2> QED
    BY <2>5 DEF Recorded, op
<1>12. /\ db' = y.db /\ vault' = y.vault /\ edits' = edits
       /\ answer'.tool = "update-schema" /\ answer'.ok = y.ok /\ answer'.name = s
       /\ log' \in Seq(Ops) /\ log' # log /\ \A i \in DOMAIN log' : Recorded(log'[i])
  BY <1>9, <1>11, CommittedIs DEF SchemaTools, Names, RenderFile, y
<1>13. y.db \in SoundDBs /\ y.vault \in Vaults
       /\ y.db.fields = db.fields /\ y.db.claims = [db.claims EXCEPT ![s] = claims]
  BY <1>4, <1>7, <1>9 DEF Worlds, SameCatalog
<1>14. RenderStep(y.db, y.vault, {s})
  <2>1. w.db.marks = db.marks /\ w.vault.catalog = vault.catalog
    BY <1>4, <1>7 DEF SameFiles
  <2>2. SameCatalog(y.db, y.db) /\ SameFiles(y, y)
    BY DEF SameCatalog, SameFiles
  <2> QED
    BY <1>7, <1>8, <2>1, <2>2, RendersIsStep
<1>15. SameExisting(y.db, {s})
  BY <1>2, <1>3, <1>13 DEF SameExisting
<1>16. OthersKept(y.db, {s})
  BY <1>1, <1>13, OtherSchemasKept
<1>17. /\ Marked(y.db, y.vault) /\ (Clean(db, vault) => Clean(y.db, y.vault))
       /\ EditedKept(y.vault) /\ Followed(y.db, y.vault)
  BY <1>13, <1>14, <1>15, <1>16, RenderStepIsGood
<1>18. SchemasInv'
  BY <1>12, <1>13, <1>17, InvAfter DEF SchemasInv
<1>19. y.db.rows = w.db.rows /\ y.vault.notes = w.vault.notes
  BY <1>9 DEF SameNodes
<1>20. ASSUME NEW n \in Nodes
       PROVE  /\ \A f \in FieldNames : db.rows[n][f] # NoValue => y.db.rows[n][f] # NoValue
              /\ vault.notes[n] = db.rows[n] => y.vault.notes[n] = y.db.rows[n]
  <2> DEFINE values == Proposed(x.db, diff.added)
  <2>1. /\ values \in Rows
        /\ \A f \in FieldNames : db.rows[n][f] # NoValue => values[n][f] = db.rows[n][f]
    BY <1>4, <1>5, AdoptedIs DEF Proposed, Rows, NodeValues
  <2>2. Affected(s, diff) \in SUBSET Nodes
    BY DEF Affected
  <2> HIDE DEF values
  <2>3. Mutates(x, w, Affected(s, diff), values, "propagation")
    BY <1>6 DEF values
  <2>4. /\ ValuesStay(x, w, n, Affected(s, diff), values)
        /\ InLine(x, w, n)
    BY <1>4, <2>1, <2>2, <2>3, MutatedNode
  <2> QED
    BY <1>4, <1>19, <2>1, <2>4 DEF ValuesStay, InLine
<1>21. KeepsValues
  <2>1. ASSUME NEW h \in Held(db) PROVE h \in Held(db')
    <3>1. PICK n \in Nodes, f \in FieldNames : h = <<n, f>>
      BY DEF Held
    <3>2. db.rows[n][f] # NoValue
      BY <3>1 DEF Held
    <3>3. db'.rows[n][f] # NoValue
      BY <1>12, <1>20, <3>2
    <3> QED
      BY <3>1, <3>3 DEF Held
  <2> QED
    BY <2>1 DEF KeepsValues
<1>22. FollowsRows
  BY <1>12, <1>20 DEF FollowsRows
<1>23. AcceptsFitting
  <2> DEFINE new == DOMAIN db'.claims[s] \ DOMAIN db.claims[s]
  <2>1. Context(db') = Context(x.db) /\ Context(db') = Context(w.db) /\ db'.rows = w.db.rows
        /\ db'.claims[s] = claims /\ new = diff.added
    <3>1. SameCatalog(db', x.db) /\ SameCatalog(db', w.db)
      BY <1>7, <1>9, <1>12 DEF SameCatalog
    <3> QED
      BY <1>3, <1>5, <1>12, <1>13, <1>19, <3>1, SameCatalogSame
  <2>2. ASSUME NEW n \in Nodes, s \in ToSet(Types[n]), claims # db.claims[s] \/ new # {}
        PROVE  n \in Affected(s, diff)
    <3>1. diff.removed = DOMAIN db.claims[s] \ DOMAIN claims
          /\ \A f \in DOMAIN claims \cap DOMAIN db.claims[s] : claims[f] # db.claims[s][f] => f \in diff.changed
      BY DEF DiffClaims
    <3>2. ASSUME diff.added = {}, diff.removed = {}, diff.changed = {} PROVE claims = db.claims[s]
      <4>1. DOMAIN claims = DOMAIN db.claims[s]
        BY <1>5, <3>1, <3>2
      <4>2. \A f \in DOMAIN claims : claims[f] = db.claims[s][f]
        BY <3>1, <3>2, <4>1
      <4>3. claims = [f \in DOMAIN claims |-> claims[f]]
            /\ db.claims[s] = [f \in DOMAIN db.claims[s] |-> db.claims[s][f]]
        BY <1>2, <1>3 DEF ClaimSets, ClaimsOf
      <4> QED
        BY <4>1, <4>2, <4>3
    <3> QED
      BY <2>1, <2>2, <3>2 DEF Affected
  <2>3. ASSUME NEW n \in Nodes, s \in ToSet(Types[n])
        PROVE  /\ db'.claims[s] # db.claims[s] => Fits(db', n)
               /\ \A f \in new : EffectiveRequired(Context(db'), Types[n], f)
                                 /\ EffectiveDefault(Context(db'), Types[n], f) # NoValue
                                    => db'.rows[n][f] # NoValue \/ vault.notes[n][f] # NoValue
    <3>1. n \in Affected(s, diff) => Fits(w.db, n)
      BY <1>4, <1>5, <1>6, AcceptedNode
    <3>2. Fits(w.db, n) <=> Fits(db', n)
      BY <2>1 DEF Fits
    <3>3. ASSUME NEW f \in new, EffectiveRequired(Context(db'), Types[n], f),
                 EffectiveDefault(Context(db'), Types[n], f) # NoValue
          PROVE  db'.rows[n][f] # NoValue \/ vault.notes[n][f] # NoValue
      <4>1. n \in Affected(s, diff)
        BY <2>2, <2>3, <3>3
      <4>2. f \in diff.added \cap EffectiveFields(Context(x.db), Types[n])
        <5>1. s \in Claimants(Context(x.db), Types[n], f)
          <6>1. Claims(x.db)[s] = claims
            BY <1>2, <1>4, ClaimsTyped DEF SoundDBs
          <6>2. f \in DOMAIN Context(x.db).claims[s]
            BY <2>1, <6>1 DEF Context
          <6> QED
            BY <2>3, <6>2 DEF Claimants
        <5>2. f \in DOMAIN Context(x.db).fields
          BY <1>5, <2>1 DEF Context
        <5> QED
          BY <2>1, <5>1, <5>2 DEF EffectiveFields
      <4>3. RequiredMet(x, w, n, diff.added)
        BY <1>4, <1>5, <1>6, <4>1, AcceptedNode
      <4> QED
        BY <1>4, <2>1, <3>3, <4>2, <4>3 DEF RequiredMet
    <3> QED
      BY <2>1, <2>2, <2>3, <3>1, <3>2, <3>3
  <2> QED
    BY <1>12, <2>3 DEF AcceptsFitting
<1> QED
  BY <1>12, <1>17, <1>18, <1>21, <1>22, <1>23
     DEF GoodStep, Rejects, KeepsEdited, FollowsCatalog, RestoresOperation, EditedKept, Followed

\* What a change of claims leaves, whether it goes through or not.
LEMMA UpdateSchemaGood ==
  ASSUME SchemasInv, NEW s \in SchemaNames, NEW claims \in ClaimInputs, UpdateSchema(s, claims)
  PROVE  GoodStep
<1> DEFINE preview == PreviewSchemaChange(Here, s, claims)
           x == UpdateSchemaDefinition(Here, s, claims)
           Diff(st) == DiffClaims(db.claims[s], claims, st)
           After(st) == PropagateSchemaChange(x, s, Diff(st))
<1>0. PICK stated \in BOOLEAN :
        /\ db.claims[s] # NoSchema
        /\ \/ Rejected("update-schema", s, Here)
           \/ /\ preview.ok
              /\ IF After(stated).ok THEN Committed("update-schema", s, s, RenderFile(After(stated), s))
                 ELSE Rejected("update-schema", s, After(stated))
  BY Zenon DEF UpdateSchema
<1> DEFINE diff == Diff(stated)
           w == After(stated)
<1>1. db.claims[s] # NoSchema
      /\ \/ Rejected("update-schema", s, Here)
         \/ /\ preview.ok
            /\ IF w.ok THEN Committed("update-schema", s, s, RenderFile(w, s))
               ELSE Rejected("update-schema", s, w)
  BY <1>0, Zenon
<1>2. Here \in Worlds /\ db \in SoundDBs /\ Here.db = db /\ Here.vault = vault
  BY HereIsWorld DEF SchemasInv, Here
<1>3. preview.ok => x.ok
  BY <1>2, Zenon DEF PreviewSchemaChange
<1>4. CASE Rejected("update-schema", s, Here)
  BY <1>4, RefusedAtOnce
<1>5. CASE preview.ok /\ w.ok /\ Committed("update-schema", s, s, RenderFile(w, s))
  <2> HIDE DEF x, diff, w
  <2>1. x = UpdateSchemaDefinition(Here, s, claims) /\ diff = DiffClaims(db.claims[s], claims, stated)
        /\ w = PropagateSchemaChange(x, s, diff)
    BY DEF x, diff, w
  <2> QED
    BY <1>1, <1>3, <1>5, <2>1, UpdatedGood
<1>6. CASE preview.ok /\ ~w.ok /\ Rejected("update-schema", s, w)
  <2>1. SchemaChanged(Here, x, s, claims) /\ claims \in ClaimSets /\ claims # NoSchema
    <3>1. x # Refused(Here)
      BY <1>3, <1>6 DEF Refused, Here
    <3> QED
      BY <1>2, <3>1, UpdateSchemaDefinitionDoes
  <2>2. ~\A n \in Nodes : Fits(db, n)
    BY <1>1, <1>6, PreviewIsStrict
  <2> HIDE DEF preview, x
  <2>3. db.claims \in [SchemaNames -> ClaimSets \cup {NoSchema}]
    BY <1>2 DEF SoundDBs, DBs
  <2>4. x \in Worlds /\ x.db \in SoundDBs /\ x.db.claims[s] = claims /\ x.vault = vault
    BY <1>2, <2>1, <2>3 DEF SchemaChanged, Worlds
  <2>5. diff.added \subseteq DOMAIN Fields(x.db)
    <3>1. diff.added = DOMAIN claims \ DOMAIN db.claims[s]
      BY DEF DiffClaims
    <3>2. DOMAIN claims \subseteq DOMAIN Fields(x.db)
      BY <2>1, <2>4, ClaimsTyped DEF SoundDBs, Owned
    <3> QED
      BY <3>1, <3>2
  <2>6. Mutates(x, w, Affected(s, diff), Proposed(x.db, diff.added), "propagation")
    BY <2>4, <2>5, PropagateDoes
  <2> HIDE DEF diff, w
  <2>7. w.vault \in Vaults /\ w.vault.catalog = vault.catalog
    BY <2>4, <2>6 DEF Mutates, SameFiles, Worlds
  <2> QED
    BY <1>6, <2>2, <2>7, RejectedGood
<1> QED
  BY <1>1, <1>4, <1>5, <1>6

\* What is left of a schema that is deleted: its file goes unless it was edited.
Drops(w, v, s) ==
  /\ v \in Worlds /\ SameCatalog(v.db, w.db) /\ SameNodes(w, v) /\ v.ok = w.ok
  /\ \A file \in CatalogFiles \ {s} : FileKept(w, v, file)
  /\ IF w.db.marks[s] # NoHash /\ w.vault.catalog[s] \notin {NoFile, w.db.marks[s]} THEN FileKept(w, v, s)
     ELSE v.db.marks[s] = NoHash /\ v.vault.catalog[s] = NoFile

LEMMA DeleteSchemaFileDoes ==
  ASSUME NEW w \in Worlds, NEW s \in SchemaNames, NEW v, v = DeleteSchemaFile(w, s)
  PROVE  Drops(w, v, s)
<1> DEFINE marks == [w.db.marks EXCEPT ![s] = NoHash]
           catalog == [w.vault.catalog EXCEPT ![s] = NoFile]
<1>1. /\ w = [db |-> w.db, vault |-> w.vault, snaps |-> w.snaps, ok |-> w.ok]
      /\ w.db = [fields |-> w.db.fields, claims |-> w.db.claims, rows |-> w.db.rows,
                 hash |-> w.db.hash, marks |-> w.db.marks]
      /\ w.vault = [notes |-> w.vault.notes, catalog |-> w.vault.catalog]
      /\ w.db.fields \in [FieldNames -> FieldDefs \cup {NoField}]
      /\ w.db.claims \in [SchemaNames -> ClaimSets \cup {NoSchema}]
      /\ w.db.rows \in Rows /\ w.db.hash \in Rows /\ w.vault.notes \in Rows
      /\ w.db.marks \in [CatalogFiles -> Renderings \cup {NoHash}]
      /\ w.vault.catalog \in [CatalogFiles -> Renderings \cup {NoFile, Edited}]
      /\ w.snaps \in Snaps /\ w.ok \in BOOLEAN /\ Owned(w.db)
  BY WorldParts
<1>2. s \in CatalogFiles
  BY DEF CatalogFiles
<1>3. CASE w.db.marks[s] # NoHash /\ w.vault.catalog[s] \notin {NoFile, w.db.marks[s]}
  <2>1. v = w
    BY <1>3 DEF DeleteSchemaFile
  <2> QED
    BY <1>3, <2>1 DEF Drops, SameCatalog, SameNodes, FileKept
<1>4. CASE ~(w.db.marks[s] # NoHash /\ w.vault.catalog[s] \notin {NoFile, w.db.marks[s]})
  <2>1. v = [w EXCEPT !.vault.catalog[s] = NoFile, !.db.marks[s] = NoHash]
    BY <1>4 DEF DeleteSchemaFile
  <2>2. v = [db |-> [w.db EXCEPT !.marks = marks], vault |-> [w.vault EXCEPT !.catalog = catalog],
             snaps |-> w.snaps, ok |-> w.ok]
    BY <1>1, <2>1
  <2>3. marks \in [CatalogFiles -> Renderings \cup {NoHash}]
        /\ catalog \in [CatalogFiles -> Renderings \cup {NoFile, Edited}]
        /\ marks[s] = NoHash /\ catalog[s] = NoFile
        /\ \A file \in CatalogFiles \ {s} : marks[file] = w.db.marks[file] /\ catalog[file] = w.vault.catalog[file]
    BY <1>1, <1>2
  <2> HIDE DEF marks, catalog
  <2>4. v = World(w.db.fields, w.db.claims, w.db.rows, w.db.hash, marks, w.vault.notes, catalog, w.snaps, w.ok)
    <3>1. [w.db EXCEPT !.marks = marks] = [fields |-> w.db.fields, claims |-> w.db.claims, rows |-> w.db.rows,
             hash |-> w.db.hash, marks |-> marks]
      BY <1>1
    <3>2. [w.vault EXCEPT !.catalog = catalog] = [notes |-> w.vault.notes, catalog |-> catalog]
      BY <1>1
    <3> QED
      BY <2>2, <3>1, <3>2 DEF World
  <2>5. Owned(v.db)
    <3>1. SameCatalog(v.db, w.db)
      BY <2>4 DEF World, SameCatalog
    <3> QED
      BY <1>1, <3>1, SameCatalogSame
  <2>6. /\ v \in Worlds
        /\ v.db.fields = w.db.fields /\ v.db.claims = w.db.claims /\ v.db.rows = w.db.rows
        /\ v.db.hash = w.db.hash /\ v.db.marks = marks /\ v.vault.notes = w.vault.notes
        /\ v.vault.catalog = catalog /\ v.snaps = w.snaps /\ v.ok = w.ok
    BY <1>1, <2>3, <2>4, <2>5, WorldOf
  <2> QED
    BY <1>4, <2>3, <2>6 DEF Drops, SameCatalog, SameNodes, FileKept
<1> QED
  BY <1>3, <1>4

\* The catalog once a schema is deleted.
LEMMA DropIsGood ==
  ASSUME SchemasInv, NEW s \in SchemaNames, NEW x \in Worlds, x.db.marks = db.marks,
         x.vault.catalog = vault.catalog, x.db.fields = db.fields,
         x.db.claims = [db.claims EXCEPT ![s] = NoSchema], NEW y, Drops(x, y, s)
  PROVE  /\ Marked(y.db, y.vault) /\ (Clean(db, vault) => Clean(y.db, y.vault))
         /\ EditedKept(y.vault) /\ Followed(y.db, y.vault)
<1>1. db \in SoundDBs /\ y.db \in SoundDBs /\ Marked(db, vault)
  BY DEF SchemasInv, Drops, Worlds
<1>2. \A file \in CatalogFiles : db.marks[file] \in Renderings \cup {NoHash}
  BY <1>1 DEF SoundDBs, DBs
<1>3. y.db.fields = db.fields /\ y.db.claims = [db.claims EXCEPT ![s] = NoSchema]
  BY DEF Drops, SameCatalog
<1>4. \A file \in CatalogFiles \ {s} : y.vault.catalog[file] = vault.catalog[file] /\ y.db.marks[file] = db.marks[file]
  BY DEF Drops, FileKept
<1>5. IF db.marks[s] # NoHash /\ vault.catalog[s] \notin {NoFile, db.marks[s]}
        THEN y.vault.catalog[s] = vault.catalog[s] /\ y.db.marks[s] = db.marks[s]
        ELSE y.db.marks[s] = NoHash /\ y.vault.catalog[s] = NoFile
  BY DEF Drops, FileKept
<1>6. s \in CatalogFiles /\ s # Catalog
  BY MarkersDiffer DEF CatalogFiles
<1>7. db.claims \in [SchemaNames -> ClaimSets \cup {NoSchema}]
  BY <1>1 DEF SoundDBs, DBs
<1>8. Marked(y.db, y.vault)
  BY <1>1, <1>4, <1>5 DEF Marked
<1>9. EditedKept(y.vault)
  BY <1>2, <1>4, <1>5, MarkersDiffer DEF EditedKept
<1>10. ASSUME Clean(db, vault)
       PROVE  Clean(y.db, y.vault)
  <2> SUFFICES ASSUME NEW t \in SchemaNames
               PROVE  IF y.db.claims[t] = NoSchema THEN y.db.marks[t] = NoHash /\ y.vault.catalog[t] = NoFile
                      ELSE y.db.marks[t] = y.vault.catalog[t] /\ y.db.marks[t] # NoHash
    BY DEF Clean
  <2>1. IF db.claims[t] = NoSchema THEN db.marks[t] = NoHash /\ vault.catalog[t] = NoFile
        ELSE db.marks[t] = vault.catalog[t] /\ db.marks[t] # NoHash
    BY <1>10 DEF Clean
  <2>2. t \in CatalogFiles
    BY DEF CatalogFiles
  <2> QED
    BY <1>3, <1>4, <1>5, <1>7, <2>1, <2>2
<1>11. Followed(y.db, y.vault)
  <2> SUFFICES ASSUME NEW file \in CatalogFiles, vault.catalog[file] = Wanted(db, file)
               PROVE  y.vault.catalog[file] = Wanted(y.db, file)
    BY DEF Followed
  <2>1. CASE file # s
    <3>1. OthersKept(y.db, {s})
      BY <1>1, <1>3, OtherSchemasKept
    <3> QED
      BY <1>4, <2>1, <3>1 DEF OthersKept
  <2>2. CASE file = s
    <3>1. vault.catalog[s] # Edited
      BY <1>1, <1>6, <2>2, WantedIs, MarkersDiffer
    <3>2. y.vault.catalog[s] = NoFile
      BY <1>1, <1>5, <1>6, <3>1 DEF Marked
    <3>3. ~Exists(y.db, s)
      BY <1>3, <1>6, <1>7 DEF Exists
    <3> QED
      BY <1>1, <2>2, <1>6, <3>2, <3>3, WantedIs
  <2> QED
    BY <2>1, <2>2
<1> QED
  BY <1>8, <1>9, <1>10, <1>11

LEMMA DeleteSchemaGood ==
  ASSUME SchemasInv, NEW s \in SchemaNames, DeleteSchema(s)
  PROVE  GoodStep
<1> DEFINE x == [Here EXCEPT !.db.claims[s] = NoSchema]
           y == DeleteSchemaFile(x, s)
<1>1. db.claims[s] # NoSchema /\ Committed("delete-schema", s, s, y)
  BY DEF DeleteSchema
<1>2. Here \in Worlds /\ db \in SoundDBs
  BY HereIsWorld DEF SchemasInv
<1>3. Here.db = db /\ Here.vault = vault /\ Here.snaps = NoSnaps
  BY DEF Here
<1>4. SchemaChanged(Here, x, s, NoSchema)
  BY <1>2, ClaimsChanged
<1> HIDE DEF x
<1>5. Drops(x, y, s)
  BY <1>4, DeleteSchemaFileDoes DEF SchemaChanged
<1> HIDE DEF y
<1>6. y \in Worlds /\ SameCatalog(y.db, x.db) /\ SameNodes(x, y)
  BY <1>5 DEF Drops
<1>7. /\ y.db.fields = db.fields /\ y.db.claims = [db.claims EXCEPT ![s] = NoSchema]
      /\ y.db.rows = db.rows /\ y.vault.notes = vault.notes /\ y.snaps = NoSnaps
  BY <1>3, <1>4, <1>6 DEF SchemaChanged, SameCatalog, SameNodes
<1>8. db.claims \in [SchemaNames -> ClaimSets \cup {NoSchema}]
  BY <1>2 DEF SoundDBs, DBs
<1>9. Recorded(Operation("delete-schema", s, s, y))
  BY <1>1, <1>7, <1>8 DEF Recorded, SchemaRecord, Operation, SchemaTools, Snapped, NoSnaps
<1>10. db' = y.db /\ vault' = y.vault
  BY <1>1 DEF Committed, Reply
<1>11. /\ Marked(y.db, y.vault) /\ (Clean(db, vault) => Clean(y.db, y.vault))
       /\ EditedKept(y.vault) /\ Followed(y.db, y.vault)
  BY <1>3, <1>4, <1>5, DropIsGood DEF SchemaChanged
<1>12. KeepsValues /\ FollowsRows
  BY <1>7, <1>10, NodesStay
<1> QED
  BY <1>1, <1>6, <1>9, <1>11, <1>12, CommittedGood DEF SchemaTools, Names

-----------------------------------------------------------------------------
(* Tools that change fields *)

\* Nothing but a field, under the names f and g, differs from now.
OneField(d, f, g) ==
  /\ \A h \in FieldNames \ {f, g} : d.fields[h] = db.fields[h] /\ \A n \in Nodes : d.rows[n][h] = db.rows[n][h]
  /\ \A s \in SchemaNames : (d.claims[s] = NoSchema) <=> (db.claims[s] = NoSchema)
  /\ \A s \in SchemaNames \ Claiming(db, f) : d.claims[s] = db.claims[s]
  /\ \A s \in Claiming(db, f), h \in FieldNames \ {f, g} :
       /\ (h \in DOMAIN d.claims[s]) <=> (h \in DOMAIN db.claims[s])
       /\ h \in DOMAIN db.claims[s] => d.claims[s][h] = db.claims[s][h]

LEMMA ClaimingIs ==
  ASSUME NEW d \in DBs, NEW f
  PROVE  /\ Claiming(d, f) \subseteq SchemaNames
         /\ \A s \in SchemaNames : s \in Claiming(d, f) <=> d.claims[s] # NoSchema /\ f \in DOMAIN d.claims[s]
<1>1. \A s \in SchemaNames : d.claims[s] = NoSchema => DOMAIN Claims(d)[s] = {}
  BY ClaimsTyped
<1>2. \A s \in SchemaNames : d.claims[s] # NoSchema => Claims(d)[s] = d.claims[s]
  BY ClaimsTyped
<1> QED
  BY <1>1, <1>2 DEF Claiming

LEMMA OneFieldSame ==
  ASSUME NEW d \in SoundDBs, db \in SoundDBs, NEW f \in FieldNames, NEW g \in FieldNames,
         OneField(d, f, g), NEW h \in FieldNames \ {f, g}
  PROVE  SameField(Context(d), Context(db), h)
<1>1. d \in DBs /\ db \in DBs
  BY DEF SoundDBs
<1>2. /\ (h \in DOMAIN Fields(d)) <=> (h \in DOMAIN Fields(db))
      /\ h \in DOMAIN Fields(d) => Fields(d)[h] = Fields(db)[h]
  BY DEF OneField, Fields
<1>3. ASSUME NEW s \in SchemaNames
      PROVE  /\ h \in DOMAIN Claims(d)[s] <=> h \in DOMAIN Claims(db)[s]
             /\ h \in DOMAIN Claims(d)[s] => Claims(d)[s][h] = Claims(db)[s][h]
  <2>1. CASE db.claims[s] = NoSchema
    <3>1. DOMAIN Claims(d)[s] = {} /\ DOMAIN Claims(db)[s] = {}
      BY <1>1, <2>1, ClaimsTyped DEF OneField
    <3> QED
      BY <3>1
  <2>2. CASE db.claims[s] # NoSchema
    <3>1. Claims(d)[s] = d.claims[s] /\ Claims(db)[s] = db.claims[s]
      BY <1>1, <2>2, ClaimsTyped DEF OneField
    <3>2. CASE s \in Claiming(db, f)
      BY <3>1, <3>2 DEF OneField
    <3>3. CASE s \notin Claiming(db, f)
      BY <3>1, <3>3 DEF OneField
    <3> QED
      BY <3>2, <3>3
  <2> QED
    BY <2>1, <2>2
<1> QED
  BY <1>2, <1>3 DEF SameField, Context

\* The schemas that do not claim the field are rendered as before.
LEMMA OtherFilesKept ==
  ASSUME NEW d \in SoundDBs, db \in SoundDBs, NEW f \in FieldNames, NEW g \in FieldNames,
         f = g \/ db.fields[g] = NoField, OneField(d, f, g)
  PROVE  OthersKept(d, {Catalog} \cup Claiming(db, f)) /\ SameExisting(d, {Catalog} \cup Claiming(db, f))
<1>1. db \in DBs /\ Owned(db)
  BY DEF SoundDBs
<1>2. ASSUME NEW file \in CatalogFiles, file # Catalog, file \notin Claiming(db, f)
      PROVE  Wanted(d, file) = Wanted(db, file)
  <2>1. file \in SchemaNames /\ d.claims[file] = db.claims[file]
    BY <1>2 DEF OneField, CatalogFiles
  <2>2. CASE db.claims[file] = NoSchema
    BY <1>2, <2>1, <2>2 DEF Wanted
  <2>3. CASE db.claims[file] # NoSchema
    <3>1. Claims(db)[file] = db.claims[file]
      BY <1>1, <2>1, <2>3, ClaimsTyped
    <3>2. f \notin DOMAIN db.claims[file]
      BY <1>1, <1>2, <2>1, <2>3, ClaimingIs
    <3>3. \A h \in DOMAIN db.claims[file] : h \in FieldNames /\ db.fields[h] # NoField
      BY <1>1, <2>1, <3>1, ClaimsTyped, FieldsTyped DEF Owned
    <3>4. \A h \in DOMAIN db.claims[file] : d.fields[h] = db.fields[h]
      BY <3>2, <3>3 DEF OneField
    <3>5. RenderedSchema(d, file) = RenderedSchema(db, file)
      BY <2>1, <3>4 DEF RenderedSchema
    <3> QED
      BY <1>2, <2>1, <2>3, <3>5 DEF Wanted, Rendered
  <2> QED
    BY <2>2, <2>3
<1>3. OthersKept(d, {Catalog} \cup Claiming(db, f))
  BY <1>2 DEF OthersKept
<1> QED
  BY <1>3 DEF SameExisting, OneField

\* Every value is still there, or under the new name.
Carried(d, tool, name) ==
  tool = "discard" \/ \A n \in Nodes, h \in FieldNames : db.rows[n][h] # NoValue =>
    d.rows[n][h] # NoValue \/ (tool = "rename-global-field" /\ d.rows[n][name] # NoValue)

\* The nodes whose rows were changed are rendered again.
Rewritten(d, ok, reached) == \A n \in Nodes : d.rows[n] = db.rows[n] \/ (ok => n \in reached)

LEMMA UnsnappedIs ==
  ASSUME NEW z \in Worlds, NEW u, u = Unsnapped(z)
  PROVE  u \in Worlds /\ u.db = z.db /\ u.vault = z.vault /\ u.snaps = NoSnaps /\ u.ok = z.ok
<1>1. z = [db |-> z.db, vault |-> z.vault, snaps |-> z.snaps, ok |-> z.ok] /\ z.ok \in BOOLEAN
  BY WorldParts
<1>2. u = [db |-> z.db, vault |-> z.vault, snaps |-> NoSnaps, ok |-> z.ok]
  BY <1>1 DEF Unsnapped
<1>3. z.db \in SoundDBs /\ z.vault \in Vaults
  BY DEF Worlds
<1>4. NoSnaps \in Snaps
  BY DEF NoSnaps, Snaps
<1> QED
  BY <1>1, <1>2, <1>3, <1>4 DEF Worlds

\* The record of a change of a field.
LEMMA FieldRecorded ==
  ASSUME db \in SoundDBs, NEW tool \in FieldTools, NEW name \in FieldNames, NEW from \in FieldNames,
         tool # "rename-global-field" => from = name,
         tool \in {"create-global-field", "rename-global-field"} => db.fields[name] = NoField,
         NEW x \in Worlds, OneField(x.db, from, name),
         NEW y \in Worlds, SameCatalog(y.db, x.db), y.db.rows = x.db.rows,
         NEW reached \in SUBSET Nodes, NEW z, Mutates(y, z, reached, y.db.rows, "propagation"),
         NEW u, u = Unsnapped(z)
  PROVE  Recorded(Operation(tool, name, from, u))
<1>1. z \in Worlds /\ SameCatalog(z.db, y.db)
  BY DEF Mutates
<1>2. u.db = z.db /\ u.snaps = NoSnaps
  BY <1>1, UnsnappedIs
<1>3. x.db \in SoundDBs
  BY DEF Worlds
<1>4. SameCatalog(z.db, x.db)
  BY <1>1 DEF SameCatalog
<1>5. Context(z.db) = Context(x.db) /\ Context(y.db) = Context(x.db)
  BY <1>4, SameCatalogSame
<1>6. y.db.rows \in Rows
  BY WorldParts
<1>7. ASSUME NEW h \in FieldNames \ {name, from}
      PROVE  /\ SameField(Context(z.db), Context(db), h)
             /\ \A n \in Nodes : Canonical(db, n) => z.db.rows[n][h] = db.rows[n][h]
  <2>1. SameField(Context(x.db), Context(db), h)
    BY <1>3, <1>7, OneFieldSame
  <2>2. ASSUME NEW n \in Nodes, Canonical(db, n)
        PROVE  z.db.rows[n][h] = db.rows[n][h]
    <3>1. y.db.rows[n][h] = db.rows[n][h]
      BY <1>7 DEF OneField
    <3>2. KeptOrStored(y, z, n, reached, y.db.rows)
      BY <1>6, MutatedNode
    <3>3. CASE NodeKept(y, z, n)
      BY <3>1, <3>3 DEF NodeKept
    <3>4. CASE NodeStored(y, z, n, Validate(Context(y.db), Types[n], y.db.rows[n], TRUE).state, "propagation")
      <4>1. z.db.rows[n] = Validate(Context(x.db), Types[n], y.db.rows[n], TRUE).state
        BY <1>5, <3>4 DEF NodeStored
      <4>2. Types[n] \in Seq(SchemaNames) /\ y.db.rows[n] \in [FieldNames -> Values]
            /\ db.rows[n] \in [FieldNames -> Values]
        BY <1>6, NodesTyped DEF NodeValues, SoundDBs, DBs
      <4>3. Validate(Context(x.db), Types[n], y.db.rows[n], TRUE).state[h]
              = Validate(Context(db), Types[n], db.rows[n], TRUE).state[h]
        <5>1. StateAlone(Context(x.db), Types[n], y.db.rows[n])[h] = StateAlone(Context(db), Types[n], db.rows[n])[h]
          BY <2>1, <3>1, <4>2, SameFieldSameState
        <5> QED
          BY <5>1, Zenon DEF StateAlone
      <4>4. Validate(Context(db), Types[n], db.rows[n], TRUE).state = db.rows[n]
        BY <2>2 DEF Canonical
      <4> QED
        BY <4>1, <4>3, <4>4
    <3> QED
      BY <3>2, <3>3, <3>4 DEF KeptOrStored
  <2> QED
    BY <1>5, <2>1, <2>2
<1>8. \A s \in SchemaNames : (z.db.claims[s] = NoSchema) <=> (db.claims[s] = NoSchema)
  BY <1>4 DEF SameCatalog, OneField
<1> DEFINE op == Operation(tool, name, from, u)
<1>9. op.tool = tool /\ op.name = name /\ op.from = from /\ op.was = db /\ op.left = z.db /\ op.snaps = NoSnaps
  BY <1>2 DEF Operation
<1> HIDE DEF op
<1>10. FieldRecord(op)
  BY <1>7, <1>8, <1>9 DEF FieldRecord
<1> QED
  BY <1>10 DEF Recorded, op

\* A field has changed, the catalog files and then some nodes were rendered, and the call is in
\* the log.
LEMMA FieldChangeGood ==
  ASSUME SchemasInv, NEW tool \in FieldTools, NEW name \in FieldNames, NEW from \in FieldNames,
         tool # "rename-global-field" => from = name,
         tool \in {"create-global-field", "rename-global-field"} => db.fields[name] = NoField,
         NEW x \in Worlds, OneField(x.db, from, name), x.db.marks = db.marks, x.vault = vault,
         Carried(x.db, tool, name),
         NEW y, Renders(x, y, {Catalog} \cup Claiming(db, from)),
         NEW reached \in SUBSET Nodes, NEW z, Mutates(y, z, reached, y.db.rows, "propagation"),
         Rewritten(x.db, z.ok, reached),
         NEW u, u = Unsnapped(z), Committed(tool, name, from, u)
  PROVE  GoodStep
<1>1. db \in SoundDBs
  BY DEF SchemasInv
<1>2. y \in Worlds /\ SameCatalog(y.db, x.db) /\ y.db.rows = x.db.rows /\ y.vault.notes = vault.notes
  BY DEF Renders, SameNodes
<1>3. z \in Worlds /\ SameCatalog(z.db, y.db) /\ SameFiles(y, z)
  BY DEF Mutates
<1>4. u \in Worlds /\ u.db = z.db /\ u.vault = z.vault /\ u.ok = z.ok
  BY <1>3, UnsnappedIs
<1>5. db' = z.db /\ vault' = z.vault /\ answer'.tool = tool /\ answer'.ok = z.ok /\ answer'.name = name
  BY <1>4 DEF Committed, Reply
<1>6. Recorded(Operation(tool, name, from, u))
  BY <1>1, <1>2, FieldRecorded
<1>7. RenderStep(z.db, z.vault, {Catalog} \cup Claiming(db, from)) /\ SameCatalog(z.db, x.db)
  BY <1>3, RendersIsStep
<1>8. z.db \in SoundDBs /\ z.vault \in Vaults /\ x.db \in SoundDBs
  BY <1>3 DEF Worlds
<1>9. OthersKept(x.db, {Catalog} \cup Claiming(db, from)) /\ SameExisting(x.db, {Catalog} \cup Claiming(db, from))
  BY <1>1, <1>8, OtherFilesKept DEF FieldTools
<1>10. OthersKept(z.db, {Catalog} \cup Claiming(db, from)) /\ SameExisting(z.db, {Catalog} \cup Claiming(db, from))
  <2>1. \A file \in CatalogFiles : Wanted(z.db, file) = Wanted(x.db, file)
    BY <1>7, SameCatalogSame DEF Wanted, SameCatalog
  <2> QED
    BY <1>7, <1>9, <2>1 DEF OthersKept, SameExisting, SameCatalog
<1>11. /\ Marked(z.db, z.vault) /\ (Clean(db, vault) => Clean(z.db, z.vault))
       /\ EditedKept(z.vault) /\ Followed(z.db, z.vault)
  BY <1>7, <1>8, <1>10, RenderStepIsGood
<1>12. y.db.rows \in Rows
  BY <1>2, WorldParts
<1>13. \A n \in Nodes : /\ KeptOrStored(y, z, n, reached, y.db.rows)
                        /\ ValuesStay(y, z, n, reached, y.db.rows)
                        /\ InLine(y, z, n)
  BY <1>2, <1>12, MutatedNode
<1>14. \A n \in Nodes, h \in FieldNames : x.db.rows[n][h] # NoValue => db'.rows[n][h] # NoValue
  BY <1>2, <1>5, <1>13 DEF ValuesStay
<1>15. KeepsValues
  <2>1. ASSUME NEW h \in Held(db), tool # "discard"
        PROVE  h \in Held(db') \/ (answer'.tool = "rename-global-field" /\ <<h[1], answer'.name>> \in Held(db'))
    <3>1. PICK n \in Nodes, f \in FieldNames : h = <<n, f>> /\ db.rows[n][f] # NoValue
      BY DEF Held
    <3>2. x.db.rows[n][f] # NoValue \/ (tool = "rename-global-field" /\ x.db.rows[n][name] # NoValue)
      BY <2>1, <3>1 DEF Carried
    <3> QED
      BY <1>5, <1>14, <3>1, <3>2 DEF Held
  <2> QED
    BY <1>5, <2>1 DEF KeepsValues
<1>16. FollowsRows
  <2> SUFFICES ASSUME z.ok, NEW n \in Nodes, vault.notes[n] = db.rows[n], Canonical(z.db, n)
               PROVE  z.vault.notes[n] = z.db.rows[n]
    BY <1>5 DEF FollowsRows
  <2>1. CASE x.db.rows[n] = db.rows[n]
    BY <1>2, <1>13, <2>1 DEF InLine
  <2>2. CASE n \in reached
    <3> DEFINE c == Checked(y, n, y.db.rows, "propagation")
    <3>1. \/ NodeKept(y, z, n) /\ (Refuses(c, "propagation") \/ NoOp(y, n, c.state))
          \/ NodeStored(y, z, n, c.state, "propagation")
      BY <2>2 DEF Mutates
    <3>2. ~Refuses(c, "propagation")
      BY <2>2 DEF Mutates
    <3>3. c = Validate(Context(y.db), Types[n], y.db.rows[n], TRUE)
      BY CheckedAlone
    <3> HIDE DEF c
    <3>4. CASE NodeKept(y, z, n) /\ NoOp(y, n, c.state)
      <4>1. z.vault.notes[n] = c.state /\ z.db.rows[n] = y.db.rows[n]
        BY <3>4 DEF NodeKept, NoOp
      <4>2. Context(z.db) = Context(y.db)
        BY <1>3, SameCatalogSame
      <4> QED
        BY <3>3, <4>1, <4>2 DEF Canonical
    <3>5. CASE NodeStored(y, z, n, c.state, "propagation")
      BY <3>5 DEF NodeStored
    <3> QED
      BY <3>1, <3>2, <3>4, <3>5
  <2> QED
    BY <2>1, <2>2 DEF Rewritten
<1> QED
  BY <1>4, <1>6, <1>11, <1>15, <1>16, CommittedGood DEF FieldTools, Names

LEMMA NothingMutated ==
  ASSUME NEW w \in Worlds, NEW values
  PROVE  Mutates(w, w, {}, values, "propagation")
BY DEF Mutates, SameCatalog, SameFiles, NodeKept

\* What holds now.
LEMMA NowTyped ==
  ASSUME SchemasInv
  PROVE  /\ Here \in Worlds /\ Here.db = db /\ Here.vault = vault /\ Here.snaps = NoSnaps /\ Here.ok = TRUE
         /\ db \in DBs /\ Owned(db) /\ OwnedBy(db.fields, db.claims)
         /\ db.fields \in [FieldNames -> FieldDefs \cup {NoField}]
         /\ db.claims \in [SchemaNames -> ClaimSets \cup {NoSchema}] /\ db.rows \in Rows
         /\ db = [fields |-> db.fields, claims |-> db.claims, rows |-> db.rows,
                  hash |-> db.hash, marks |-> db.marks]
         /\ vault = [notes |-> vault.notes, catalog |-> vault.catalog]
<1>1. db \in SoundDBs /\ vault \in Vaults /\ Here \in Worlds
  BY HereIsWorld DEF SchemasInv
<1>2. Here.db = db /\ Here.vault = vault /\ Here.snaps = NoSnaps /\ Here.ok = TRUE
  BY DEF Here
<1>3. db \in DBs /\ Owned(db)
  BY <1>1 DEF SoundDBs
<1>4. /\ db.fields \in [FieldNames -> FieldDefs \cup {NoField}]
      /\ db.claims \in [SchemaNames -> ClaimSets \cup {NoSchema}] /\ db.rows \in Rows
      /\ db = [fields |-> db.fields, claims |-> db.claims, rows |-> db.rows,
               hash |-> db.hash, marks |-> db.marks]
  BY <1>3 DEF DBs
<1>5. vault = [notes |-> vault.notes, catalog |-> vault.catalog]
  BY <1>1 DEF Vaults
<1>6. OwnedBy(db.fields, db.claims)
  BY <1>3, <1>4, OwnedIs
<1> QED
  BY <1>1, <1>2, <1>3, <1>4, <1>5, <1>6

\* Now with other fields, claims and rows.
Changed(fields, claims, rows) ==
  [db |-> [fields |-> fields, claims |-> claims, rows |-> rows, hash |-> db.hash, marks |-> db.marks],
   vault |-> vault, snaps |-> NoSnaps, ok |-> TRUE]

LEMMA ChangedIs ==
  ASSUME SchemasInv, NEW fields \in [FieldNames -> FieldDefs \cup {NoField}],
         NEW claims \in [SchemaNames -> ClaimSets \cup {NoSchema}],
         NEW rows \in Rows, OwnedBy(fields, claims), NEW x, x = Changed(fields, claims, rows)
  PROVE  /\ x \in Worlds /\ x.db.fields = fields /\ x.db.claims = claims /\ x.db.rows = rows
         /\ x.db.marks = db.marks /\ x.vault = vault /\ x.snaps = NoSnaps
<1>1. x = Recatalogued(Here, fields, claims, rows)
  BY NowTyped DEF Changed, Recatalogued, World
<1>2. Here \in Worlds /\ Here.db = db /\ Here.vault = vault /\ Here.snaps = NoSnaps /\ Here.ok = TRUE
  BY NowTyped
<1>3. /\ x \in Worlds /\ x.db.fields = fields /\ x.db.claims = claims /\ x.db.rows = rows
      /\ x.db.marks = Here.db.marks /\ x.vault = Here.vault /\ x.snaps = Here.snaps /\ x.ok = Here.ok
  BY <1>1, <1>2, RecataloguedDoes
<1> QED
  BY <1>2, <1>3

\* A field has changed, and no row.
LEMMA PlainChangeGood ==
  ASSUME SchemasInv, NEW tool \in FieldTools, tool # "rename-global-field", NEW f \in FieldNames,
         tool = "create-global-field" => db.fields[f] = NoField,
         NEW x \in Worlds, OneField(x.db, f, f), x.db.marks = db.marks, x.vault = vault, x.snaps = NoSnaps,
         x.db.rows = db.rows,
         NEW y, Renders(x, y, {Catalog} \cup Claiming(db, f)), Committed(tool, f, f, y)
  PROVE  GoodStep
<1>1. y \in Worlds /\ y.snaps = NoSnaps
  BY DEF Renders, SameNodes
<1>2. y = Unsnapped(y)
  <2>1. y = [db |-> y.db, vault |-> y.vault, snaps |-> y.snaps, ok |-> y.ok]
    BY <1>1, WorldParts
  <2> QED
    BY <1>1, <2>1 DEF Unsnapped
<1>3. Mutates(y, y, {}, y.db.rows, "propagation")
  BY <1>1, NothingMutated
<1>4. Carried(x.db, tool, f) /\ Rewritten(x.db, y.ok, {})
  BY DEF Carried, Rewritten
<1>5. {} \in SUBSET Nodes
  OBVIOUS
<1> QED
  BY <1>1, <1>2, <1>3, <1>4, <1>5, FieldChangeGood

\* Another definition of a field, with claims and rows as they are.
Redefined(f, def) == [Here EXCEPT !.db.fields[f] = def]

LEMMA RedefinedIs ==
  ASSUME SchemasInv, NEW f \in FieldNames, NEW def \in FieldDefs,
         NEW x, x = Redefined(f, def)
  PROVE  /\ x \in Worlds /\ OneField(x.db, f, f) /\ x.db.fields = [db.fields EXCEPT ![f] = def]
         /\ x.db.claims = db.claims /\ x.db.rows = db.rows
         /\ x.db.marks = db.marks /\ x.vault = vault /\ x.snaps = NoSnaps
<1> DEFINE fields == [db.fields EXCEPT ![f] = def]
<1>1. x = Changed(fields, db.claims, db.rows)
  <2>1. x = [Here EXCEPT !.db = [db EXCEPT !.fields = fields]]
    BY NowTyped DEF Redefined
  <2> HIDE DEF fields
  <2>2. [db EXCEPT !.fields = fields] = [fields |-> fields, claims |-> db.claims, rows |-> db.rows,
                                         hash |-> db.hash, marks |-> db.marks]
    BY NowTyped
  <2> QED
    BY <2>1, <2>2 DEF Changed, Here
<1>2. fields \in [FieldNames -> FieldDefs \cup {NoField}]
  BY NowTyped
<1>3. fields[f] = def /\ \A h \in FieldNames \ {f} : fields[h] = db.fields[h]
  BY NowTyped
<1>4. OwnedBy(fields, db.claims)
  BY NowTyped, MarkersDiffer DEF OwnedBy
<1> HIDE DEF fields
<1>5. /\ x \in Worlds /\ x.db.fields = fields /\ x.db.claims = db.claims /\ x.db.rows = db.rows
      /\ x.db.marks = db.marks /\ x.vault = vault /\ x.snaps = NoSnaps
  <2>1. db.claims \in [SchemaNames -> ClaimSets \cup {NoSchema}] /\ db.rows \in Rows
    BY NowTyped
  <2> QED
    BY <1>1, <1>2, <1>4, <2>1, ChangedIs
<1>6. OneField(x.db, f, f)
  BY <1>3, <1>5 DEF OneField
<1> QED
  BY <1>5, <1>6 DEF fields

LEMMA CreateGlobalFieldGood ==
  ASSUME SchemasInv, NEW f \in FieldNames, NEW def \in FieldInputs, CreateGlobalField(f, def)
  PROVE  GoodStep
<1> DEFINE x == [Here EXCEPT !.db.fields[f] = def]
           y == RenderFiles(x, {Catalog})
<1>1. db.fields[f] = NoField /\ Committed("create-global-field", f, f, y)
  BY DEF CreateGlobalField, RenderFile
<1>2. def \in FieldDefs
  BY SchemaConstants
<1> HIDE DEF x
<1>3. /\ x \in Worlds /\ OneField(x.db, f, f) /\ x.db.rows = db.rows
      /\ x.db.marks = db.marks /\ x.vault = vault /\ x.snaps = NoSnaps
  <2>1. x = Redefined(f, def)
    BY DEF x, Redefined
  <2> QED
    BY <1>2, <2>1, RedefinedIs
<1>4. {Catalog} \in SUBSET CatalogFiles
  BY DEF CatalogFiles
<1>5. Renders(x, y, {Catalog})
  BY <1>3, <1>4, RenderFilesDoes
<1>6. Claiming(db, f) = {}
  BY <1>1, NowTyped, ClaimingIs DEF OwnedBy
<1>7. {Catalog} = {Catalog} \cup Claiming(db, f)
  BY <1>6
<1> HIDE DEF y
<1> QED
  BY <1>1, <1>3, <1>5, <1>7, PlainChangeGood DEF FieldTools

\* A field has another definition: the catalog is rendered, and then some nodes.
LEMMA RerenderedGood ==
  ASSUME SchemasInv, NEW tool \in FieldTools, NEW name \in FieldNames, NEW from \in FieldNames,
         tool # "rename-global-field" => from = name,
         tool \in {"create-global-field", "rename-global-field"} => db.fields[name] = NoField,
         NEW x \in Worlds, OneField(x.db, from, name), x.db.marks = db.marks, x.vault = vault,
         Carried(x.db, tool, name), NEW last,
         NEW nodes \in SUBSET Nodes, \A n \in Nodes \ nodes : x.db.rows[n] = db.rows[n],
         NEW y, y = RenderFiles(x, {Catalog} \cup Claiming(db, from)),
         Committed(tool, name, from, Unsnapped(RerenderNodes(y, nodes, last)))
  PROVE  GoodStep
<1>1. {Catalog} \cup Claiming(db, from) \in SUBSET CatalogFiles
  BY DEF CatalogFiles, Claiming
<1>2. Renders(x, y, {Catalog} \cup Claiming(db, from))
  BY <1>1, RenderFilesDoes
<1>3. y \in Worlds
  BY <1>2 DEF Renders
<1>4. PICK z : z = RerenderNodes(y, nodes, last)
  OBVIOUS
<1>5. PICK reached \in SUBSET nodes :
        Mutates(y, z, reached, y.db.rows, "propagation") /\ (z.ok => reached = nodes)
  BY <1>3, <1>4, RerenderNodesDoes
<1>6. Rewritten(x.db, z.ok, reached) /\ reached \in SUBSET Nodes
  BY <1>5 DEF Rewritten
<1>7. Committed(tool, name, from, Unsnapped(z))
  BY <1>4
<1> QED
  BY <1>2, <1>5, <1>6, <1>7, FieldChangeGood

LEMMA UpdateDefinitionGood ==
  ASSUME SchemasInv, NEW f \in FieldNames, NEW def \in FieldInputs, NEW confirmed \in BOOLEAN,
         UpdateDefinition(f, def, confirmed)
  PROVE  GoodStep
<1> DEFINE x == [Here EXCEPT !.db.fields[f] = def]
           y == RenderFiles(x, {Catalog} \cup Claiming(db, f))
<1>1. Committed("update-global-field", f, f,
                Unsnapped(IF confirmed THEN RerenderNodes(y, Holding(db, f), {}) ELSE y))
  BY DEF UpdateDefinition
<1>2. def \in FieldDefs
  BY SchemaConstants
<1> HIDE DEF x
<1>3. /\ x \in Worlds /\ OneField(x.db, f, f) /\ x.db.rows = db.rows
      /\ x.db.marks = db.marks /\ x.vault = vault /\ x.snaps = NoSnaps
  <2>1. x = Redefined(f, def)
    BY DEF x, Redefined
  <2> QED
    BY <1>2, <2>1, RedefinedIs
<1>4. Carried(x.db, "update-global-field", f)
  BY <1>3 DEF Carried
<1>5. CASE confirmed
  <2>1. Committed("update-global-field", f, f, Unsnapped(RerenderNodes(y, Holding(db, f), {})))
    BY <1>1, <1>5
  <2>2. Holding(db, f) \in SUBSET Nodes /\ \A n \in Nodes \ Holding(db, f) : x.db.rows[n] = db.rows[n]
    BY <1>3 DEF Holding
  <2> HIDE DEF y
  <2>3. y = RenderFiles(x, {Catalog} \cup Claiming(db, f))
    BY DEF y
  <2> QED
    BY <1>3, <1>4, <2>1, <2>2, <2>3, RerenderedGood DEF FieldTools
<1>6. CASE ~confirmed
  <2>1. Committed("update-global-field", f, f, Unsnapped(y))
    BY <1>1, <1>6
  <2>2. {Catalog} \cup Claiming(db, f) \in SUBSET CatalogFiles
    BY DEF CatalogFiles, Claiming
  <2>3. Renders(x, y, {Catalog} \cup Claiming(db, f))
    BY <1>3, <2>2, RenderFilesDoes
  <2> HIDE DEF y
  <2>4. y \in Worlds /\ y.snaps = NoSnaps
    BY <1>3, <2>3 DEF Renders, SameNodes
  <2>5. Unsnapped(y) = y
    BY <2>4, WorldParts DEF Unsnapped
  <2> QED
    BY <1>3, <2>1, <2>3, <2>5, PlainChangeGood DEF FieldTools
<1> QED
  BY <1>5, <1>6

LEMMA ChangeFieldTypeGood ==
  ASSUME SchemasInv, NEW f \in FieldNames, NEW def \in FieldInputs, NEW discard \in BOOLEAN,
         ChangeFieldType(f, def, discard)
  PROVE  GoodStep
<1> DEFINE old == db.fields[f]
           new == [old EXCEPT !.type = def.type, !.item = def.item, !.enums = def.enums]
           holding == Holding(db, f)
           lost == {n \in holding : Coerce(db.rows[n][f], new, new.enums) = NoValue}
           rows == [n \in Nodes |-> IF n \in holding
                      THEN [db.rows[n] EXCEPT ![f] = Coerce(@, new, new.enums)] ELSE db.rows[n]]
           x == [Here EXCEPT !.db.fields[f] = new, !.db.rows = rows]
           y == RenderFiles(x, {Catalog} \cup Claiming(db, f))
           tool == IF lost = {} THEN "update-global-field" ELSE "discard"
<1>1. /\ old # NoField
      /\ IF lost # {} /\ ~discard THEN Rejected("update-global-field", f, Here)
         ELSE Committed(tool, f, f, Unsnapped(RerenderNodes(y, holding, lost)))
  BY Zenon DEF ChangeFieldType
<1>2. def \in FieldDefs /\ old \in FieldDefs
  BY <1>1, SchemaConstants, NowTyped
<1>3. new \in FieldDefs
  BY <1>2 DEF FieldDefs
<1>4. CASE lost # {} /\ ~discard
  BY <1>1, <1>4, RefusedAtOnce
<1>5. CASE ~(lost # {} /\ ~discard)
  <2> HIDE DEF new
  <2>1. holding \in SUBSET Nodes /\ \A n \in holding : db.rows[n][f] # NoValue
    BY DEF Holding
  <2>2. ASSUME NEW n \in Nodes
        PROVE  db.rows[n] \in [FieldNames -> Values] /\ Coerce(db.rows[n][f], new, new.enums) \in Values
    <3>1. db.rows[n] \in [FieldNames -> Values]
      BY NowTyped, NodesTyped DEF NodeValues
    <3>2. new.enums \in Seq(Texts)
      BY <1>3 DEF FieldDefs
    <3>3. Coerce(db.rows[n][f], new, new.enums) \in Values
      BY <1>3, <3>1, <3>2, CoerceFits
    <3> QED
      BY <3>1, <3>3
  <2>3. rows \in Rows
    BY <2>2 DEF Rows
  <2>4. ASSUME NEW n \in Nodes
        PROVE  /\ n \notin holding => rows[n] = db.rows[n]
               /\ n \in holding => rows[n] = [db.rows[n] EXCEPT ![f] = Coerce(db.rows[n][f], new, new.enums)]
    OBVIOUS
  <2>5. ASSUME NEW n \in Nodes, NEW h \in FieldNames
        PROVE  /\ h # f => rows[n][h] = db.rows[n][h]
               /\ h = f /\ n \in holding => rows[n][h] = Coerce(db.rows[n][f], new, new.enums)
    BY <2>2, <2>4
  <2> DEFINE fields == [db.fields EXCEPT ![f] = new]
  <2> HIDE DEF rows
  <2>6. x = Changed(fields, db.claims, rows)
    <3>1. Here = [db |-> db, vault |-> vault, snaps |-> NoSnaps, ok |-> TRUE]
      BY DEF Here
    <3>2. db.fields \in [FieldNames -> FieldDefs \cup {NoField}]
          /\ db = [fields |-> db.fields, claims |-> db.claims, rows |-> db.rows, hash |-> db.hash, marks |-> db.marks]
      BY NowTyped
    <3> HIDE DEF fields
    <3>3. x.db = [fields |-> fields, claims |-> db.claims, rows |-> rows, hash |-> db.hash, marks |-> db.marks]
      BY <3>1, <3>2 DEF fields
    <3>4. x = [db |-> x.db, vault |-> vault, snaps |-> NoSnaps, ok |-> TRUE]
      <4>1. PICK d : d = [db EXCEPT !.fields = fields, !.rows = rows]
        OBVIOUS
      <4>2. x = [Here EXCEPT !.db = d]
        BY <3>1, <3>2, <4>1 DEF fields
      <4> HIDE DEF x
      <4> QED
        BY <3>1, <4>2
    <3> HIDE DEF x
    <3> QED
      BY <3>3, <3>4 DEF Changed
  <2> HIDE DEF x
  <2>7. fields \in [FieldNames -> FieldDefs \cup {NoField}]
        /\ \A h \in FieldNames \ {f} : fields[h] = db.fields[h]
    BY <1>3, NowTyped
  <2>8. OwnedBy(fields, db.claims)
    BY <1>3, NowTyped, MarkersDiffer DEF OwnedBy
  <2> HIDE DEF fields
  <2>9. /\ x \in Worlds /\ x.db.fields = fields /\ x.db.claims = db.claims /\ x.db.rows = rows
        /\ x.db.marks = db.marks /\ x.vault = vault
    <3>1. db.claims \in [SchemaNames -> ClaimSets \cup {NoSchema}]
      BY NowTyped
    <3> QED
      BY <2>3, <2>6, <2>7, <2>8, <3>1, ChangedIs
  <2>10. OneField(x.db, f, f)
    BY <2>5, <2>7, <2>9 DEF OneField
  <2>11. Carried(x.db, tool, f)
    <3> SUFFICES ASSUME lost = {}, NEW n \in Nodes, NEW h \in FieldNames, db.rows[n][h] # NoValue
                 PROVE  x.db.rows[n][h] # NoValue
      BY DEF Carried
    <3>1. CASE h # f
      BY <2>5, <2>9, <3>1
    <3>2. CASE h = f
      <4>1. n \in holding
        BY <3>2 DEF Holding
      <4>2. n \notin lost
        OBVIOUS
      <4> QED
        BY <2>5, <2>9, <3>2, <4>1, <4>2
    <3> QED
      BY <3>1, <3>2
  <2> HIDE DEF lost, y
  <2>12. \A n \in Nodes \ holding : x.db.rows[n] = db.rows[n]
    BY <2>4, <2>9
  <2> HIDE DEF holding
  <2>13. y = RenderFiles(x, {Catalog} \cup Claiming(db, f)) /\ Committed(tool, f, f, Unsnapped(RerenderNodes(y, holding, lost)))
    BY <1>1, <1>5 DEF y
  <2>14. tool \in FieldTools /\ tool \notin {"create-global-field", "rename-global-field"}
    BY DEF FieldTools
  <2> HIDE DEF tool
  <2> QED
    BY <2>1, <2>9, <2>10, <2>11, <2>12, <2>13, <2>14, RerenderedGood
<1> QED
  BY <1>4, <1>5

LEMMA ClaimSetsAre ==
  ASSUME NEW claims \in ClaimSets
  PROVE  /\ claims = [h \in DOMAIN claims |-> claims[h]] /\ DOMAIN claims \in SUBSET FieldNames
         /\ \A h \in DOMAIN claims : claims[h] \in Claim
BY DEF ClaimSets, ClaimsOf

LEMMA ClaimSetsHave ==
  ASSUME NEW S \in SUBSET FieldNames, NEW claims \in [S -> Claim]
  PROVE  claims \in ClaimSets /\ claims # NoSchema
BY MarkersDiffer DEF ClaimSets, ClaimsOf

LEMMA DeleteGlobalFieldGood ==
  ASSUME SchemasInv, NEW f \in FieldNames, DeleteGlobalField(f)
  PROVE  GoodStep
<1> DEFINE claiming == Claiming(db, f)
           fields == [db.fields EXCEPT ![f] = NoField]
           claims == [s \in SchemaNames |-> IF s \in claiming
                        THEN [h \in DOMAIN db.claims[s] \ {f} |-> db.claims[s][h]] ELSE db.claims[s]]
           x == [Here EXCEPT !.db.fields[f] = NoField, !.db.claims = claims]
           y == RenderFiles(x, {Catalog} \cup claiming)
<1>1. Committed("delete-global-field", f, f, y)
  BY DEF DeleteGlobalField
<1>2. ASSUME NEW s \in SchemaNames
      PROVE  s \in claiming <=> db.claims[s] # NoSchema /\ f \in DOMAIN db.claims[s]
  BY NowTyped, ClaimingIs
<1>3. ASSUME NEW s \in claiming
      PROVE  /\ claims[s] \in ClaimSets /\ claims[s] # NoSchema /\ db.claims[s] # NoSchema
             /\ claims[s] = [h \in DOMAIN db.claims[s] \ {f} |-> db.claims[s][h]]
  <2>1. s \in SchemaNames
    BY DEF Claiming
  <2>2. db.claims[s] \in ClaimSets /\ db.claims[s] # NoSchema
    BY <1>2, <2>1, NowTyped
  <2>3. DOMAIN db.claims[s] \in SUBSET FieldNames /\ \A h \in DOMAIN db.claims[s] : db.claims[s][h] \in Claim
    BY <2>2, ClaimSetsAre
  <2>4. claims[s] = [h \in DOMAIN db.claims[s] \ {f} |-> db.claims[s][h]]
    BY <2>1
  <2>5. claims[s] \in [DOMAIN db.claims[s] \ {f} -> Claim]
    BY <2>3, <2>4
  <2>6. DOMAIN db.claims[s] \ {f} \in SUBSET FieldNames
    BY <2>3
  <2> HIDE DEF claims
  <2> QED
    BY <2>2, <2>4, <2>5, <2>6, ClaimSetsHave
<1>4. \A s \in SchemaNames \ claiming : claims[s] = db.claims[s]
  OBVIOUS
<1>5. claims = [s \in SchemaNames |-> claims[s]]
  OBVIOUS
<1> HIDE DEF claims
<1>6. claims \in [SchemaNames -> ClaimSets \cup {NoSchema}]
  BY <1>3, <1>4, <1>5, NowTyped
<1>7. x = Changed(fields, claims, db.rows)
  <2>1. Here = [db |-> db, vault |-> vault, snaps |-> NoSnaps, ok |-> TRUE]
    BY DEF Here
  <2>2. db.fields \in [FieldNames -> FieldDefs \cup {NoField}]
        /\ db = [fields |-> db.fields, claims |-> db.claims, rows |-> db.rows, hash |-> db.hash, marks |-> db.marks]
    BY NowTyped
  <2> HIDE DEF fields
  <2>3. x.db = [fields |-> fields, claims |-> claims, rows |-> db.rows, hash |-> db.hash, marks |-> db.marks]
    BY <2>1, <2>2 DEF fields
  <2>4. x = [db |-> x.db, vault |-> vault, snaps |-> NoSnaps, ok |-> TRUE]
    <3>1. PICK d : d = [db EXCEPT !.fields = fields, !.claims = claims]
      OBVIOUS
    <3>2. x = [Here EXCEPT !.db = d]
      BY <2>1, <2>2, <3>1 DEF fields
    <3> HIDE DEF x
    <3> QED
      BY <2>1, <3>2
  <2> HIDE DEF x
  <2> QED
    BY <2>3, <2>4 DEF Changed
<1> HIDE DEF x
<1>8. fields \in [FieldNames -> FieldDefs \cup {NoField}] /\ \A h \in FieldNames \ {f} : fields[h] = db.fields[h]
  BY NowTyped
<1> HIDE DEF fields
<1>9. OwnedBy(fields, claims)
  <2> SUFFICES ASSUME NEW s \in SchemaNames, claims[s] # NoSchema, NEW h \in DOMAIN claims[s]
               PROVE  fields[h] # NoField
    BY DEF OwnedBy
  <2>1. h \in DOMAIN db.claims[s] /\ h # f /\ db.claims[s] # NoSchema
    <3>1. CASE s \in claiming
      BY <1>3, <3>1
    <3>2. CASE s \notin claiming
      BY <1>2, <1>4, <3>2
    <3> QED
      BY <3>1, <3>2
  <2>2. h \in FieldNames /\ db.fields[h] # NoField
    <3>1. db.claims[s] \in ClaimSets
      BY <2>1, NowTyped
    <3> QED
      BY <2>1, <3>1, ClaimSetsAre, NowTyped DEF OwnedBy
  <2> QED
    BY <1>8, <2>1, <2>2
<1>10. /\ x \in Worlds /\ x.db.fields = fields /\ x.db.claims = claims /\ x.db.rows = db.rows
       /\ x.db.marks = db.marks /\ x.vault = vault /\ x.snaps = NoSnaps
  <2>1. db.rows \in Rows
    BY NowTyped
  <2> QED
    BY <1>6, <1>7, <1>8, <1>9, <2>1, ChangedIs
<1>11. OneField(x.db, f, f)
  <2>1. \A s \in claiming, h \in FieldNames \ {f} :
          /\ (h \in DOMAIN claims[s]) <=> (h \in DOMAIN db.claims[s])
          /\ h \in DOMAIN db.claims[s] => claims[s][h] = db.claims[s][h]
    BY <1>3
  <2>2. \A s \in SchemaNames : (claims[s] = NoSchema) <=> (db.claims[s] = NoSchema)
    BY <1>3, <1>4
  <2> QED
    BY <1>4, <1>8, <1>10, <2>1, <2>2 DEF OneField
<1>12. {Catalog} \cup claiming \in SUBSET CatalogFiles
  BY DEF CatalogFiles, Claiming
<1>13. Renders(x, y, {Catalog} \cup Claiming(db, f))
  BY <1>10, <1>12, RenderFilesDoes
<1> HIDE DEF y
<1> QED
  BY <1>1, <1>10, <1>11, <1>13, PlainChangeGood DEF FieldTools

LEMMA RenameGlobalFieldGood ==
  ASSUME SchemasInv, NEW f \in FieldNames, NEW g \in FieldNames, RenameGlobalField(f, g)
  PROVE  GoodStep
<1> DEFINE claiming == Claiming(db, f)
           holding == Holding(db, f)
           Moved(fn) == [h \in (DOMAIN fn \ {f}) \cup {g} |-> fn[IF h = g THEN f ELSE h]]
           fields == [db.fields EXCEPT ![g] = db.fields[f], ![f] = NoField]
           claims == [s \in SchemaNames |-> IF s \in claiming THEN Moved(db.claims[s]) ELSE db.claims[s]]
           rows == [n \in Nodes |-> IF n \in holding
                      THEN [db.rows[n] EXCEPT ![g] = db.rows[n][f], ![f] = NoValue] ELSE db.rows[n]]
           x == [Here EXCEPT !.db.fields = fields, !.db.claims = claims, !.db.rows = rows]
           y == RenderFiles(x, {Catalog} \cup claiming)
<1>1. /\ f # g /\ db.fields[f] # NoField
      /\ IF db.fields[g] # NoField \/ holding \cap Holding(db, g) # {}
           THEN Rejected("rename-global-field", g, Here)
           ELSE Committed("rename-global-field", g, f, Unsnapped(RerenderNodes(y, Holding(x.db, g), {})))
  BY Zenon DEF RenameGlobalField
<1>2. CASE db.fields[g] # NoField \/ holding \cap Holding(db, g) # {}
  BY <1>1, <1>2, RefusedAtOnce
<1>3. CASE ~(db.fields[g] # NoField \/ holding \cap Holding(db, g) # {})
  <2>1. ASSUME NEW s \in SchemaNames
        PROVE  s \in claiming <=> db.claims[s] # NoSchema /\ f \in DOMAIN db.claims[s]
    BY NowTyped, ClaimingIs
  <2>2. ASSUME NEW s \in claiming
        PROVE  /\ claims[s] \in ClaimSets /\ claims[s] # NoSchema /\ db.claims[s] # NoSchema
               /\ DOMAIN claims[s] = (DOMAIN db.claims[s] \ {f}) \cup {g}
               /\ \A h \in DOMAIN db.claims[s] \ {f, g} : claims[s][h] = db.claims[s][h]
    <3>1. s \in SchemaNames
      BY DEF Claiming
    <3>2. db.claims[s] \in ClaimSets /\ db.claims[s] # NoSchema /\ f \in DOMAIN db.claims[s]
      BY <2>1, <3>1, NowTyped
    <3>3. DOMAIN db.claims[s] \in SUBSET FieldNames /\ \A h \in DOMAIN db.claims[s] : db.claims[s][h] \in Claim
      BY <3>2, ClaimSetsAre
    <3>4. claims[s] = [h \in (DOMAIN db.claims[s] \ {f}) \cup {g} |-> db.claims[s][IF h = g THEN f ELSE h]]
      BY <3>1
    <3> HIDE DEF claims
    <3>5. claims[s] \in [(DOMAIN db.claims[s] \ {f}) \cup {g} -> Claim]
      BY <3>2, <3>3, <3>4
    <3>6. (DOMAIN db.claims[s] \ {f}) \cup {g} \in SUBSET FieldNames
      BY <3>3
    <3>7. claims[s] \in ClaimSets /\ claims[s] # NoSchema
      BY <3>5, <3>6, ClaimSetsHave
    <3> QED
      BY <3>2, <3>4, <3>7
  <2>3. \A s \in SchemaNames \ claiming : claims[s] = db.claims[s]
    OBVIOUS
  <2>4. claims = [s \in SchemaNames |-> claims[s]]
    OBVIOUS
  <2> HIDE DEF claims
  <2>5. claims \in [SchemaNames -> ClaimSets \cup {NoSchema}]
    BY <2>2, <2>3, <2>4, NowTyped
  <2>6. /\ fields \in [FieldNames -> FieldDefs \cup {NoField}]
        /\ fields[g] = db.fields[f] /\ \A h \in FieldNames \ {f, g} : fields[h] = db.fields[h]
    BY <1>1, NowTyped
  <2> HIDE DEF fields
  <2>7. ASSUME NEW n \in Nodes
        PROVE  /\ rows[n] \in [FieldNames -> Values]
               /\ n \notin holding => rows[n] = db.rows[n]
               /\ n \in holding => rows[n][g] = db.rows[n][f]
               /\ \A h \in FieldNames \ {f, g} : rows[n][h] = db.rows[n][h]
    <3>1. db.rows[n] \in [FieldNames -> Values] /\ NoValue \in Values
      BY NowTyped, NodesTyped DEF NodeValues, NoValue, Values
    <3>2. n \in holding => rows[n] = [db.rows[n] EXCEPT ![g] = db.rows[n][f], ![f] = NoValue]
      OBVIOUS
    <3>3. n \notin holding => rows[n] = db.rows[n]
      OBVIOUS
    <3> HIDE DEF rows
    <3> QED
      BY <1>1, <3>1, <3>2, <3>3
  <2>8. rows \in Rows
    <3>1. rows = [n \in Nodes |-> rows[n]]
      OBVIOUS
    <3> HIDE DEF rows
    <3> QED
      BY <2>7, <3>1 DEF Rows
  <2> HIDE DEF rows
  <2>9. OwnedBy(fields, claims)
    <3> SUFFICES ASSUME NEW s \in SchemaNames, claims[s] # NoSchema, NEW h \in DOMAIN claims[s]
                 PROVE  fields[h] # NoField
      BY DEF OwnedBy
    <3>1. CASE h = g /\ s \in claiming
      BY <1>1, <2>6, <3>1
    <3>2. ASSUME h # g \/ s \notin claiming
          PROVE  h \in DOMAIN db.claims[s] /\ h # f /\ db.claims[s] # NoSchema
      <4>1. CASE s \in claiming
        BY <1>1, <2>2, <3>2, <4>1
      <4>2. CASE s \notin claiming
        BY <2>1, <2>3, <4>2
      <4> QED
        BY <4>1, <4>2
    <3>3. ASSUME h \in DOMAIN db.claims[s], h # f, db.claims[s] # NoSchema
          PROVE  fields[h] # NoField
      <4>1. db.claims[s] \in ClaimSets
        BY <3>3, NowTyped
      <4>2. h \in FieldNames /\ db.fields[h] # NoField
        BY <3>3, <4>1, ClaimSetsAre, NowTyped DEF OwnedBy
      <4> QED
        BY <1>3, <2>6, <3>3, <4>2
    <3> QED
      BY <3>1, <3>2, <3>3
  <2>10. x = Changed(fields, claims, rows)
    <3>1. Here = [db |-> db, vault |-> vault, snaps |-> NoSnaps, ok |-> TRUE]
      BY DEF Here
    <3>2. db = [fields |-> db.fields, claims |-> db.claims, rows |-> db.rows, hash |-> db.hash, marks |-> db.marks]
      BY NowTyped
    <3>3. x.db = [fields |-> fields, claims |-> claims, rows |-> rows, hash |-> db.hash, marks |-> db.marks]
      BY <3>1, <3>2
    <3>4. x = [db |-> x.db, vault |-> vault, snaps |-> NoSnaps, ok |-> TRUE]
      <4>1. PICK d : d = [db EXCEPT !.fields = fields, !.claims = claims, !.rows = rows]
        OBVIOUS
      <4>2. x = [Here EXCEPT !.db = d]
        BY <3>1, <3>2, <4>1
      <4> HIDE DEF x
      <4> QED
        BY <3>1, <4>2
    <3> HIDE DEF x
    <3> QED
      BY <3>3, <3>4 DEF Changed
  <2> HIDE DEF x
  <2>11. /\ x \in Worlds /\ x.db.fields = fields /\ x.db.claims = claims /\ x.db.rows = rows
         /\ x.db.marks = db.marks /\ x.vault = vault
    BY <2>5, <2>6, <2>8, <2>9, <2>10, ChangedIs
  <2>12. OneField(x.db, f, g)
    <3>1. \A s \in claiming, h \in FieldNames \ {f, g} :
            /\ (h \in DOMAIN claims[s]) <=> (h \in DOMAIN db.claims[s])
            /\ h \in DOMAIN db.claims[s] => claims[s][h] = db.claims[s][h]
      BY <2>2
    <3>2. \A s \in SchemaNames : (claims[s] = NoSchema) <=> (db.claims[s] = NoSchema)
      BY <2>2, <2>3
    <3> QED
      BY <2>3, <2>6, <2>7, <2>11, <3>1, <3>2 DEF OneField
  <2>13. Carried(x.db, "rename-global-field", g)
    <3> SUFFICES ASSUME NEW n \in Nodes, NEW h \in FieldNames, db.rows[n][h] # NoValue
                 PROVE  rows[n][h] # NoValue \/ rows[n][g] # NoValue
      BY <2>11 DEF Carried
    <3>1. CASE n \notin holding
      BY <2>7, <3>1
    <3>2. CASE n \in holding /\ h \notin {f, g}
      BY <2>7, <3>2
    <3>3. CASE n \in holding
      <4>1. db.rows[n][f] # NoValue
        BY <3>3 DEF Holding
      <4> QED
        BY <2>7, <3>3, <4>1
    <3> QED
      BY <3>1, <3>2, <3>3
  <2>14. Holding(x.db, g) \in SUBSET Nodes /\ \A n \in Nodes \ Holding(x.db, g) : x.db.rows[n] = db.rows[n]
    <3> SUFFICES ASSUME NEW n \in Nodes, n \in holding
                 PROVE  n \in Holding(x.db, g)
      BY <2>7, <2>11 DEF Holding
    <3>1. db.rows[n][f] # NoValue
      BY DEF Holding
    <3> QED
      BY <2>7, <2>11, <3>1 DEF Holding
  <2> HIDE DEF y
  <2>15. y = RenderFiles(x, {Catalog} \cup Claiming(db, f))
         /\ Committed("rename-global-field", g, f, Unsnapped(RerenderNodes(y, Holding(x.db, g), {})))
    BY <1>1, <1>3 DEF y
  <2> QED
    BY <1>1, <1>3, <2>11, <2>12, <2>13, <2>14, <2>15, RerenderedGood DEF FieldTools
<1> QED
  BY <1>2, <1>3

-----------------------------------------------------------------------------
(* A tool that changes a node *)

LEMMA SnapsTell ==
  ASSUME NEW w \in Worlds, w.snaps = NoSnaps, NEW nodes, NEW values, NEW source,
         NEW v, Mutates(w, v, nodes, values, source), NEW n \in Nodes
  PROVE  IF v.snaps[n] = Nothing THEN v.db.rows[n] = w.db.rows[n]
         ELSE v.snaps[n].was = w.db.rows[n] /\ v.snaps[n].post = v.db.rows[n]
<1> DEFINE state == Checked(w, n, values, source).state
<1>1. NodeKept(w, v, n) \/ NodeStored(w, v, n, state, source)
  BY DEF Mutates
<1> HIDE DEF state
<1>2. CASE NodeKept(w, v, n)
  BY <1>2 DEF NodeKept, NoSnaps
<1>3. CASE NodeStored(w, v, n, state, source)
  <2>1. v.snaps[n] = [was |-> w.db.rows[n], post |-> state] /\ v.db.rows[n] = state
    BY <1>3 DEF NodeStored
  <2>2. w.db.rows[n] \in NodeValues /\ v.db.rows[n] \in NodeValues
    <3>1. v \in Worlds
      BY DEF Mutates
    <3> QED
      BY <3>1, WorldParts, NodesTyped
  <2>3. v.snaps[n] \in [was : NodeValues, post : NodeValues]
    BY <2>1, <2>2
  <2> QED
    BY <2>1, <2>3, MarkersDiffer
<1> QED
  BY <1>1, <1>2, <1>3

LEMMA SetFieldGood ==
  ASSUME SchemasInv, NEW n \in Nodes, NEW f \in FieldNames, NEW value \in ValueInputs \cup {NoValue},
         SetField(n, f, value)
  PROVE  GoodStep
<1> DEFINE values == [db.rows EXCEPT ![n][f] = value]
           w == Mutate(Here, {n}, values, "tool")
<1>1. Rejected("update-node", n, Here) \/ Committed("update-node", n, n, w)
  BY Zenon DEF SetField
<1>2. CASE Rejected("update-node", n, Here)
  BY <1>2, RefusedAtOnce
<1>3. CASE Committed("update-node", n, n, w)
  <2>1. value \in Values
    <3>1. NoValue \in Values
      BY DEF NoValue, Values
    <3> QED
      BY <3>1, SchemaConstants
  <2>2. values[n] \in NodeValues
    BY <2>1, NowTyped DEF Rows, NodeValues
  <2> HIDE DEF values
  <2>3. \A m \in {n} : values[m] \in NodeValues
    BY <2>2
  <2>4. {n} \in SUBSET Nodes
    OBVIOUS
  <2>5. Mutates(Here, w, {n}, values, "tool")
    BY <2>3, <2>4, NowTyped, MutateDoes
  <2> HIDE DEF w
  <2>6. w \in Worlds /\ SameCatalog(w.db, db) /\ w.db.marks = db.marks /\ w.vault.catalog = vault.catalog
    BY <2>5, NowTyped DEF Mutates, SameFiles
  <2>7. Recorded(Operation("update-node", n, n, w))
    <3> DEFINE op == Operation("update-node", n, n, w)
    <3>1. op.tool = "update-node" /\ op.name = n /\ op.was = db /\ op.left = w.db /\ op.snaps = w.snaps
      BY DEF Operation
    <3>2. \A m \in Nodes : IF w.snaps[m] = Nothing THEN w.db.rows[m] = db.rows[m]
            ELSE w.snaps[m].was = db.rows[m] /\ w.snaps[m].post = w.db.rows[m]
      BY <2>5, NowTyped, SnapsTell
    <3> HIDE DEF op
    <3>3. Snapped(op)
      BY <3>1, <3>2 DEF Snapped
    <3>4. NodeRecord(op)
      BY <2>6, <3>1, <3>3 DEF NodeRecord
    <3> QED
      BY <3>4 DEF Recorded, op
  <2>8. db' = w.db /\ vault' = w.vault /\ answer'.tool = "update-node"
    BY <1>3 DEF Committed, Reply
  <2>9. w.db \in SoundDBs /\ w.vault \in Vaults
    BY <2>6 DEF Worlds
  <2>10. /\ Marked(w.db, w.vault) /\ (Clean(db, vault) => Clean(w.db, w.vault))
         /\ EditedKept(w.vault) /\ Followed(w.db, w.vault)
    BY <2>6, <2>9, NothingRendered
  <2>11. KeepsValues
    BY <2>8 DEF KeepsValues
  <2>12. FollowsRows
    <3>1. ASSUME NEW m \in Nodes, vault.notes[m] = db.rows[m]
          PROVE  w.vault.notes[m] = w.db.rows[m]
      <4> DEFINE state == Checked(Here, m, values, "tool").state
      <4>1. NodeKept(Here, w, m) \/ NodeStored(Here, w, m, state, "tool")
        BY <2>5 DEF Mutates
      <4> HIDE DEF state
      <4> QED
        BY <3>1, <4>1, NowTyped DEF NodeKept, NodeStored
    <3> QED
      BY <2>8, <3>1 DEF FollowsRows
  <2> QED
    BY <1>3, <2>6, <2>7, <2>10, <2>11, <2>12, CommittedGood DEF Names
<1> QED
  BY <1>1, <1>2, <1>3

-----------------------------------------------------------------------------
(* Users, the watcher and the start *)

LEMMA EditCatalogGood ==
  ASSUME SchemasInv, NEW file \in CatalogFiles, NEW content \in {Edited, NoFile, db.marks[file]},
         EditCatalog(file, content)
  PROVE  GoodStep
<1>1. /\ vault.catalog[file] # content /\ content # NoHash
      /\ edits' = edits + (IF content = db.marks[file] THEN 0 ELSE 1)
      /\ vault' = [vault EXCEPT !.catalog[file] = content]
      /\ answer' = [tool |-> "edit", ok |-> TRUE] /\ log' = log /\ db' = db
  BY DEF EditCatalog, Quiet
<1>2. db \in SoundDBs /\ vault \in Vaults /\ edits \in Nat /\ Marked(db, vault)
      /\ log \in Seq(Ops) /\ \A i \in DOMAIN log : Recorded(log[i])
  BY DEF SchemasInv
<1>3. db.marks[file] \in Renderings \cup {NoHash}
  BY <1>2 DEF SoundDBs, DBs
<1>4. vault' \in Vaults /\ vault'.notes = vault.notes /\ vault'.catalog = [vault.catalog EXCEPT ![file] = content]
  <2>1. vault = [notes |-> vault.notes, catalog |-> vault.catalog] /\ vault.notes \in Rows
        /\ vault.catalog \in [CatalogFiles -> Renderings \cup {NoFile, Edited}]
    BY <1>2 DEF Vaults
  <2>2. vault' = [notes |-> vault.notes, catalog |-> [vault.catalog EXCEPT ![file] = content]]
    BY <1>1, <2>1
  <2>3. content \in Renderings \cup {NoFile, Edited}
    BY <1>1, <1>3
  <2> QED
    BY <2>1, <2>2, <2>3 DEF Vaults
<1>5. vault.catalog \in [CatalogFiles -> Renderings \cup {NoFile, Edited}]
  BY <1>2 DEF Vaults
<1>6. Marked(db, vault')
  BY <1>2, <1>4, <1>5 DEF Marked
<1>7. edits' \in Nat /\ (edits' = 0 => edits = 0 /\ content = db.marks[file])
  BY <1>1, <1>2
<1>8. edits' = 0 => Clean(db, vault')
  <2> SUFFICES ASSUME edits' = 0
               PROVE  Clean(db, vault')
    OBVIOUS
  <2>1. Clean(db, vault) /\ content = db.marks[file] /\ content # NoHash
    BY <1>1, <1>7 DEF SchemasInv
  <2>2. ASSUME NEW s \in SchemaNames
        PROVE  IF db.claims[s] = NoSchema THEN db.marks[s] = NoHash /\ vault'.catalog[s] = NoFile
               ELSE db.marks[s] = vault'.catalog[s] /\ db.marks[s] # NoHash
    <3>1. IF db.claims[s] = NoSchema THEN db.marks[s] = NoHash /\ vault.catalog[s] = NoFile
          ELSE db.marks[s] = vault.catalog[s] /\ db.marks[s] # NoHash
      BY <2>1 DEF Clean
    <3>2. s \in CatalogFiles
      BY DEF CatalogFiles
    <3> QED
      BY <1>4, <1>5, <2>1, <3>1, <3>2
  <2> QED
    BY <2>2 DEF Clean
<1>9. SchemasInv'
  BY <1>1, <1>2, <1>4, <1>6, <1>7, <1>8 DEF SchemasInv, Marked, Clean, Recorded
<1>10. KeepsValues /\ FollowsRows
  BY <1>1, <1>4, NodesStay
<1> QED
  BY <1>1, <1>9, <1>10 DEF GoodStep, Rejects, AcceptsFitting, KeepsEdited, FollowsCatalog, RestoresOperation

\* What is neither a call nor an edit.
LEMMA QuietGood ==
  ASSUME SchemasInv, Quiet("none"), edits' = edits, db' \in SoundDBs, vault' \in Vaults,
         Marked(db', vault'), Clean(db, vault) => Clean(db', vault'),
         EditedKept(vault'), Followed(db', vault'), KeepsValues
  PROVE  GoodStep
<1>1. answer' = [tool |-> "none", ok |-> TRUE] /\ log' = log
  BY DEF Quiet
<1>2. SchemasInv'
  BY <1>1, InvAfter DEF SchemasInv
<1> QED
  BY <1>1, <1>2 DEF GoodStep, Rejects, AcceptsFitting, FollowsRows, KeepsEdited, FollowsCatalog,
     RestoresOperation, EditedKept, Followed

LEMMA StartupGood ==
  ASSUME SchemasInv, Startup
  PROVE  GoodStep
<1> DEFINE files == {s \in SchemaNames : db.marks[s] = NoHash \/ vault.catalog[s] = NoFile}
           w == RenderFiles(Here, files \cup {Catalog})
<1>1. db' = w.db /\ vault' = w.vault /\ Quiet("none") /\ edits' = edits
  BY DEF Startup
<1>2. files \cup {Catalog} \in SUBSET CatalogFiles
  BY DEF CatalogFiles
<1> HIDE DEF files
<1>3. Renders(Here, w, files \cup {Catalog})
  BY <1>2, NowTyped, RenderFilesDoes
<1> HIDE DEF w
<1>4. w \in Worlds /\ SameCatalog(w.db, db) /\ w.db.rows = db.rows /\ w.vault.notes = vault.notes
  BY <1>3, NowTyped DEF Renders, SameNodes
<1>5. w.db \in SoundDBs /\ w.vault \in Vaults /\ db \in SoundDBs
  BY <1>4 DEF Worlds, SchemasInv
<1>6. RenderStep(w.db, w.vault, files \cup {Catalog})
  <2>1. SameCatalog(w.db, w.db) /\ SameFiles(w, w)
    BY DEF SameCatalog, SameFiles
  <2> QED
    BY <1>3, <2>1, NowTyped, RendersIsStep
<1>7. SameExisting(w.db, files \cup {Catalog}) /\ OthersKept(w.db, files \cup {Catalog})
  BY <1>4, SameCatalogSame DEF SameExisting, OthersKept, Wanted, SameCatalog
<1>8. /\ Marked(w.db, w.vault) /\ (Clean(db, vault) => Clean(w.db, w.vault))
      /\ EditedKept(w.vault) /\ Followed(w.db, w.vault)
  BY <1>5, <1>6, <1>7, RenderStepIsGood
<1>9. KeepsValues
  BY <1>1, <1>4, NodesStay
<1> QED
  BY <1>1, <1>5, <1>8, <1>9, QuietGood

LEMMA ProcessFileChangeGood ==
  ASSUME SchemasInv, NEW n \in Nodes, ProcessFileChange(n)
  PROVE  GoodStep
<1>1. PICK v : v = Validate(Context(db), Types[n], vault.notes[n], FALSE)
  OBVIOUS
<1> DEFINE row == [f \in FieldNames |-> IF f \in v.invalid \cup v.missing THEN db.rows[n][f] ELSE v.state[f]]
<1>2. /\ db' = [db EXCEPT !.hash[n] = vault.notes[n],
                  !.rows[n] = [f \in FieldNames |->
                     IF f \in v.invalid \cup v.missing THEN @[f] ELSE v.state[f]]]
      /\ Quiet("none") /\ vault' = vault /\ edits' = edits
  BY <1>1, Zenon DEF ProcessFileChange
<1>3. db \in SoundDBs /\ vault \in Vaults /\ db.rows \in Rows /\ db.hash \in Rows /\ vault.notes \in Rows
      /\ db = [fields |-> db.fields, claims |-> db.claims, rows |-> db.rows, hash |-> db.hash, marks |-> db.marks]
  BY DEF SchemasInv, SoundDBs, DBs, Vaults
<1>4. TypedContext(Context(db)) /\ Types[n] \in Seq(SchemaNames) /\ vault.notes[n] \in [FieldNames -> Values]
      /\ db.rows[n] \in [FieldNames -> Values]
  BY <1>3, ContextTyped, NodesTyped DEF NodeValues
<1>5. v.state \in [FieldNames -> Values] /\ FieldByField(v, Context(db), Types[n], vault.notes[n])
  BY <1>1, <1>4, ValidateDoes
<1>6. row \in [FieldNames -> Values]
  BY <1>4, <1>5
<1>7. db' = [fields |-> db.fields, claims |-> db.claims, rows |-> [db.rows EXCEPT ![n] = row],
             hash |-> [db.hash EXCEPT ![n] = vault.notes[n]], marks |-> db.marks]
  BY <1>2, <1>3
<1>8. \A f \in FieldNames : row[f] = db.rows[n][f] \/ (f \notin v.invalid /\ row[f] = v.state[f])
  OBVIOUS
<1> HIDE DEF row
<1>9. db'.rows = [db.rows EXCEPT ![n] = row] /\ db'.rows \in Rows /\ db'.hash \in Rows /\ db'.marks = db.marks
  BY <1>3, <1>4, <1>6, <1>7 DEF Rows
<1>10. SameCatalog(db', db)
  BY <1>7 DEF SameCatalog
<1>11. db' \in SoundDBs
  <2>1. Owned(db')
    BY <1>3, <1>10, SameCatalogSame DEF SoundDBs
  <2>2. db' \in DBs
    BY <1>3, <1>7, <1>9 DEF SoundDBs, DBs
  <2> QED
    BY <2>1, <2>2 DEF SoundDBs
<1>12. /\ Marked(db', vault') /\ (Clean(db, vault) => Clean(db', vault'))
       /\ EditedKept(vault') /\ Followed(db', vault')
  BY <1>2, <1>3, <1>9, <1>10, <1>11, NothingRendered
<1>13. KeepsValues
  <2>1. answer'.tool = "none"
    BY <1>2 DEF Quiet
  <2>2. ASSUME NEW h \in Held(db), vault.notes[h[1]][h[2]] # NoValue
        PROVE  h \in Held(db')
    <3>1. PICK m \in Nodes, f \in FieldNames : h = <<m, f>> /\ db.rows[m][f] # NoValue
      BY DEF Held
    <3>2. CASE m # n
      BY <1>3, <1>9, <3>1, <3>2 DEF Held, Rows
    <3>3. CASE m = n
      <4>1. db'.rows[n] = row
        BY <1>3, <1>9 DEF Rows
      <4>2. row[f] # NoValue
        BY <1>5, <1>8, <2>2, <3>1, <3>3 DEF FieldByField
      <4> QED
        BY <3>1, <3>3, <4>1, <4>2 DEF Held
    <3> QED
      BY <3>2, <3>3
  <2> QED
    BY <2>1, <2>2 DEF KeepsValues
<1> QED
  BY <1>2, <1>3, <1>11, <1>12, <1>13, QuietGood

-----------------------------------------------------------------------------
(* Undo *)

\* The catalog of a world in which an operation on a schema is taken back.
SchemaBack(op, v) ==
  /\ v \in Worlds /\ v.db.fields = db.fields /\ v.db.claims = [db.claims EXCEPT ![op.name] = op.was.claims[op.name]]
  /\ v.db.rows = db.rows /\ v.db.hash = db.hash /\ v.vault = vault /\ v.snaps = NoSnaps /\ v.ok = TRUE
  /\ v.db.marks = IF op.tool = "create-schema" THEN [db.marks EXCEPT ![op.name] = NoHash] ELSE db.marks

LEMMA SchemaComesBack ==
  ASSUME SchemasInv, NEW op \in Ops, SchemaRecord(op), NEW v, v = RestoreSchema(Here, op), v.ok
  PROVE  SchemaBack(op, v)
<1> DEFINE s == op.name
           claims == op.was.claims[s]
           all == [db.claims EXCEPT ![s] = claims]
           marks == IF op.tool = "create-schema" THEN [db.marks EXCEPT ![s] = NoHash] ELSE db.marks
<1>1. /\ s \in SchemaNames /\ s \in CatalogFiles
      /\ op.tool = "create-schema" <=> claims = NoSchema
      /\ claims \in ClaimSets \cup {NoSchema}
  BY DEF SchemaRecord, CatalogFiles, Ops, SoundDBs, DBs
<1>2. /\ Here = [db |-> db, vault |-> vault, snaps |-> NoSnaps, ok |-> TRUE]
      /\ db = [fields |-> db.fields, claims |-> db.claims, rows |-> db.rows, hash |-> db.hash, marks |-> db.marks]
      /\ vault = [notes |-> vault.notes, catalog |-> vault.catalog]
  BY NowTyped DEF Here
<1>3. /\ db.fields \in [FieldNames -> FieldDefs \cup {NoField}]
      /\ db.claims \in [SchemaNames -> ClaimSets \cup {NoSchema}]
      /\ db.rows \in Rows /\ db.hash \in Rows /\ vault.notes \in Rows
      /\ db.marks \in [CatalogFiles -> Renderings \cup {NoHash}]
      /\ vault.catalog \in [CatalogFiles -> Renderings \cup {NoFile, Edited}] /\ NoSnaps \in Snaps
  BY HereIsWorld DEF SchemasInv, SoundDBs, DBs, Vaults
<1>4. all \in [SchemaNames -> ClaimSets \cup {NoSchema}] /\ marks \in [CatalogFiles -> Renderings \cup {NoHash}]
  BY <1>1, <1>3
<1>5. v = World(db.fields, all, db.rows, db.hash, marks, vault.notes, vault.catalog, NoSnaps, TRUE)
  <2>1. CASE op.tool = "create-schema"
    <3>1. v = [Here EXCEPT !.db.claims[s] = NoSchema, !.db.marks[s] = NoHash]
      BY <2>1, Zenon DEF RestoreSchema
    <3>2. PICK d : d = [db EXCEPT !.claims = [db.claims EXCEPT ![s] = NoSchema], !.marks = [db.marks EXCEPT ![s] = NoHash]]
      OBVIOUS
    <3>3. d = [fields |-> db.fields, claims |-> [db.claims EXCEPT ![s] = NoSchema], rows |-> db.rows,
               hash |-> db.hash, marks |-> [db.marks EXCEPT ![s] = NoHash]]
      BY <1>2, <3>2
    <3>4. v = [Here EXCEPT !.db = d]
      BY <1>2, <3>1, <3>2
    <3>5. v = [db |-> d, vault |-> vault, snaps |-> NoSnaps, ok |-> TRUE]
      BY <1>2, <3>4
    <3> QED
      BY <1>1, <1>2, <2>1, <3>3, <3>5 DEF World
  <2>2. CASE op.tool # "create-schema"
    <3>1. v = Refused(Here) \/ v = [Here EXCEPT !.db.claims[s] = claims]
      BY <2>2, Zenon DEF RestoreSchema
    <3>2. v # Refused(Here)
      BY <1>2 DEF Refused
    <3>3. v = [Here EXCEPT !.db = [db EXCEPT !.claims = all]]
      BY <1>2, <3>1, <3>2
    <3> HIDE DEF all
    <3> QED
      BY <1>2, <2>2, <3>3 DEF World
  <2> QED
    BY <2>1, <2>2
<1>6. OwnedBy(db.fields, all)
  <2>1. CASE op.tool = "create-schema"
    BY <1>1, <1>3, <2>1, NowTyped DEF OwnedBy
  <2>2. CASE op.tool # "create-schema"
    <3>1. \/ v = Refused(Here)
          \/ \A f \in DOMAIN claims : Here.db.fields[f] # NoField
      BY <2>2, Zenon DEF RestoreSchema
    <3>2. v # Refused(Here)
      BY <1>2 DEF Refused
    <3> QED
      BY <1>1, <1>2, <1>3, <3>1, <3>2, NowTyped DEF OwnedBy
  <2> QED
    BY <2>1, <2>2
<1> HIDE DEF all, marks
<1>7. v.db.fields = db.fields /\ v.db.claims = all
  BY <1>5 DEF World
<1>8. Owned(v.db)
  BY <1>3, <1>4, <1>6, <1>7, OwnedIs
<1>9. /\ v \in Worlds /\ v.db.rows = db.rows /\ v.db.hash = db.hash /\ v.db.marks = marks
      /\ v.snaps = NoSnaps
  <2>1. PICK ok \in BOOLEAN : ok = TRUE
    OBVIOUS
  <2>2. v = World(db.fields, all, db.rows, db.hash, marks, vault.notes, vault.catalog, NoSnaps, ok)
    BY <1>5, <2>1, Zenon
  <2> QED
    BY <1>3, <1>4, <1>8, <2>2, WorldOf
<1>10. v.vault = vault /\ v.ok = TRUE
  BY <1>2, <1>5 DEF World
<1> QED
  BY <1>7, <1>9, <1>10 DEF SchemaBack, all, marks

\* The claims of a schema, the fields and the rows when an operation on a field is taken back.
ClaimsBack(op, d, s) ==
  LET back == IF op.tool # "create-global-field" /\ s \in Claiming(op.was, op.from) THEN {op.from} ELSE {}
  IN /\ DOMAIN d.claims[s] = (DOMAIN db.claims[s] \ {op.name, op.from}) \cup back
     /\ \A h \in DOMAIN db.claims[s] \ {op.name, op.from} : d.claims[s][h] = db.claims[s][h]
     /\ \A h \in back : d.claims[s][h] = op.was.claims[s][h]

FieldsBack(op, d) ==
  /\ \A h \in FieldNames \ {op.name, op.from} : d.fields[h] = db.fields[h] /\ \A n \in Nodes : d.rows[n][h] = db.rows[n][h]
  /\ op.tool # "create-global-field" => /\ d.fields[op.from] = op.was.fields[op.from]
                                        /\ \A n \in Nodes : d.rows[n][op.from] = op.was.rows[n][op.from]
  /\ op.tool = "create-global-field" \/ op.name # op.from => /\ d.fields[op.name] = NoField
                                                             /\ \A n \in Nodes : d.rows[n][op.name] = NoValue
  /\ \A s \in SchemaNames : (d.claims[s] = NoSchema) <=> (db.claims[s] = NoSchema)
  /\ \A s \in SchemaNames : db.claims[s] # NoSchema => ClaimsBack(op, d, s)

FieldBack(op, v) ==
  /\ v \in Worlds /\ v.db.hash = db.hash /\ v.db.marks = db.marks
  /\ v.vault = vault /\ v.snaps = NoSnaps /\ v.ok = TRUE
  /\ FieldsBack(op, v.db)

LEMMA OpsAre ==
  ASSUME NEW op \in Ops
  PROVE  /\ op.was \in SoundDBs /\ op.was \in DBs /\ Owned(op.was) /\ op.left \in SoundDBs /\ op.snaps \in Snaps
         /\ op.was.fields \in [FieldNames -> FieldDefs \cup {NoField}]
         /\ op.was.claims \in [SchemaNames -> ClaimSets \cup {NoSchema}]
         /\ op.was.rows \in Rows /\ OwnedBy(op.was.fields, op.was.claims)
<1>1. op.was \in SoundDBs /\ op.left \in SoundDBs /\ op.snaps \in Snaps
  BY DEF Ops
<1>2. op.was \in DBs /\ Owned(op.was)
  BY <1>1 DEF SoundDBs
<1>3. /\ op.was.fields \in [FieldNames -> FieldDefs \cup {NoField}]
      /\ op.was.claims \in [SchemaNames -> ClaimSets \cup {NoSchema}] /\ op.was.rows \in Rows
  BY <1>2 DEF DBs
<1>4. OwnedBy(op.was.fields, op.was.claims)
  BY <1>2, <1>3, OwnedIs
<1> QED
  BY <1>1, <1>2, <1>3, <1>4

LEMMA FieldComesBack ==
  ASSUME SchemasInv, NEW op \in Ops, FieldRecord(op), NEW v, v = RestoreGlobalField(Here, op), v.ok
  PROVE  FieldBack(op, v)
<1> DEFINE names == {op.name, op.from}
           claiming == Claiming(op.was, op.from)
           created == op.tool = "create-global-field"
           F == [f \in FieldNames |-> IF f \in names THEN NoField ELSE db.fields[f]]
           C == [s \in SchemaNames |-> IF db.claims[s] = NoSchema THEN NoSchema
                   ELSE [f \in DOMAIN db.claims[s] \ names |-> db.claims[s][f]]]
           R == [n \in Nodes |-> [f \in FieldNames |-> IF f \in names THEN NoValue ELSE db.rows[n][f]]]
           fields == IF created THEN F ELSE [F EXCEPT ![op.from] = op.was.fields[op.from]]
           claims == IF created THEN C
                     ELSE [s \in SchemaNames |-> IF s \in claiming
                             THEN Over([f \in {op.from} |-> op.was.claims[s][f]], C[s]) ELSE C[s]]
           rows == IF created THEN R
                   ELSE [n \in Nodes |-> [R[n] EXCEPT ![op.from] = op.was.rows[n][op.from]]]
           cleared == [fields |-> F, claims |-> C, rows |-> R, hash |-> db.hash, marks |-> db.marks]
<1>1. /\ op.name \in FieldNames /\ op.from \in FieldNames /\ (created => op.from = op.name)
  BY DEF FieldRecord
<1>2. /\ Here = [db |-> db, vault |-> vault, snaps |-> NoSnaps, ok |-> TRUE]
      /\ db = [fields |-> db.fields, claims |-> db.claims, rows |-> db.rows, hash |-> db.hash, marks |-> db.marks]
  BY NowTyped DEF Here
<1>3. Without(db, names) = cleared
  <2>1. Without(db, names) = [db EXCEPT !.fields = F, !.claims = C, !.rows = R]
    BY Zenon DEF Without
  <2> HIDE DEF F, C, R, names
  <2> QED
    BY <1>2, <2>1
<1> HIDE DEF F, C, R
<1>4. v = Changed(fields, claims, rows) /\ (~created => \A s \in claiming : db.claims[s] # NoSchema)
  <2>1. CASE created
    <3>1. v = [Here EXCEPT !.db = Without(Here.db, {op.name})]
      BY <2>1, Zenon DEF RestoreGlobalField
    <3>2. {op.name} = names
      BY <1>1, <2>1
    <3>3. v = [Here EXCEPT !.db = cleared]
      BY <1>2, <1>3, <3>1, <3>2
    <3> QED
      BY <1>2, <2>1, <3>3 DEF Changed
  <2>2. CASE ~created
    <3>1. \/ v = Refused(Here)
          \/ /\ \A s \in claiming : Here.db.claims[s] # NoSchema
             /\ v = [Here EXCEPT !.db = [Without(Here.db, names) EXCEPT
                     !.fields[op.from] = op.was.fields[op.from],
                     !.claims = [s \in SchemaNames |-> IF s \in claiming
                       THEN Over([f \in {op.from} |-> op.was.claims[s][f]], Without(Here.db, names).claims[s])
                       ELSE Without(Here.db, names).claims[s]],
                     !.rows = [n \in Nodes |-> [Without(Here.db, names).rows[n] EXCEPT ![op.from] = op.was.rows[n][op.from]]]]]
      BY <2>2, Zenon DEF RestoreGlobalField
    <3>2. v # Refused(Here)
      BY <1>2 DEF Refused
    <3>3. Here.db = db /\ Without(Here.db, names) = cleared
      BY <1>2, <1>3
    <3>4. v = [Here EXCEPT !.db = [cleared EXCEPT !.fields[op.from] = op.was.fields[op.from],
                     !.claims = [s \in SchemaNames |-> IF s \in claiming
                       THEN Over([f \in {op.from} |-> op.was.claims[s][f]], C[s]) ELSE C[s]],
                     !.rows = [n \in Nodes |-> [R[n] EXCEPT ![op.from] = op.was.rows[n][op.from]]]]]
      <4>1. cleared.claims = C /\ cleared.rows = R
        OBVIOUS
      <4> HIDE DEF cleared
      <4> QED
        BY <3>1, <3>2, <3>3, <4>1
    <3>5. v = [Here EXCEPT !.db = [cleared EXCEPT !.fields = fields, !.claims = claims, !.rows = rows]]
      BY <2>2, <3>4
    <3> HIDE DEF fields, claims, rows
    <3>6. PICK d : d = [cleared EXCEPT !.fields = fields, !.claims = claims, !.rows = rows]
      OBVIOUS
    <3>7. d = [fields |-> fields, claims |-> claims, rows |-> rows, hash |-> db.hash, marks |-> db.marks]
      BY <3>6
    <3>8. v = [Here EXCEPT !.db = d]
      BY <3>5, <3>6
    <3> QED
      BY <1>2, <3>1, <3>2, <3>3, <3>7, <3>8 DEF Changed
  <2> QED
    BY <2>1, <2>2
<1>5. /\ db.fields \in [FieldNames -> FieldDefs \cup {NoField}] /\ OwnedBy(db.fields, db.claims)
      /\ db.claims \in [SchemaNames -> ClaimSets \cup {NoSchema}] /\ db.rows \in Rows
      /\ op.was.fields \in [FieldNames -> FieldDefs \cup {NoField}]
      /\ op.was.claims \in [SchemaNames -> ClaimSets \cup {NoSchema}]
      /\ op.was.rows \in Rows /\ OwnedBy(op.was.fields, op.was.claims)
  BY NowTyped, OpsAre
<1>6. ASSUME NEW s \in claiming
      PROVE  s \in SchemaNames /\ op.was.claims[s] \in ClaimSets /\ op.from \in DOMAIN op.was.claims[s]
             /\ op.was.claims[s][op.from] \in Claim /\ op.was.fields[op.from] # NoField
  <2>1. s \in SchemaNames /\ op.was.claims[s] # NoSchema /\ op.from \in DOMAIN op.was.claims[s]
    BY OpsAre, ClaimingIs
  <2>2. op.was.claims[s] \in ClaimSets
    BY <1>5, <2>1
  <2> QED
    BY <1>5, <2>1, <2>2, ClaimSetsAre DEF OwnedBy
<1>7. /\ F \in [FieldNames -> FieldDefs \cup {NoField}] /\ fields \in [FieldNames -> FieldDefs \cup {NoField}]
      /\ \A h \in FieldNames \ names : fields[h] = db.fields[h]
      /\ ~created => fields[op.from] = op.was.fields[op.from]
      /\ created \/ op.name # op.from => fields[op.name] = NoField
  BY <1>1, <1>5 DEF F
<1>8. ASSUME NEW n \in Nodes
      PROVE  /\ rows[n] \in [FieldNames -> Values]
             /\ \A h \in FieldNames \ names : rows[n][h] = db.rows[n][h]
             /\ ~created => rows[n][op.from] = op.was.rows[n][op.from]
             /\ created \/ op.name # op.from => rows[n][op.name] = NoValue
  <2>1. db.rows[n] \in [FieldNames -> Values] /\ op.was.rows[n] \in [FieldNames -> Values]
    BY <1>5, NodesTyped DEF NodeValues
  <2>2. NoValue \in Values
    BY DEF NoValue, Values
  <2>3. R[n] = [f \in FieldNames |-> IF f \in names THEN NoValue ELSE db.rows[n][f]]
    BY DEF R
  <2>4. rows[n] = IF created THEN R[n] ELSE [R[n] EXCEPT ![op.from] = op.was.rows[n][op.from]]
    OBVIOUS
  <2> HIDE DEF rows
  <2> QED
    BY <1>1, <2>1, <2>2, <2>3, <2>4
<1>9. rows \in Rows
  <2>1. rows = [n \in Nodes |-> rows[n]]
    BY DEF R
  <2> HIDE DEF rows
  <2> QED
    BY <1>8, <2>1 DEF Rows
<1>10. ASSUME NEW s \in SchemaNames, db.claims[s] # NoSchema
       PROVE  /\ claims[s] \in ClaimSets /\ claims[s] # NoSchema
              /\ DOMAIN claims[s] = (DOMAIN db.claims[s] \ names)
                                      \cup (IF ~created /\ s \in claiming THEN {op.from} ELSE {})
              /\ \A h \in DOMAIN db.claims[s] \ names : claims[s][h] = db.claims[s][h]
              /\ ~created /\ s \in claiming => claims[s][op.from] = op.was.claims[s][op.from]
  <2>1. db.claims[s] \in ClaimSets
    BY <1>5, <1>10
  <2>2. DOMAIN db.claims[s] \in SUBSET FieldNames /\ \A h \in DOMAIN db.claims[s] : db.claims[s][h] \in Claim
    BY <2>1, ClaimSetsAre
  <2>3. C[s] = [f \in DOMAIN db.claims[s] \ names |-> db.claims[s][f]]
    BY <1>10 DEF C
  <2>4. CASE created \/ s \notin claiming
    <3>1. claims[s] = C[s]
      BY <2>4
    <3> HIDE DEF claims
    <3>2. claims[s] \in [DOMAIN db.claims[s] \ names -> Claim]
      BY <2>2, <2>3, <3>1
    <3>3. DOMAIN db.claims[s] \ names \in SUBSET FieldNames
      BY <2>2
    <3>4. claims[s] \in ClaimSets /\ claims[s] # NoSchema
      BY <3>2, <3>3, ClaimSetsHave
    <3> QED
      BY <2>3, <2>4, <3>1, <3>4
  <2>5. CASE ~created /\ s \in claiming
    <3> DEFINE S == (DOMAIN db.claims[s] \ names) \cup {op.from}
    <3>1. claims[s] = Over([f \in {op.from} |-> op.was.claims[s][f]], C[s])
      BY <2>5
    <3>2. claims[s] = [h \in S |-> IF h = op.from THEN op.was.claims[s][h] ELSE db.claims[s][h]]
      <4>1. PICK new : new = [f \in {op.from} |-> op.was.claims[s][f]]
        OBVIOUS
      <4>2. DOMAIN new = {op.from} /\ new[op.from] = op.was.claims[s][op.from]
        BY <4>1
      <4>3. DOMAIN C[s] = DOMAIN db.claims[s] \ names /\ \A h \in DOMAIN C[s] : C[s][h] = db.claims[s][h]
        BY <2>3
      <4>4. claims[s] = [x \in DOMAIN new \cup DOMAIN C[s] |-> IF x \in DOMAIN new THEN new[x] ELSE C[s][x]]
        BY <3>1, <4>1 DEF Over
      <4>5. DOMAIN new \cup DOMAIN C[s] = S
        BY <4>2, <4>3
      <4> HIDE DEF claims, S
      <4> QED
        BY <4>2, <4>3, <4>4, <4>5
    <3> HIDE DEF claims
    <3>3. claims[s] \in [S -> Claim]
      BY <1>6, <2>2, <2>5, <3>2
    <3>4. S \in SUBSET FieldNames
      BY <1>1, <2>2
    <3> HIDE DEF S
    <3>5. claims[s] \in ClaimSets /\ claims[s] # NoSchema
      BY <3>3, <3>4, ClaimSetsHave
    <3> QED
      BY <2>5, <3>2, <3>5 DEF S
  <2> QED
    BY <2>4, <2>5
<1>11. ASSUME NEW s \in SchemaNames, db.claims[s] = NoSchema
       PROVE  claims[s] = NoSchema
  BY <1>4, <1>11 DEF C
<1>12. claims = [s \in SchemaNames |-> claims[s]]
  BY DEF C
<1> HIDE DEF claims, rows, fields
<1>13. claims \in [SchemaNames -> ClaimSets \cup {NoSchema}]
  BY <1>10, <1>11, <1>12
<1>14. OwnedBy(fields, claims)
  <2> SUFFICES ASSUME NEW s \in SchemaNames, claims[s] # NoSchema, NEW h \in DOMAIN claims[s]
               PROVE  fields[h] # NoField
    BY DEF OwnedBy
  <2>1. db.claims[s] # NoSchema
    BY <1>11
  <2>2. CASE h \in DOMAIN db.claims[s] \ names
    <3>1. db.claims[s] \in ClaimSets
      BY <1>5, <2>1
    <3>2. h \in FieldNames /\ db.fields[h] # NoField
      BY <1>5, <2>1, <2>2, <3>1, ClaimSetsAre DEF OwnedBy
    <3> QED
      BY <1>7, <2>2, <3>2
  <2>3. CASE ~created /\ s \in claiming /\ h = op.from
    BY <1>6, <1>7, <2>3
  <2> QED
    BY <1>10, <2>1, <2>2, <2>3
<1>15. /\ v \in Worlds /\ v.db.fields = fields /\ v.db.claims = claims /\ v.db.rows = rows
       /\ v.db.marks = db.marks /\ v.vault = vault /\ v.snaps = NoSnaps
  BY <1>4, <1>7, <1>9, <1>13, <1>14, ChangedIs
<1>16. v.db.hash = db.hash /\ v.ok = TRUE
  BY <1>4 DEF Changed
<1>17. FieldsBack(op, v.db)
  <2>1. \A s \in SchemaNames : db.claims[s] # NoSchema => ClaimsBack(op, v.db, s)
    BY <1>10, <1>15 DEF ClaimsBack
  <2>2. \A s \in SchemaNames : (v.db.claims[s] = NoSchema) <=> (db.claims[s] = NoSchema)
    BY <1>10, <1>11, <1>15
  <2> QED
    BY <1>7, <1>8, <1>15, <2>1, <2>2 DEF FieldsBack
<1> QED
  BY <1>15, <1>16, <1>17 DEF FieldBack

\* The nodes of a world are put back: its catalog stays.
LEMMA UndoneNodes ==
  ASSUME NEW x \in Worlds, NEW nodes, NEW values, NEW w, Mutates(x, w, nodes, values, "undo")
  PROVE  /\ w \in Worlds /\ SameCatalog(w.db, x.db) /\ w.db.marks = x.db.marks /\ w.vault = x.vault
         /\ \A n \in Nodes \ nodes : w.db.rows[n] = x.db.rows[n]
<1>1. w \in Worlds /\ SameCatalog(w.db, x.db) /\ SameFiles(x, w)
  BY DEF Mutates
<1>2. ASSUME NEW n \in Nodes
      PROVE  w.vault.notes[n] = x.vault.notes[n] /\ (n \notin nodes => w.db.rows[n] = x.db.rows[n])
  <2> DEFINE state == Checked(x, n, values, "undo").state
  <2>1. NodeKept(x, w, n) \/ (NodeStored(x, w, n, state, "undo") /\ n \in nodes)
    BY DEF Mutates
  <2> HIDE DEF state
  <2> QED
    BY <2>1 DEF NodeKept, NodeStored
<1>3. w.vault.notes = x.vault.notes
  <2>1. w.vault.notes \in Rows /\ x.vault.notes \in Rows
    BY <1>1, WorldParts
  <2> QED
    BY <1>2, <2>1 DEF Rows
<1>4. w.vault = x.vault
  <2>1. w.vault = [notes |-> w.vault.notes, catalog |-> w.vault.catalog]
        /\ x.vault = [notes |-> x.vault.notes, catalog |-> x.vault.catalog]
    BY <1>1, WorldParts
  <2> QED
    BY <1>1, <1>3, <2>1 DEF SameFiles
<1> QED
  BY <1>1, <1>2, <1>4 DEF SameFiles

\* The catalog files when an operation is taken back, and then the nodes.
EditedBut(v, op) ==
  \A file \in CatalogFiles : vault.catalog[file] = Edited /\ db.marks[file] # NoHash =>
    v.catalog[file] = Edited \/ (op.tool = "create-schema" /\ op.name = file)

Unreused(op) == op.tool = "rename-global-field" => db.fields[op.from] = NoField

CatalogBack(w, c, op) ==
  /\ c \in Worlds /\ SameCatalog(c.db, w.db) /\ SameNodes(w, c) /\ c.ok = w.ok
  /\ Marked(c.db, c.vault) /\ (Clean(db, vault) => Clean(c.db, c.vault))
  /\ EditedBut(c.vault, op)
  /\ Unreused(op) => Followed(c.db, c.vault)

\* Rendered again.
LEMMA RenderedBack ==
  ASSUME SchemasInv, NEW w \in Worlds, w.db.marks = db.marks, w.vault = vault, NEW op,
         NEW files, NEW c, Renders(w, c, files), SameExisting(w.db, files),
         Unreused(op) => OthersKept(w.db, files)
  PROVE  CatalogBack(w, c, op)
<1>1. c \in Worlds /\ SameCatalog(c.db, w.db) /\ SameNodes(w, c) /\ c.ok = w.ok
  BY DEF Renders
<1>2. c.db \in SoundDBs /\ c.vault \in Vaults
  BY <1>1 DEF Worlds
<1>3. RenderStep(c.db, c.vault, files)
  <2>1. SameCatalog(c.db, c.db) /\ SameFiles(c, c)
    BY DEF SameCatalog, SameFiles
  <2> QED
    BY <2>1, RendersIsStep
<1>4. SameExisting(c.db, files)
  BY <1>1 DEF SameExisting, SameCatalog
<1>5. Unreused(op) => OthersKept(c.db, files)
  <2>1. \A file \in CatalogFiles : Wanted(c.db, file) = Wanted(w.db, file)
    BY <1>1, SameCatalogSame DEF Wanted, SameCatalog
  <2> QED
    BY <2>1 DEF OthersKept
<1>6. /\ Marked(c.db, c.vault) /\ (Clean(db, vault) => Clean(c.db, c.vault)) /\ EditedKept(c.vault)
      /\ OthersKept(c.db, files) => Followed(c.db, c.vault)
  BY <1>2, <1>3, <1>4, RenderStepIsGood
<1> QED
  BY <1>1, <1>5, <1>6 DEF CatalogBack, EditedKept, EditedBut

LEMMA SchemaCatalogBack ==
  ASSUME SchemasInv, NEW op \in Ops, SchemaRecord(op), op.tool # "create-schema",
         NEW x, SchemaBack(op, x), NEW nodes, NEW values, NEW w, Mutates(x, w, nodes, values, "undo"),
         NEW c, c = RenderFile(w, op.name)
  PROVE  CatalogBack(w, c, op)
<1>1. x \in Worlds
  BY DEF SchemaBack
<1>2. w \in Worlds /\ SameCatalog(w.db, x.db) /\ w.db.marks = db.marks /\ w.vault = vault
  BY <1>1, UndoneNodes DEF SchemaBack
<1>3. op.name \in SchemaNames /\ op.was.claims[op.name] # NoSchema
  BY DEF SchemaRecord
<1>4. {op.name} \in SUBSET CatalogFiles
  BY <1>3 DEF CatalogFiles
<1>5. Renders(w, c, {op.name})
  BY <1>2, <1>4, RenderFilesDoes DEF RenderFile
<1>6. w.db.fields = db.fields /\ w.db.claims = [db.claims EXCEPT ![op.name] = op.was.claims[op.name]]
  BY <1>2 DEF SchemaBack, SameCatalog
<1>7. SameExisting(w.db, {op.name})
  BY <1>3, <1>6, NowTyped DEF SameExisting
<1>8. w.db \in SoundDBs /\ db \in SoundDBs
  BY <1>2 DEF Worlds, SchemasInv
<1>9. OthersKept(w.db, {op.name})
  <2>1. PICK claims : claims = op.was.claims[op.name]
    OBVIOUS
  <2> QED
    BY <1>3, <1>6, <1>8, <2>1, OtherSchemasKept
<1> QED
  BY <1>2, <1>5, <1>7, <1>9, RenderedBack

\* A world with other catalog files.
WithCatalog(w, catalog) ==
  [db |-> w.db, vault |-> [notes |-> w.vault.notes, catalog |-> catalog], snaps |-> w.snaps, ok |-> w.ok]

LEMMA WithCatalogIs ==
  ASSUME NEW w \in Worlds, NEW catalog \in [CatalogFiles -> Renderings \cup {NoFile, Edited}],
         NEW c, c = WithCatalog(w, catalog)
  PROVE  c \in Worlds
<1>1. /\ w.db = [fields |-> w.db.fields, claims |-> w.db.claims, rows |-> w.db.rows,
                 hash |-> w.db.hash, marks |-> w.db.marks]
      /\ w.db.fields \in [FieldNames -> FieldDefs \cup {NoField}]
      /\ w.db.claims \in [SchemaNames -> ClaimSets \cup {NoSchema}]
      /\ w.db.rows \in Rows /\ w.db.hash \in Rows /\ w.vault.notes \in Rows
      /\ w.db.marks \in [CatalogFiles -> Renderings \cup {NoHash}]
      /\ w.snaps \in Snaps /\ w.ok \in BOOLEAN /\ Owned(w.db)
  BY WorldParts
<1>2. c = World(w.db.fields, w.db.claims, w.db.rows, w.db.hash, w.db.marks, w.vault.notes, catalog, w.snaps, w.ok)
  BY <1>1 DEF World, WithCatalog
<1>3. Owned(c.db)
  BY <1>1 DEF WithCatalog
<1> QED
  BY <1>1, <1>2, <1>3, WorldOf

LEMMA CreatedCatalogBack ==
  ASSUME SchemasInv, NEW op \in Ops, SchemaRecord(op), op.tool = "create-schema",
         NEW x, SchemaBack(op, x), NEW nodes, NEW values, NEW w, Mutates(x, w, nodes, values, "undo"),
         NEW c, c = [w EXCEPT !.vault.catalog[op.name] = NoFile]
  PROVE  CatalogBack(w, c, op)
<1> DEFINE s == op.name
           catalog == [vault.catalog EXCEPT ![s] = NoFile]
<1>1. x \in Worlds
  BY DEF SchemaBack
<1>2. w \in Worlds /\ SameCatalog(w.db, x.db) /\ w.db.marks = [db.marks EXCEPT ![s] = NoHash] /\ w.vault = vault
  BY <1>1, UndoneNodes DEF SchemaBack
<1>3. s \in SchemaNames /\ s \in CatalogFiles /\ s # Catalog /\ op.was.claims[s] = NoSchema
  BY MarkersDiffer DEF SchemaRecord, CatalogFiles
<1>4. w.db.fields = db.fields /\ w.db.claims = [db.claims EXCEPT ![s] = NoSchema]
  BY <1>2, <1>3 DEF SchemaBack, SameCatalog
<1>5. /\ w = [db |-> w.db, vault |-> vault, snaps |-> w.snaps, ok |-> w.ok]
      /\ vault = [notes |-> vault.notes, catalog |-> vault.catalog]
  BY <1>2, WorldParts
<1>6. vault.catalog \in [CatalogFiles -> Renderings \cup {NoFile, Edited}] /\ vault.notes \in Rows
      /\ db.marks \in [CatalogFiles -> Renderings \cup {NoHash}]
      /\ w.snaps \in Snaps /\ w.ok \in BOOLEAN /\ w.db \in SoundDBs /\ db \in SoundDBs /\ Marked(db, vault)
  BY <1>2 DEF SchemasInv, SoundDBs, DBs, Vaults, Worlds
<1>7. catalog \in [CatalogFiles -> Renderings \cup {NoFile, Edited}]
  BY <1>6
<1>8. c = [db |-> w.db, vault |-> [notes |-> vault.notes, catalog |-> catalog], snaps |-> w.snaps, ok |-> w.ok]
  BY <1>5
<1>9. catalog[s] = NoFile /\ \A file \in CatalogFiles \ {s} : catalog[file] = vault.catalog[file]
  BY <1>3, <1>6
<1> HIDE DEF catalog
<1>10. c \in Worlds
  <2>1. c = WithCatalog(w, catalog)
    BY <1>2, <1>8 DEF WithCatalog
  <2> QED
    BY <1>2, <1>7, <2>1, WithCatalogIs
<1>11. SameCatalog(c.db, w.db) /\ SameNodes(w, c) /\ c.ok = w.ok
  BY <1>2, <1>5, <1>8 DEF SameCatalog, SameNodes
<1>12. /\ c.db.marks = [db.marks EXCEPT ![s] = NoHash] /\ c.vault.catalog = catalog
       /\ c.db.claims = [db.claims EXCEPT ![s] = NoSchema] /\ c.db.fields = db.fields /\ c.db \in SoundDBs
  BY <1>2, <1>4, <1>6, <1>8
<1>13. Marked(c.db, c.vault)
  BY <1>3, <1>6, <1>9, <1>12 DEF Marked
<1>14. ASSUME Clean(db, vault)
       PROVE  Clean(c.db, c.vault)
  <2> SUFFICES ASSUME NEW t \in SchemaNames
               PROVE  IF c.db.claims[t] = NoSchema THEN c.db.marks[t] = NoHash /\ c.vault.catalog[t] = NoFile
                      ELSE c.db.marks[t] = c.vault.catalog[t] /\ c.db.marks[t] # NoHash
    BY DEF Clean
  <2>1. IF db.claims[t] = NoSchema THEN db.marks[t] = NoHash /\ vault.catalog[t] = NoFile
        ELSE db.marks[t] = vault.catalog[t] /\ db.marks[t] # NoHash
    BY <1>14 DEF Clean
  <2>2. t \in CatalogFiles
    BY DEF CatalogFiles
  <2> QED
    BY <1>3, <1>6, <1>9, <1>12, <2>1, <2>2, NowTyped
<1>15. EditedBut(c.vault, op)
  BY <1>9, <1>12 DEF EditedBut
<1>16. Followed(c.db, c.vault)
  <2> SUFFICES ASSUME NEW file \in CatalogFiles, vault.catalog[file] = Wanted(db, file)
               PROVE  c.vault.catalog[file] = Wanted(c.db, file)
    BY DEF Followed
  <2>1. CASE file # s
    <3>1. OthersKept(c.db, {s})
      BY <1>3, <1>6, <1>12, OtherSchemasKept
    <3> QED
      BY <1>9, <1>12, <2>1, <3>1 DEF OthersKept
  <2>2. CASE file = s
    <3>1. ~Exists(c.db, s)
      BY <1>3, <1>12, NowTyped DEF Exists
    <3> QED
      BY <1>3, <1>9, <1>12, <2>2, <3>1, WantedIs
  <2> QED
    BY <2>1, <2>2
<1> QED
  BY <1>10, <1>11, <1>13, <1>14, <1>15, <1>16 DEF CatalogBack

LEMMA NodeCatalogBack ==
  ASSUME SchemasInv, NEW op, NEW nodes, NEW values, NEW w, Mutates(Here, w, nodes, values, "undo")
  PROVE  CatalogBack(w, w, op)
<1>1. w \in Worlds /\ SameCatalog(w.db, db) /\ w.db.marks = db.marks /\ w.vault = vault
  BY NowTyped, UndoneNodes
<1>2. w.db \in SoundDBs /\ w.vault \in Vaults
  BY <1>1 DEF Worlds
<1>3. /\ Marked(w.db, w.vault) /\ (Clean(db, vault) => Clean(w.db, w.vault))
      /\ EditedKept(w.vault) /\ Followed(w.db, w.vault)
  BY <1>1, <1>2, NothingRendered
<1> QED
  BY <1>1, <1>3 DEF CatalogBack, SameCatalog, SameNodes, EditedKept, EditedBut

LEMMA FieldCatalogBack ==
  ASSUME SchemasInv, NEW op \in Ops, FieldRecord(op),
         NEW x, FieldBack(op, x), NEW nodes, NEW values, NEW w, Mutates(x, w, nodes, values, "undo"),
         NEW c, c = RenderFiles(w, {Catalog} \cup Claiming(op.was, op.from) \cup Claiming(db, op.name))
  PROVE  CatalogBack(w, c, op)
<1> DEFINE files == {Catalog} \cup Claiming(op.was, op.from) \cup Claiming(db, op.name)
<1>1. x \in Worlds
  BY DEF FieldBack
<1>2. w \in Worlds /\ SameCatalog(w.db, x.db) /\ w.db.marks = db.marks /\ w.vault = vault
  BY <1>1, UndoneNodes DEF FieldBack
<1>3. /\ op.name \in FieldNames /\ op.from \in FieldNames
      /\ op.tool # "rename-global-field" => op.from = op.name
  BY DEF FieldRecord
<1>4. files \in SUBSET CatalogFiles
  BY DEF CatalogFiles, Claiming
<1>5. FieldsBack(op, x.db)
  BY DEF FieldBack
<1>6. SameExisting(w.db, files)
  BY <1>2, <1>5 DEF SameExisting, SameCatalog, FieldsBack
<1>7. ASSUME Unreused(op)
      PROVE  OthersKept(w.db, files)
  <2>1. ASSUME NEW s \in SchemaNames, s \notin files, db.claims[s] # NoSchema
        PROVE  /\ w.db.claims[s] = db.claims[s]
               /\ \A h \in DOMAIN db.claims[s] : w.db.fields[h] = db.fields[h]
    <3>1. db.claims[s] \in ClaimSets
      BY <2>1, NowTyped
    <3>2. op.name \notin DOMAIN db.claims[s]
      BY <2>1, NowTyped, ClaimingIs
    <3>3. op.from \notin DOMAIN db.claims[s]
      <4>1. CASE op.from = op.name
        BY <3>2, <4>1
      <4>2. CASE op.from # op.name
        <5>1. db.fields[op.from] = NoField
          BY <1>3, <1>7, <4>2 DEF Unreused
        <5> QED
          BY <2>1, <5>1, NowTyped DEF OwnedBy
      <4> QED
        BY <4>1, <4>2
    <3>4. ClaimsBack(op, x.db, s)
      BY <1>5, <2>1 DEF FieldsBack
    <3>5. /\ DOMAIN x.db.claims[s] = DOMAIN db.claims[s]
          /\ \A h \in DOMAIN db.claims[s] : x.db.claims[s][h] = db.claims[s][h]
      <4>1. s \notin Claiming(op.was, op.from)
        BY <2>1
      <4> QED
        BY <3>2, <3>3, <3>4, <4>1 DEF ClaimsBack
    <3>6. x.db.claims[s] \in ClaimSets
      <4>1. x.db.claims[s] # NoSchema
        BY <1>5, <2>1 DEF FieldsBack
      <4>2. x.db.claims \in [SchemaNames -> ClaimSets \cup {NoSchema}]
        BY <1>1, WorldParts
      <4> QED
        BY <4>1, <4>2
    <3>7. /\ x.db.claims[s] = [h \in DOMAIN x.db.claims[s] |-> x.db.claims[s][h]]
          /\ db.claims[s] = [h \in DOMAIN db.claims[s] |-> db.claims[s][h]]
          /\ DOMAIN db.claims[s] \in SUBSET FieldNames
      BY <3>1, <3>6, ClaimSetsAre
    <3>8. x.db.claims[s] = db.claims[s]
      BY <3>5, <3>7
    <3>9. \A h \in DOMAIN db.claims[s] : x.db.fields[h] = db.fields[h]
      BY <1>5, <3>2, <3>3, <3>7 DEF FieldsBack
    <3> QED
      BY <1>2, <3>8, <3>9 DEF SameCatalog
  <2> SUFFICES ASSUME NEW file \in CatalogFiles \ files
               PROVE  Wanted(w.db, file) = Wanted(db, file)
    BY DEF OthersKept
  <2>2. file \in SchemaNames /\ file # Catalog /\ file \notin files
    BY DEF CatalogFiles
  <2>3. (w.db.claims[file] = NoSchema) <=> (db.claims[file] = NoSchema)
    BY <1>2, <1>5, <2>2 DEF FieldsBack, SameCatalog
  <2>4. CASE db.claims[file] = NoSchema
    BY <2>2, <2>3, <2>4 DEF Wanted
  <2>5. CASE db.claims[file] # NoSchema
    <3>1. RenderedSchema(w.db, file) = RenderedSchema(db, file)
      <4>1. /\ w.db.claims[file] = db.claims[file]
            /\ \A h \in DOMAIN db.claims[file] : w.db.fields[h] = db.fields[h]
        BY <2>1, <2>2, <2>5
      <4> QED
        BY <4>1 DEF RenderedSchema
    <3> QED
      BY <2>2, <2>3, <2>5, <3>1 DEF Wanted, Rendered
  <2> QED
    BY <2>4, <2>5
<1>8. c = RenderFiles(w, files)
  OBVIOUS
<1> HIDE DEF files
<1>9. Renders(w, c, files)
  BY <1>2, <1>4, <1>8, RenderFilesDoes
<1> QED
  BY <1>2, <1>6, <1>7, <1>9, RenderedBack

\* The catalog and the rows of before the operation, if nothing has changed since.
Intact(i) ==
  /\ <<db.fields, db.claims, db.rows>> = <<log[i].left.fields, log[i].left.claims, log[i].left.rows>>
  /\ Conflicted(i) = {}

UnownedIn(op, n, f) ==
  /\ op.tool \in {"create-global-field", "rename-global-field"}
  /\ f = op.name /\ f \in Orphans(Context(op.was), Types[n], op.was.rows[n])

ValuesBack(op, d) ==
  \A n \in Nodes : Canonical(op.was, n) =>
    \A f \in FieldNames : UnownedIn(op, n, f) \/ d.rows[n][f] = op.was.rows[n][f]

OperationBack(i, d) ==
  Intact(i) => SameCatalog(d, log[i].was) /\ ValuesBack(log[i], d)

\* The nodes that undo puts back.
Todo(i, reverted) == {n \in Nodes : log[i].snaps[n] # Nothing} \ (Conflicted(i) \ reverted)
Before(i, todo) == [n \in todo |-> log[i].snaps[n].was]

\* The rows of nodes with snapshots.
LEMMA SnapsRestored ==
  ASSUME SchemasInv, NEW i \in DOMAIN log, Snapped(log[i]), Intact(i), NEW reverted \in SUBSET Nodes,
         NEW x \in Worlds, x.db.rows = db.rows, x.db.hash = db.hash, SameCatalog(x.db, log[i].was),
         NEW w, Mutates(x, w, Todo(i, reverted), Before(i, Todo(i, reverted)), "undo"), w.ok
  PROVE  ValuesBack(log[i], w.db)
<1> DEFINE op == log[i]
<1>1. op \in Ops
  BY ElementOfSeq, LenProperties DEF SchemasInv
<1> SUFFICES ASSUME NEW n \in Nodes, Canonical(op.was, n)
             PROVE  w.db.rows[n] = op.was.rows[n]
  BY DEF ValuesBack
<1>2. db.rows[n] = op.left.rows[n]
  BY DEF Intact
<1>3. CASE op.snaps[n] = Nothing
  <2>1. n \notin Todo(i, reverted)
    BY <1>3 DEF Todo
  <2>2. w.db.rows[n] = x.db.rows[n]
    BY <2>1, UndoneNodes
  <2>3. op.left.rows[n] = op.was.rows[n]
    BY <1>3 DEF Snapped
  <2> QED
    BY <1>2, <2>2, <2>3
<1>4. CASE op.snaps[n] # Nothing
  <2>1. n \notin Conflicted(i)
    BY DEF Intact
  <2>2. n \in Todo(i, reverted)
    BY <1>4, <2>1 DEF Todo
  <2>3. op.snaps[n].was = op.was.rows[n] /\ op.snaps[n].post = op.left.rows[n]
    BY <1>4 DEF Snapped
  <2>4. db.hash[n] = op.snaps[n].post
    BY <1>4, <2>1 DEF Conflicted
  <2> DEFINE todo == Todo(i, reverted)
             values == Before(i, todo)
             v == Checked(x, n, values, "undo")
  <2>5. values[n] = op.was.rows[n]
    BY <2>2, <2>3 DEF Before
  <2> HIDE DEF values, todo
  <2>6. v = Validate(Context(x.db), Types[n], values[n], TRUE)
    BY CheckedAlone
  <2>7. Context(x.db) = Context(op.was)
    BY SameCatalogSame
  <2>8. v.state = op.was.rows[n]
    BY <2>5, <2>6, <2>7 DEF Canonical
  <2>9. Mutates(x, w, todo, values, "undo") /\ n \in todo
    BY <2>2 DEF todo, values
  <2>10. ~Refuses(v, "undo")
    BY <2>9 DEF Mutates
  <2>11. \/ NodeKept(x, w, n) /\ (Refuses(v, "undo") \/ NoOp(x, n, v.state))
         \/ NodeStored(x, w, n, v.state, "undo")
    BY <2>9 DEF Mutates
  <2> HIDE DEF v
  <2>12. CASE NodeStored(x, w, n, v.state, "undo")
    BY <2>8, <2>12 DEF NodeStored
  <2>13. CASE NodeKept(x, w, n) /\ NoOp(x, n, v.state)
    BY <1>2, <2>3, <2>4, <2>8, <2>13 DEF NodeKept, NoOp
  <2> QED
    BY <2>10, <2>11, <2>12, <2>13
<1> QED
  BY <1>3, <1>4

\* The catalog and the rows of an operation on a field.
LEMMA FieldRestored ==
  ASSUME SchemasInv, NEW i \in DOMAIN log, FieldRecord(log[i]), Intact(i),
         NEW x, FieldBack(log[i], x)
  PROVE  SameCatalog(x.db, log[i].was) /\ ValuesBack(log[i], x.db)
<1> DEFINE op == log[i]
           names == {op.name, op.from}
           created == op.tool = "create-global-field"
<1>1. op \in Ops
  BY ElementOfSeq, LenProperties DEF SchemasInv
<1>2. /\ op.name \in FieldNames /\ op.from \in FieldNames /\ (created => op.from = op.name)
      /\ created \/ op.name # op.from => op.was.fields[op.name] = NoField
  BY DEF FieldRecord, FieldTools
<1>3. db.fields = op.left.fields /\ db.claims = op.left.claims /\ db.rows = op.left.rows
  BY DEF Intact
<1>4. FieldsBack(op, x.db) /\ x \in Worlds
  BY DEF FieldBack
<1>5. /\ op.was \in DBs /\ op.was.fields \in [FieldNames -> FieldDefs \cup {NoField}]
      /\ op.was.claims \in [SchemaNames -> ClaimSets \cup {NoSchema}]
      /\ op.was.rows \in Rows /\ OwnedBy(op.was.fields, op.was.claims)
  BY <1>1, OpsAre
<1>6. /\ x.db.fields \in [FieldNames -> FieldDefs \cup {NoField}]
      /\ x.db.claims \in [SchemaNames -> ClaimSets \cup {NoSchema}]
  BY <1>4, WorldParts
<1>7. ASSUME NEW h \in FieldNames \ names
      PROVE  /\ db.fields[h] = op.was.fields[h]
             /\ \A s \in SchemaNames : db.claims[s] # NoSchema /\ op.was.claims[s] # NoSchema =>
                  /\ (h \in DOMAIN db.claims[s]) <=> (h \in DOMAIN op.was.claims[s])
                  /\ h \in DOMAIN db.claims[s] => db.claims[s][h] = op.was.claims[s][h]
             /\ \A n \in Nodes : Canonical(op.was, n) => db.rows[n][h] = op.was.rows[n][h]
  <2>1. /\ SameField(Context(op.left), Context(op.was), h)
        /\ \A n \in Nodes : Canonical(op.was, n) => op.left.rows[n][h] = op.was.rows[n][h]
    BY <1>7 DEF FieldRecord
  <2>2. SameField(Context(db), Context(op.was), h)
    <3>1. SameCatalog(op.left, db)
      BY <1>3 DEF SameCatalog
    <3> QED
      BY <2>1, <3>1, SameCatalogSame
  <2>3. /\ (h \in DOMAIN Fields(db)) <=> (h \in DOMAIN Fields(op.was))
        /\ h \in DOMAIN Fields(db) => Fields(db)[h] = Fields(op.was)[h]
        /\ \A s \in SchemaNames : (h \in DOMAIN Claims(db)[s]) <=> (h \in DOMAIN Claims(op.was)[s])
        /\ \A s \in SchemaNames : h \in DOMAIN Claims(db)[s] => Claims(db)[s][h] = Claims(op.was)[s][h]
    BY <2>2 DEF SameField, Context
  <2>4. db.fields[h] = op.was.fields[h]
    BY <2>3 DEF Fields
  <2>5. \A s \in SchemaNames : db.claims[s] # NoSchema /\ op.was.claims[s] # NoSchema =>
          Claims(db)[s] = db.claims[s] /\ Claims(op.was)[s] = op.was.claims[s]
    BY <1>5, NowTyped, ClaimsTyped
  <2> QED
    BY <1>3, <2>1, <2>3, <2>4, <2>5
<1>8. x.db.fields = op.was.fields
  <2>1. ASSUME NEW h \in FieldNames
        PROVE  x.db.fields[h] = op.was.fields[h]
    <3>1. CASE h \notin names
      BY <1>4, <1>7, <3>1 DEF FieldsBack
    <3>2. CASE h = op.from /\ ~created
      BY <1>4, <3>2 DEF FieldsBack
    <3>3. CASE h = op.name /\ (created \/ op.name # op.from)
      BY <1>2, <1>4, <3>3 DEF FieldsBack
    <3> QED
      BY <1>2, <3>1, <3>2, <3>3
  <2> QED
    BY <1>5, <1>6, <2>1
<1>9. x.db.claims = op.was.claims
  <2>1. ASSUME NEW s \in SchemaNames
        PROVE  x.db.claims[s] = op.was.claims[s]
    <3>1. /\ (db.claims[s] = NoSchema) <=> (op.was.claims[s] = NoSchema)
          /\ (x.db.claims[s] = NoSchema) <=> (db.claims[s] = NoSchema)
      BY <1>3, <1>4 DEF FieldRecord, FieldsBack
    <3>2. CASE db.claims[s] # NoSchema
      <4> DEFINE back == IF ~created /\ s \in Claiming(op.was, op.from) THEN {op.from} ELSE {}
      <4>1. /\ DOMAIN x.db.claims[s] = (DOMAIN db.claims[s] \ names) \cup back
            /\ \A h \in DOMAIN db.claims[s] \ names : x.db.claims[s][h] = db.claims[s][h]
            /\ \A h \in back : x.db.claims[s][h] = op.was.claims[s][h]
        BY <1>4, <3>2 DEF FieldsBack, ClaimsBack
      <4>2. db.claims[s] \in ClaimSets /\ op.was.claims[s] \in ClaimSets /\ x.db.claims[s] \in ClaimSets
        BY <1>5, <1>6, <3>1, <3>2, NowTyped
      <4>3. /\ DOMAIN db.claims[s] \in SUBSET FieldNames /\ DOMAIN op.was.claims[s] \in SUBSET FieldNames
            /\ op.was.claims[s] = [h \in DOMAIN op.was.claims[s] |-> op.was.claims[s][h]]
            /\ x.db.claims[s] = [h \in DOMAIN x.db.claims[s] |-> x.db.claims[s][h]]
        BY <4>2, ClaimSetsAre
      <4>4. s \in Claiming(op.was, op.from) <=> op.from \in DOMAIN op.was.claims[s]
        BY <1>5, <3>1, <3>2, ClaimingIs
      <4>5. created \/ op.name # op.from => op.name \notin DOMAIN op.was.claims[s]
        BY <1>2, <1>5, <3>1, <3>2 DEF OwnedBy
      <4>6. ASSUME NEW h \in FieldNames
            PROVE  h \in DOMAIN x.db.claims[s] <=> h \in DOMAIN op.was.claims[s]
        <5>1. CASE h \notin names
          BY <1>2, <1>7, <3>1, <3>2, <4>1, <5>1
        <5>2. CASE h = op.from /\ ~created
          BY <4>1, <4>4, <5>2
        <5>3. CASE h = op.name /\ (created \/ op.name # op.from)
          BY <4>1, <4>5, <5>3
        <5> QED
          BY <1>2, <5>1, <5>2, <5>3
      <4>7. DOMAIN x.db.claims[s] = DOMAIN op.was.claims[s]
        BY <1>2, <4>1, <4>3, <4>6
      <4>8. ASSUME NEW h \in DOMAIN x.db.claims[s]
            PROVE  x.db.claims[s][h] = op.was.claims[s][h]
        <5>1. h \in DOMAIN db.claims[s] \ names \/ h \in back
          BY <4>1
        <5>2. CASE h \in DOMAIN db.claims[s] \ names
          BY <1>7, <3>1, <3>2, <4>1, <4>3, <5>2
        <5>3. CASE h \in back
          BY <4>1, <5>3
        <5> QED
          BY <5>1, <5>2, <5>3
      <4> QED
        BY <4>3, <4>7, <4>8
    <3> QED
      BY <3>1, <3>2
  <2> QED
    BY <1>5, <1>6, <2>1
<1>10. ValuesBack(op, x.db)
  <2> SUFFICES ASSUME NEW n \in Nodes, Canonical(op.was, n), NEW f \in FieldNames, ~UnownedIn(op, n, f)
               PROVE  x.db.rows[n][f] = op.was.rows[n][f]
    BY DEF ValuesBack
  <2>1. CASE f \notin names
    BY <1>4, <1>7, <2>1 DEF FieldsBack
  <2>2. CASE f = op.from /\ ~created
    BY <1>4, <2>2 DEF FieldsBack
  <2>3. CASE f = op.name /\ (created \/ op.name # op.from)
    <3>1. x.db.rows[n][f] = NoValue
      BY <1>4, <2>3 DEF FieldsBack
    <3>2. f \notin EffectiveFields(Context(op.was), Types[n])
      BY <1>2, <2>3 DEF EffectiveFields, Context, Fields
    <3>3. op.tool \in {"create-global-field", "rename-global-field"}
      BY <2>3 DEF FieldRecord
    <3>4. op.was.rows[n] \in [FieldNames -> Values]
      BY <1>5, NodesTyped DEF NodeValues
    <3>5. op.was.rows[n][f] = NoValue
      BY <2>3, <3>2, <3>3, <3>4 DEF UnownedIn, Orphans
    <3> QED
      BY <3>1, <3>5
  <2> QED
    BY <1>2, <2>1, <2>2, <2>3
<1> QED
  BY <1>8, <1>9, <1>10 DEF SameCatalog

\* The catalog of an operation on a schema.
LEMMA SchemaRestored ==
  ASSUME SchemasInv, NEW i \in DOMAIN log, SchemaRecord(log[i]), Intact(i),
         NEW x, SchemaBack(log[i], x)
  PROVE  SameCatalog(x.db, log[i].was)
<1> DEFINE op == log[i]
           s == op.name
<1>1. op \in Ops
  BY ElementOfSeq, LenProperties DEF SchemasInv
<1>2. db.fields = op.left.fields /\ db.claims = op.left.claims
  BY DEF Intact
<1>3. op.left.fields = op.was.fields /\ \A t \in SchemaNames \ {s} : op.left.claims[t] = op.was.claims[t]
  BY DEF SchemaRecord
<1>4. op.was.claims \in [SchemaNames -> ClaimSets \cup {NoSchema}]
  BY <1>1, OpsAre
<1>5. [db.claims EXCEPT ![s] = op.was.claims[s]] = op.was.claims
  BY <1>2, <1>3, <1>4, NowTyped
<1> QED
  BY <1>2, <1>3, <1>5 DEF SchemaBack, SameCatalog

\* The operation is marked, and else the log stays.
LEMMA UndoneLog ==
  ASSUME SchemasInv, NEW i \in DOMAIN log, log' = [log EXCEPT ![i].status = "undone"]
  PROVE  log' \in Seq(Ops) /\ \A j \in DOMAIN log' : Recorded(log'[j])
<1>1. log \in Seq(Ops) /\ \A j \in DOMAIN log : Recorded(log[j])
  BY DEF SchemasInv
<1>2. DOMAIN log = 1 .. Len(log) /\ Len(log) \in Nat /\ \A j \in DOMAIN log : log[j] \in Ops
  BY <1>1, LenProperties, ElementOfSeq
<1>3. PICK op : op = [log[i] EXCEPT !.status = "undone"]
  OBVIOUS
<1>4. log' = [log EXCEPT ![i] = op]
  BY <1>3
<1>5. log[i] \in Ops /\ Recorded(log[i])
  BY <1>1, <1>2
<1>6. op \in Ops /\ op.tool = log[i].tool /\ op.name = log[i].name /\ op.from = log[i].from
      /\ op.was = log[i].was /\ op.left = log[i].left /\ op.snaps = log[i].snaps
  BY <1>3, <1>5 DEF Ops
<1>7. Recorded(op)
  BY <1>5, <1>6 DEF Recorded, SchemaRecord, FieldRecord, NodeRecord, Snapped
<1>8. DOMAIN log' = 1 .. Len(log) /\ \A j \in DOMAIN log' : log'[j] = IF j = i THEN op ELSE log[j]
  BY <1>1, <1>2, <1>4
<1>9. log' \in [1 .. Len(log) -> Ops]
  BY <1>1, <1>2, <1>4, <1>6
<1>10. log' \in Seq(Ops)
  BY <1>2, <1>9, SeqDef
<1> QED
  BY <1>1, <1>2, <1>7, <1>8, <1>10

\* Nodes that are not rendered have the row that they had, or a value under the old name.
Untouched(op, x, nodes) ==
  \A n \in Nodes \ nodes :
    \/ x.db.rows[n] = db.rows[n]
    \/ op.tool = "rename-global-field" /\ db.rows[n][op.from] # NoValue

\* An operation is taken back.
LEMMA UndoneGood ==
  ASSUME SchemasInv, NEW i \in DOMAIN log, log' = [log EXCEPT ![i].status = "undone"],
         NEW x \in Worlds, x.vault = vault, NEW todo \in SUBSET Nodes, NEW values,
         NEW w, Mutates(x, w, todo, values, "undo"), w.ok,
         NEW c, CatalogBack(w, c, log[i]),
         NEW nodes \in SUBSET Nodes, todo \subseteq nodes, Untouched(log[i], x, nodes),
         NEW z, Restores(c, z, nodes), OperationBack(i, w.db), Reply("undo", i, z)
  PROVE  GoodStep
<1> DEFINE op == log[i]
<1>1. /\ db' = z.db /\ vault' = z.vault /\ edits' = edits
      /\ answer'.tool = "undo" /\ answer'.name = i
  BY DEF Reply
<1>2. answer'.ok = z.ok
  BY DEF Reply
<1>3. /\ z \in Worlds /\ z.db = c.db /\ z.vault.catalog = c.vault.catalog /\ z.ok = c.ok
  BY DEF Restores
<1>4. /\ c \in Worlds /\ SameCatalog(c.db, w.db) /\ SameNodes(w, c) /\ c.ok = w.ok
      /\ Marked(c.db, c.vault) /\ (Clean(db, vault) => Clean(c.db, c.vault))
      /\ EditedBut(c.vault, op) /\ (Unreused(op) => Followed(c.db, c.vault))
  BY DEF CatalogBack
<1>5. w \in Worlds /\ w.vault = vault /\ \A n \in Nodes \ todo : w.db.rows[n] = x.db.rows[n]
  BY UndoneNodes
<1>6. answer'.ok
  BY <1>2, <1>3, <1>4
<1>7. log' \in Seq(Ops) /\ \A j \in DOMAIN log' : Recorded(log'[j])
  BY UndoneLog
<1>8. z.db \in SoundDBs /\ z.vault \in Vaults
  BY <1>3 DEF Worlds
<1>9. Marked(z.db, z.vault) /\ (Clean(db, vault) => Clean(z.db, z.vault))
  BY <1>3, <1>4 DEF Marked, Clean
<1>10. SchemasInv'
  BY <1>1, <1>7, <1>8, <1>9, InvAfter DEF SchemasInv
<1>11. OldName = IF op.tool = "rename-global-field" THEN {op.from} ELSE {}
  BY <1>1 DEF OldName
<1>12. KeepsEdited
  BY <1>1, <1>3, <1>4 DEF KeepsEdited, EditedBut
<1>13. FollowsCatalog
  <2> SUFFICES ASSUME \A f \in OldName : db.fields[f] = NoField
               PROVE  Followed(z.db, z.vault)
    BY <1>1 DEF FollowsCatalog, Followed
  <2>1. Unreused(op)
    BY <1>11 DEF Unreused
  <2> QED
    BY <1>3, <1>4, <2>1 DEF Followed
<1>14. FollowsRows
  <2> SUFFICES ASSUME NEW n \in Nodes, vault.notes[n] = db.rows[n], Canonical(z.db, n)
               PROVE  z.vault.notes[n] = z.db.rows[n] \/ \E f \in OldName : db.rows[n][f] # NoValue
    BY <1>1 DEF FollowsRows
  <2>1. CASE n \in nodes
    <3>1. z.vault.notes[n] = Validate(Context(z.db), Types[n], z.db.rows[n], TRUE).state
      BY <1>3, <2>1, Zenon DEF Restores
    <3> QED
      BY <3>1, Zenon DEF Canonical
  <2>2. CASE n \notin nodes
    <3>1. z.vault.notes[n] = vault.notes[n]
      BY <1>4, <1>5, <2>2 DEF Restores, SameNodes
    <3>2. z.db.rows[n] = x.db.rows[n]
      BY <1>3, <1>4, <1>5, <2>2 DEF SameNodes
    <3>3. \/ x.db.rows[n] = db.rows[n]
          \/ op.tool = "rename-global-field" /\ db.rows[n][op.from] # NoValue
      BY <2>2 DEF Untouched
    <3> QED
      BY <1>11, <3>1, <3>2, <3>3
  <2> QED
    BY <2>1, <2>2
<1>15. z.db.rows = w.db.rows /\ SameCatalog(z.db, w.db)
  BY <1>3, <1>4 DEF SameNodes
<1>16. RestoresOperation
  <2> SUFFICES ASSUME Intact(i)
               PROVE  /\ z.db.fields = op.was.fields /\ z.db.claims = op.was.claims
                      /\ ValuesBack(op, z.db)
    BY <1>1 DEF RestoresOperation, Intact, ValuesBack, UnownedIn
  <2>1. SameCatalog(w.db, op.was) /\ ValuesBack(op, w.db)
    BY DEF OperationBack
  <2> QED
    BY <1>15, <2>1 DEF SameCatalog, ValuesBack
<1>17. Rejects /\ AcceptsFitting /\ KeepsValues
  BY <1>1, <1>6 DEF Rejects, AcceptsFitting, KeepsValues
<1> QED
  BY <1>10, <1>12, <1>13, <1>14, <1>16, <1>17 DEF GoodStep

\* The worlds of an undo: the catalog is put back, then the nodes, then the files.
Outer(op) ==
  CASE OfSchema(op) -> RestoreSchema(Here, op)
    [] OfField(op)  -> RestoreGlobalField(Here, op)
    [] OTHER        -> Here

Inner(i, outer, reverted) ==
  IF outer.ok THEN Mutate(outer, Todo(i, reverted), Before(i, Todo(i, reverted)), "undo") ELSE outer

UndoneTo(i, z) == log' = [log EXCEPT ![i].status = "undone"] /\ Reply("undo", i, z)

LEMMA UndoOperationIs ==
  ASSUME NEW i \in DOMAIN log, NEW reverted, UndoOperation(i, reverted),
         NEW outer, outer = Outer(log[i]), NEW w, w = Inner(i, outer, reverted)
  PROVE  \/ Rejected("undo", i, Here)
         \/ /\ outer.ok /\ w.ok /\ w = Mutate(outer, Todo(i, reverted), Before(i, Todo(i, reverted)), "undo")
            /\ UndoneTo(i, RestoreFiles(w, log[i], db, Todo(i, reverted)))
<1>1. IF w.ok THEN /\ log' = [log EXCEPT ![i].status = "undone"]
                   /\ Reply("undo", i, RestoreFiles(w, log[i], db, Todo(i, reverted)))
      ELSE Rejected("undo", i, Here)
  BY Zenon DEF UndoOperation, Outer, Inner, Todo, Before
<1>2. w.ok => outer.ok
  BY DEF Inner
<1>3. outer.ok => w = Mutate(outer, Todo(i, reverted), Before(i, Todo(i, reverted)), "undo")
  BY DEF Inner
<1> QED
  BY <1>1, <1>2, <1>3 DEF UndoneTo

LEMMA PutBack ==
  ASSUME SchemasInv, NEW i \in DOMAIN log, NEW reverted, NEW outer \in Worlds,
         NEW w, w = Mutate(outer, Todo(i, reverted), Before(i, Todo(i, reverted)), "undo")
  PROVE  Mutates(outer, w, Todo(i, reverted), Before(i, Todo(i, reverted)), "undo")
<1> DEFINE todo == Todo(i, reverted)
           values == Before(i, todo)
<1>1. log[i].snaps \in Snaps
  BY ElementOfSeq, LenProperties, OpsAre DEF SchemasInv
<1>2. todo \in SUBSET Nodes /\ \A n \in todo : log[i].snaps[n] # Nothing
  BY DEF Todo
<1>3. \A n \in todo : values[n] = log[i].snaps[n].was
  BY DEF Before
<1>4. \A n \in todo : log[i].snaps[n] \in [was : NodeValues, post : NodeValues]
  BY <1>1, <1>2 DEF Snaps
<1> HIDE DEF todo, values
<1>5. \A n \in todo : values[n] \in NodeValues
  BY <1>3, <1>4
<1>6. w = Mutate(outer, todo, values, "undo")
  BY DEF todo, values
<1>7. Mutates(outer, w, todo, values, "undo")
  BY <1>2, <1>5, <1>6, MutateDoes
<1> QED
  BY <1>7 DEF todo, values

\* The catalog files after an undo, and the nodes whose files are rendered.
CatalogAfter(w, op) ==
  CASE op.tool = "create-schema" -> [w EXCEPT !.vault.catalog[op.name] = NoFile]
    [] op.tool # "create-schema" /\ OfSchema(op) -> RenderFile(w, op.name)
    [] OfField(op) -> RenderFiles(w, {Catalog} \cup Claiming(op.was, op.from) \cup Claiming(db, op.name))
    [] OTHER -> w

HeldThenOrNow(op) ==
  IF ~OfField(op) THEN {}
  ELSE Holding(db, op.name) \cup
       (IF op.tool = "create-global-field" THEN {} ELSE Holding(op.was, op.from))

LEMMA RestoreFilesDoes ==
  ASSUME NEW op, NEW w, NEW todo \in SUBSET Nodes, CatalogAfter(w, op) \in Worlds,
         NEW z, z = RestoreFiles(w, op, db, todo)
  PROVE  /\ Restores(CatalogAfter(w, op), z, HeldThenOrNow(op) \cup todo)
         /\ HeldThenOrNow(op) \cup todo \in SUBSET Nodes
<1>1. z = RenderRestoredNodes(CatalogAfter(w, op), HeldThenOrNow(op) \cup todo)
  BY Zenon DEF RestoreFiles, CatalogAfter, HeldThenOrNow
<1>2. HeldThenOrNow(op) \cup todo \in SUBSET Nodes
  BY DEF HeldThenOrNow, Holding
<1>3. PICK nodes : nodes = HeldThenOrNow(op) \cup todo
  OBVIOUS
<1> QED
  BY <1>1, <1>2, <1>3, RenderRestoredNodesDoes

\* The three kinds of operations are told by their names.
LEMMA KindsTold ==
  ASSUME NEW op
  PROVE  /\ SchemaRecord(op) => OfSchema(op) /\ ~OfField(op)
         /\ FieldRecord(op) => OfField(op) /\ ~OfSchema(op) /\ op.tool # "create-schema"
         /\ NodeRecord(op) => ~OfField(op) /\ ~OfSchema(op) /\ op.tool # "create-schema"
BY SchemaConstants DEF SchemaRecord, FieldRecord, NodeRecord, OfSchema, OfField, FieldTools

\* What is left, once the catalog and the files of the catalog are put back.
LEMMA UndoCompleted ==
  ASSUME SchemasInv, NEW i \in DOMAIN log, NEW reverted \in SUBSET Nodes,
         NEW outer \in Worlds, outer.vault = vault,
         NEW w, Mutates(outer, w, Todo(i, reverted), Before(i, Todo(i, reverted)), "undo"), w.ok,
         CatalogBack(w, CatalogAfter(w, log[i]), log[i]), OperationBack(i, w.db),
         Untouched(log[i], outer, HeldThenOrNow(log[i]) \cup Todo(i, reverted)),
         UndoneTo(i, RestoreFiles(w, log[i], db, Todo(i, reverted)))
  PROVE  GoodStep
<1> DEFINE todo == Todo(i, reverted)
           values == Before(i, todo)
           op == log[i]
           c == CatalogAfter(w, op)
           nodes == HeldThenOrNow(op) \cup todo
           z == RestoreFiles(w, op, db, todo)
<1>1. todo \in SUBSET Nodes
  BY DEF Todo
<1>2. Mutates(outer, w, todo, values, "undo") /\ UndoneTo(i, z) /\ Untouched(op, outer, nodes)
  OBVIOUS
<1>3. c \in Worlds /\ CatalogBack(w, c, op)
  BY DEF CatalogBack
<1> HIDE DEF todo, values
<1>4. Restores(c, z, nodes) /\ nodes \in SUBSET Nodes
  BY <1>1, <1>3, RestoreFilesDoes
<1>5. todo \subseteq nodes
  OBVIOUS
<1>6. log' = [log EXCEPT ![i].status = "undone"] /\ Reply("undo", i, z)
  BY <1>2 DEF UndoneTo
<1> HIDE DEF c, nodes, z
<1> QED
  BY <1>1, <1>2, <1>3, <1>4, <1>5, <1>6, UndoneGood

LEMMA SchemaUndone ==
  ASSUME SchemasInv, NEW i \in DOMAIN log, SchemaRecord(log[i]), NEW reverted \in SUBSET Nodes,
         UndoOperation(i, reverted)
  PROVE  GoodStep
<1> DEFINE op == log[i]
           outer == Outer(op)
           w == Inner(i, outer, reverted)
           todo == Todo(i, reverted)
           values == Before(i, todo)
<1>1. op \in Ops
  BY ElementOfSeq, LenProperties DEF SchemasInv
<1>2. CASE Rejected("undo", i, Here)
  BY <1>2, RefusedAtOnce
<1>3. CASE /\ outer.ok /\ w.ok /\ w = Mutate(outer, todo, values, "undo")
           /\ UndoneTo(i, RestoreFiles(w, op, db, todo))
  <2>1. outer = RestoreSchema(Here, op)
    BY KindsTold DEF Outer
  <2> HIDE DEF outer, w
  <2>2. SchemaBack(op, outer)
    BY <1>1, <1>3, <2>1, SchemaComesBack
  <2>3. outer \in Worlds /\ outer.vault = vault /\ outer.db.rows = db.rows /\ outer.db.hash = db.hash
    BY <2>2 DEF SchemaBack
  <2>4. Mutates(outer, w, todo, values, "undo")
    BY <1>3, <2>3, PutBack
  <2>5. CatalogBack(w, CatalogAfter(w, op), op)
    <3>1. CASE op.tool = "create-schema"
      <4>1. CatalogAfter(w, op) = [w EXCEPT !.vault.catalog[op.name] = NoFile]
        BY <3>1, KindsTold DEF CatalogAfter
      <4> HIDE DEF op, values, todo
      <4> QED
        BY <1>1, <2>2, <2>4, <3>1, <4>1, CreatedCatalogBack DEF op
    <3>2. CASE op.tool # "create-schema"
      <4>1. CatalogAfter(w, op) = RenderFile(w, op.name)
        BY <3>2, KindsTold DEF CatalogAfter
      <4> QED
        BY <1>1, <2>2, <2>4, <3>2, <4>1, SchemaCatalogBack
    <3> QED
      BY <3>1, <3>2
  <2>6. Untouched(op, outer, HeldThenOrNow(op) \cup todo)
    BY <2>3 DEF Untouched
  <2>7. OperationBack(i, w.db)
    <3> SUFFICES ASSUME Intact(i)
                 PROVE  SameCatalog(w.db, op.was) /\ ValuesBack(op, w.db)
      BY DEF OperationBack
    <3>1. SameCatalog(outer.db, op.was)
      BY <2>2, SchemaRestored
    <3>2. SameCatalog(w.db, outer.db)
      BY <2>3, <2>4, UndoneNodes
    <3>3. Snapped(op)
      BY DEF SchemaRecord
    <3>4. ValuesBack(op, w.db)
      BY <1>3, <2>3, <2>4, <3>1, <3>3, SnapsRestored
    <3> QED
      BY <3>1, <3>2, <3>4 DEF SameCatalog
  <2> QED
    BY <1>3, <2>3, <2>4, <2>5, <2>6, <2>7, UndoCompleted
<1>4. \/ Rejected("undo", i, Here)
      \/ /\ outer.ok /\ w.ok /\ w = Mutate(outer, todo, values, "undo")
         /\ UndoneTo(i, RestoreFiles(w, op, db, todo))
  BY UndoOperationIs
<1> QED
  BY <1>2, <1>3, <1>4

LEMMA NodeUndone ==
  ASSUME SchemasInv, NEW i \in DOMAIN log, NodeRecord(log[i]), NEW reverted \in SUBSET Nodes,
         UndoOperation(i, reverted)
  PROVE  GoodStep
<1> DEFINE op == log[i]
           outer == Outer(op)
           w == Inner(i, outer, reverted)
           todo == Todo(i, reverted)
           values == Before(i, todo)
<1>1. CASE Rejected("undo", i, Here)
  BY <1>1, RefusedAtOnce
<1>2. CASE /\ outer.ok /\ w.ok /\ w = Mutate(outer, todo, values, "undo")
           /\ UndoneTo(i, RestoreFiles(w, op, db, todo))
  <2>1. outer = Here
    BY KindsTold DEF Outer
  <2> HIDE DEF outer, w
  <2>2. outer \in Worlds /\ outer.vault = vault /\ outer.db = db
    BY <2>1, NowTyped
  <2>3. Mutates(outer, w, todo, values, "undo")
    BY <1>2, <2>2, PutBack
  <2>4. CatalogBack(w, CatalogAfter(w, op), op)
    <3>1. CatalogAfter(w, op) = w
      BY KindsTold DEF CatalogAfter
    <3> QED
      BY <2>1, <2>3, <3>1, NodeCatalogBack
  <2>5. Untouched(op, outer, HeldThenOrNow(op) \cup todo)
    BY <2>2 DEF Untouched
  <2>6. OperationBack(i, w.db)
    <3> SUFFICES ASSUME Intact(i)
                 PROVE  SameCatalog(w.db, op.was) /\ ValuesBack(op, w.db)
      BY DEF OperationBack
    <3>1. SameCatalog(outer.db, op.was)
      BY <2>2 DEF Intact, NodeRecord, SameCatalog
    <3>2. SameCatalog(w.db, outer.db)
      BY <2>2, <2>3, UndoneNodes
    <3>3. Snapped(op)
      BY DEF NodeRecord
    <3>4. ValuesBack(op, w.db)
      BY <1>2, <2>2, <2>3, <3>1, <3>3, SnapsRestored
    <3> QED
      BY <3>1, <3>2, <3>4 DEF SameCatalog
  <2> QED
    BY <1>2, <2>2, <2>3, <2>4, <2>5, <2>6, UndoCompleted
<1>3. \/ Rejected("undo", i, Here)
      \/ /\ outer.ok /\ w.ok /\ w = Mutate(outer, todo, values, "undo")
         /\ UndoneTo(i, RestoreFiles(w, op, db, todo))
  BY UndoOperationIs
<1> QED
  BY <1>1, <1>2, <1>3

LEMMA FieldUndone ==
  ASSUME SchemasInv, NEW i \in DOMAIN log, FieldRecord(log[i]), NEW reverted \in SUBSET Nodes,
         UndoOperation(i, reverted)
  PROVE  GoodStep
<1> DEFINE op == log[i]
           outer == Outer(op)
           w == Inner(i, outer, reverted)
           todo == Todo(i, reverted)
           values == Before(i, todo)
<1>1. op \in Ops
  BY ElementOfSeq, LenProperties DEF SchemasInv
<1>2. CASE Rejected("undo", i, Here)
  BY <1>2, RefusedAtOnce
<1>3. CASE /\ outer.ok /\ w.ok /\ w = Mutate(outer, todo, values, "undo")
           /\ UndoneTo(i, RestoreFiles(w, op, db, todo))
  <2>1. outer = RestoreGlobalField(Here, op)
    BY KindsTold DEF Outer
  <2> HIDE DEF outer, w
  <2>2. FieldBack(op, outer)
    BY <1>1, <1>3, <2>1, FieldComesBack
  <2>3. outer \in Worlds /\ outer.vault = vault
    BY <2>2 DEF FieldBack
  <2>4. Mutates(outer, w, todo, values, "undo")
    BY <1>3, <2>3, PutBack
  <2>5. CatalogBack(w, CatalogAfter(w, op), op)
    <3>1. CatalogAfter(w, op) = RenderFiles(w, {Catalog} \cup Claiming(op.was, op.from) \cup Claiming(db, op.name))
      BY KindsTold DEF CatalogAfter
    <3> QED
      BY <1>1, <2>2, <2>4, <3>1, FieldCatalogBack
  <2>6. Untouched(op, outer, HeldThenOrNow(op) \cup todo)
    <3> DEFINE nodes == HeldThenOrNow(op) \cup todo
    <3> SUFFICES ASSUME NEW n \in Nodes \ nodes,
                        ~(op.tool = "rename-global-field" /\ db.rows[n][op.from] # NoValue)
                 PROVE  outer.db.rows[n] = db.rows[n]
      BY DEF Untouched
    <3>1. OfField(op) /\ op.name \in FieldNames /\ op.from \in FieldNames
          /\ (op.tool # "rename-global-field" => op.from = op.name)
      BY KindsTold DEF FieldRecord
    <3>2. db.rows[n][op.name] = NoValue
          /\ (op.tool # "create-global-field" => op.was.rows[n][op.from] = NoValue)
      BY <3>1 DEF HeldThenOrNow, Holding
    <3>3. db.rows[n][op.from] = NoValue
      BY <3>1, <3>2
    <3>4. FieldsBack(op, outer.db)
      BY <2>2 DEF FieldBack
    <3>5. \A h \in FieldNames : outer.db.rows[n][h] = db.rows[n][h]
      <4> SUFFICES ASSUME NEW h \in FieldNames
                   PROVE  outer.db.rows[n][h] = db.rows[n][h]
        OBVIOUS
      <4>1. CASE h \notin {op.name, op.from}
        BY <3>4, <4>1 DEF FieldsBack
      <4>2. CASE h = op.from /\ op.tool # "create-global-field"
        BY <3>2, <3>3, <3>4, <4>2 DEF FieldsBack
      <4>3. CASE h = op.name /\ (op.tool = "create-global-field" \/ op.name # op.from)
        BY <3>2, <3>4, <4>3 DEF FieldsBack
      <4> QED
        BY <3>1, <4>1, <4>2, <4>3
    <3>6. outer.db.rows[n] \in [FieldNames -> Values] /\ db.rows[n] \in [FieldNames -> Values]
      BY <2>3, WorldParts, NowTyped, NodesTyped DEF NodeValues
    <3> QED
      BY <3>5, <3>6
  <2>7. OperationBack(i, w.db)
    <3> SUFFICES ASSUME Intact(i)
                 PROVE  SameCatalog(w.db, op.was) /\ ValuesBack(op, w.db)
      BY DEF OperationBack
    <3>1. SameCatalog(outer.db, op.was) /\ ValuesBack(op, outer.db)
      BY <2>2, FieldRestored
    <3>2. todo = {}
      <4>1. op.snaps = NoSnaps
        BY DEF FieldRecord
      <4> QED
        BY <4>1 DEF Todo, NoSnaps
    <3>3. SameCatalog(w.db, outer.db) /\ \A n \in Nodes : w.db.rows[n] = outer.db.rows[n]
      BY <2>3, <2>4, <3>2, UndoneNodes
    <3> QED
      BY <3>1, <3>3 DEF SameCatalog, ValuesBack
  <2> QED
    BY <1>3, <2>3, <2>4, <2>5, <2>6, <2>7, UndoCompleted
<1>4. \/ Rejected("undo", i, Here)
      \/ /\ outer.ok /\ w.ok /\ w = Mutate(outer, todo, values, "undo")
         /\ UndoneTo(i, RestoreFiles(w, op, db, todo))
  BY UndoOperationIs
<1> QED
  BY <1>2, <1>3, <1>4

LEMMA UndoGood ==
  ASSUME SchemasInv, NEW i \in DOMAIN log, NEW reverted \in SUBSET Nodes, UndoOperation(i, reverted)
  PROVE  GoodStep
<1>1. Recorded(log[i])
  BY DEF SchemasInv
<1> QED
  BY <1>1, SchemaUndone, FieldUndone, NodeUndone DEF Recorded

-----------------------------------------------------------------------------
(* Every step is a good one. *)

LEMMA InitSchemas == Init => SchemasInv
<1> SUFFICES ASSUME Init PROVE SchemasInv
  OBVIOUS
<1> DEFINE due == {file \in CatalogFiles : file = Catalog \/ Start.claims[file] # NoSchema}
           bare == [fields |-> Start.fields, claims |-> Start.claims, rows |-> Start.rows,
                    hash |-> Start.rows, marks |-> [file \in CatalogFiles |-> NoHash]]
<1>1. /\ db = [fields |-> Start.fields, claims |-> Start.claims, rows |-> Start.rows, hash |-> Start.rows,
               marks |-> [file \in CatalogFiles |->
                  IF file = Catalog \/ Start.claims[file] # NoSchema THEN Rendered(Start, file) ELSE NoHash]]
      /\ vault = [notes |-> Start.rows,
                  catalog |-> [file \in CatalogFiles |-> IF db.marks[file] = NoHash THEN NoFile ELSE db.marks[file]]]
      /\ log = <<>> /\ edits = 0
  BY DEF Init
<1>2. /\ Start.fields \in [FieldNames -> FieldDefs \cup {NoField}] /\ Start.rows \in Rows
      /\ Start.claims = [s \in SchemaNames |-> Start.claims[s]]
      /\ \A s \in SchemaNames : \/ Start.claims[s] = NoSchema
                               \/ \E S \in SUBSET {f \in FieldNames : Start.fields[f] # NoField} :
                                    Start.claims[s] \in ClaimsOf(S)
  BY SchemaConstants
<1>3. ASSUME NEW s \in SchemaNames, Start.claims[s] # NoSchema
      PROVE  Start.claims[s] \in ClaimSets /\ \A f \in DOMAIN Start.claims[s] : Start.fields[f] # NoField
  <2>1. PICK S \in SUBSET {f \in FieldNames : Start.fields[f] # NoField} : Start.claims[s] \in ClaimsOf(S)
    BY <1>2, <1>3
  <2>2. DOMAIN Start.claims[s] = S
    BY <2>1 DEF ClaimsOf
  <2> QED
    BY <2>1, <2>2 DEF ClaimSets
<1> HIDE DEF bare
<1>4. bare.fields = Start.fields /\ bare.claims = Start.claims /\ SameCatalog(bare, Start)
  BY DEF bare, SameCatalog
<1>5. bare \in SoundDBs
  <2>1. Start.claims = [s \in SchemaNames |-> Start.claims[s]]
    BY <1>2
  <2>2. Start.claims \in [SchemaNames -> ClaimSets \cup {NoSchema}]
    BY <1>3, <2>1
  <2>3. bare \in DBs
    BY <1>2, <2>2 DEF bare, DBs
  <2>4. OwnedBy(Start.fields, Start.claims)
    BY <1>3 DEF OwnedBy
  <2>5. Owned(bare)
    BY <1>2, <1>4, <2>2, <2>4, OwnedIs
  <2> QED
    BY <2>3, <2>5 DEF SoundDBs
<1>6. SameCatalog(db, bare)
  BY <1>1, <1>4 DEF SameCatalog
<1>7. \A file \in due : Rendered(Start, file) \in Renderings
  BY <1>4, <1>5, SameCatalogSame, RenderedTyped
<1>8. \A file \in CatalogFiles : db.marks[file] = IF file \in due THEN Rendered(Start, file) ELSE NoHash
  BY <1>1
<1>9. db.marks \in [CatalogFiles -> Renderings \cup {NoHash}]
  BY <1>1, <1>7
<1>10. db \in SoundDBs
  <2>1. Owned(db)
    BY <1>5, <1>6, SameCatalogSame DEF SoundDBs
  <2>2. db \in DBs
    BY <1>1, <1>4, <1>5, <1>9 DEF SoundDBs, DBs, bare
  <2> QED
    BY <2>1, <2>2 DEF SoundDBs
<1>11. vault \in Vaults
  BY <1>1, <1>2, <1>9 DEF Vaults
<1>12. \A file \in CatalogFiles : vault.catalog[file] = IF db.marks[file] = NoHash THEN NoFile ELSE db.marks[file]
  BY <1>1
<1>13. Marked(db, vault)
  BY <1>12 DEF Marked
<1>14. Clean(db, vault)
  <2> SUFFICES ASSUME NEW s \in SchemaNames
               PROVE  IF db.claims[s] = NoSchema THEN db.marks[s] = NoHash /\ vault.catalog[s] = NoFile
                      ELSE db.marks[s] = vault.catalog[s] /\ db.marks[s] # NoHash
    BY DEF Clean
  <2>1. s \in CatalogFiles /\ s # Catalog /\ db.claims = Start.claims
    BY <1>1, MarkersDiffer DEF CatalogFiles
  <2> QED
    BY <1>7, <1>8, <1>12, <2>1, MarkersDiffer
<1>15. log \in Seq(Ops) /\ \A i \in DOMAIN log : Recorded(log[i])
  BY <1>1, EmptySeq, LenProperties
<1> QED
  BY <1>1, <1>10, <1>11, <1>13, <1>14, <1>15 DEF SchemasInv

LEMMA NextGood ==
  ASSUME SchemasInv, Next
  PROVE  GoodStep
<1>1. CASE \E s \in SchemaNames, c \in ClaimInputs : CreateSchema(s, c)
  BY <1>1, CreateSchemaGood
<1>2. CASE \E s \in SchemaNames, c \in ClaimInputs : UpdateSchema(s, c)
  BY <1>2, UpdateSchemaGood
<1>3. CASE \E s \in SchemaNames : DeleteSchema(s)
  BY <1>3, DeleteSchemaGood
<1>4. CASE \E f \in FieldNames, def \in FieldInputs : CreateGlobalField(f, def)
  BY <1>4, CreateGlobalFieldGood
<1>5. CASE \E f \in FieldNames, def \in FieldInputs, confirmed \in BOOLEAN : UpdateDefinition(f, def, confirmed)
  BY <1>5, UpdateDefinitionGood
<1>6. CASE \E f \in FieldNames, def \in FieldInputs, discard \in BOOLEAN : ChangeFieldType(f, def, discard)
  BY <1>6, ChangeFieldTypeGood
<1>7. CASE \E f, g \in FieldNames : RenameGlobalField(f, g)
  BY <1>7, RenameGlobalFieldGood
<1>8. CASE \E f \in FieldNames : DeleteGlobalField(f)
  BY <1>8, DeleteGlobalFieldGood
<1>9. CASE \E n \in Nodes, f \in FieldNames, v \in ValueInputs \cup {NoValue} : SetField(n, f, v)
  BY <1>9, SetFieldGood
<1>10. CASE \E i \in DOMAIN log, reverted \in SUBSET Nodes : UndoOperation(i, reverted)
  BY <1>10, UndoGood
<1>11. CASE \E file \in CatalogFiles : \E content \in {Edited, NoFile, db.marks[file]} : EditCatalog(file, content)
  BY <1>11, EditCatalogGood
<1>12. CASE Startup
  BY <1>12, StartupGood
<1>13. CASE \E n \in Nodes : ProcessFileChange(n)
  BY <1>13, ProcessFileChangeGood
<1> QED
  BY <1>1, <1>2, <1>3, <1>4, <1>5, <1>6, <1>7, <1>8, <1>9, <1>10, <1>11, <1>12, <1>13 DEF Next

LEMMA StepGood ==
  ASSUME SchemasInv, [Next]_vars
  PROVE  SchemasInv' /\ (GoodStep \/ UNCHANGED vars)
<1>1. CASE Next
  BY <1>1, NextGood DEF GoodStep
<1>2. CASE UNCHANGED vars
  BY <1>2 DEF vars, SchemasInv, Marked, Clean, Recorded
<1> QED
  BY <1>1, <1>2

\* The inductive invariant: databases, files and the log are of their types; every claim is one of a
\* field that exists; every operation in the log says what it did; a catalog file is what was
\* rendered last, unless a user changed it.
THEOREM SchemasInductive == Spec => []SchemasInv
<1>1. SchemasInv /\ [Next]_vars => SchemasInv'
  BY StepGood
<1> QED
  BY <1>1, InitSchemas, PTL DEF Spec

\* Claims are on fields that exist, and schemas and their files come and go together as
\* long as no user touches the catalog, whatever is created, changed, deleted and taken back.
THEOREM ClaimsAreOwned == Spec => []SchemasTypeOK
<1>1. SchemasInv => SchemasTypeOK
  <2> SUFFICES ASSUME SchemasInv PROVE SchemasTypeOK
    OBVIOUS
  <2>1. Owned(db)
    BY NowTyped
  <2>2. \A n \in Nodes, f \in FieldNames : db.rows[n][f] \in Values /\ vault.notes[n][f] \in Values
    BY NowTyped, WorldParts DEF Rows
  <2> QED
    BY <2>1, <2>2 DEF SchemasTypeOK, SchemasInv, Owned, Clean
<1> QED
  BY <1>1, SchemasInductive, PTL

\* A refused call has changed nothing: update-schema looks at everything that its commit will do
\* before it writes, unless a node had a value that fits no more already.
THEOREM RefusalsLeaveNothing == Spec => RejectedChangesNothing
<1>1. SchemasInv /\ [Next]_vars => [Rejects]_vars
  BY StepGood DEF GoodStep
<1> QED
  BY <1>1, SchemasInductive, PTL DEF Spec, RejectedChangesNothing, Rejects

\* After an accepted change of its claims, the nodes of a schema fit.
THEOREM AcceptedNodesFit == Spec => AcceptedFits
<1>1. SchemasInv /\ [Next]_vars => [AcceptsFitting]_vars
  BY StepGood DEF GoodStep
<1> QED
  BY <1>1, SchemasInductive, PTL DEF Spec, AcceptedFits, AcceptsFitting

\* No call loses a value of a node but those that are meant to.
THEOREM ValuesAreKept == Spec => ValuesKept
<1>1. SchemasInv /\ [Next]_vars => [KeepsValues]_vars
  BY StepGood DEF GoodStep
<1> QED
  BY <1>1, SchemasInductive, PTL DEF Spec, ValuesKept, KeepsValues

\* A call that succeeds leaves no node with a file that says less or more than its row.
THEOREM FilesKeepUp == Spec => FilesFollowRows
<1>1. SchemasInv /\ [Next]_vars => [FollowsRows]_vars
  BY StepGood DEF GoodStep
<1> QED
  BY <1>1, SchemasInductive, PTL DEF Spec, FilesFollowRows, FollowsRows

\* What a user wrote into a catalog file stays.
THEOREM UserEditsStay == Spec => EditedCatalogKept
<1>1. SchemasInv /\ [Next]_vars => [KeepsEdited]_vars
  BY StepGood DEF GoodStep
<1> QED
  BY <1>1, SchemasInductive, PTL DEF Spec, EditedCatalogKept, KeepsEdited

\* A catalog file that said what the database says still does, after every call.
THEOREM CatalogKeepsUp == Spec => CatalogFollows
<1>1. SchemasInv /\ [Next]_vars => [FollowsCatalog]_vars
  BY StepGood DEF GoodStep
<1> QED
  BY <1>1, SchemasInductive, PTL DEF Spec, CatalogFollows, FollowsCatalog

\* Taking back an operation that nothing is in conflict with brings back schemas, fields and values.
THEOREM UndoBringsBack == Spec => UndoRestores
<1>1. SchemasInv /\ [Next]_vars => [RestoresOperation]_vars
  BY StepGood DEF GoodStep
<1> QED
  BY <1>1, SchemasInductive, PTL DEF Spec, UndoRestores, RestoresOperation
=============================================================================
