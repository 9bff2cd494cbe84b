---------------------------- MODULE FieldFilters ----------------------------
(***************************************************************************)
(* One custom field of one object, from its definition to the filters of a *)
(* query: the value and configuration rules of core-objects'               *)
(* field-type-registry.ts, field-commands.ts, field-value-commands.ts and  *)
(* field-permissions.ts, the operators of filter-operators.ts, and the SQL *)
(* that objects/query-builder.ts makes of a condition.                     *)
(*                                                                         *)
(* Types that differ in format only are one type: text stands for          *)
(* longText, url and email, number for currency, date for datetime.  A     *)
(* string is a sequence of characters, no character is a digit, and        *)
(* upper and lower case are the same.  title and time stand for the fixed  *)
(* columns, which are never empty.                                         *)
(***************************************************************************)
EXTENDS Integers, SequencesExt

CONSTANTS
  Char,       \* characters, wildcards and "\\" among them
  MaxLength,  \* bound: length of a string
  Number,     \* numbers, and moments in time
  Option,     \* strings that are options, or people
  MaxChanges  \* bound: updates of the definition

VARIABLES
  field,    \* the row of field_definitions for the key
  value,    \* the object's value for the key, in objects_view.field_values
  held,     \* the definition that the request under way has read
  changes   \* number of updates

vars == <<field, value, held, changes>>

Type == {"text", "number", "date", "checkbox", "select", "multiSelect", "people",
         "formula", "ai"}
Access == {"edit", "view", "hidden"}

NoField == [lifecycle |-> "none"]
NoObject == <<"no object">>
Missing == <<"missing">>
Null == <<"null">>
Nothing == [lifecycle |-> "unread"]

String == UNION {[1..n -> Char] : n \in 0..MaxLength}
Lists == SUBSET Option

\* JSON values; a date is a string that reads as one.
Texts == {<<"text", s>> : s \in String}
Numbers == {<<"number", n>> : n \in Number}
Dates == {<<"date", n>> : n \in Number}
YearZero == <<"year zero">>  \* a date of the year 0000: zod takes it, the database not
Booleans == {<<"boolean", b>> : b \in BOOLEAN}
Arrays == {<<"array", l>> : l \in Lists}
Failure == <<"error">>
Value == Texts \union Numbers \union Dates \union Booleans \union Arrays
           \union {YearZero, Null, Failure}

-------------------------------------------------------------------------------
\* The configurations validateFieldConfig accepts: bounds that are in order, a
\* choice of options, which for a model's answer is empty if that is a text.
Configs(type) ==
  CASE type = "number" -> {r \in Number \X Number : r[1] <= r[2]}
    [] type \in {"select", "multiSelect"} -> Lists \ {{}}
    [] type = "ai" -> Lists
    [] OTHER -> {{}}

\* validateFieldValue.
Fits(type, config, v) ==
  CASE type = "text" -> v \in Texts
    [] type = "number" -> v \in Numbers /\ config[1] <= v[2] /\ v[2] <= config[2]
    [] type = "date" -> v \in Dates \union {YearZero}
    [] type = "checkbox" -> v \in Booleans
    [] type = "select" -> v \in Texts /\ v[2] \in config
    [] type = "multiSelect" -> v \in Arrays /\ v[2] \subseteq config
    [] type = "people" -> v \in Arrays
    [] type = "formula" -> v \notin Dates \union {YearZero} \union Arrays
    [] type = "ai" -> v = Failure \/ (v \in Texts /\ (config = {} \/ v[2] \in config))

Computed(type) == type \in {"formula", "ai"}
CanView(access) == access # "hidden"
CanEdit(access) == access = "edit"

-------------------------------------------------------------------------------
TextLike == {"equals", "notEquals", "contains", "notContains", "isEmpty", "isNotEmpty"}
Numeric == {"equals", "notEquals", "gt", "gte", "lt", "lte", "between"}
Temporal == {"equals", "before", "after", "between", "isEmpty", "isNotEmpty"}
Select == {"equals", "notEquals", "in", "notIn"}
Operators == TextLike \union Numeric \union Temporal \union Select

\* What decides on operators and SQL: a type, or what a model answers with, or a
\* fixed column.
Kind == (Type \ {"ai"}) \union {"ai text", "ai select", "title", "time"}
KindOf(d) ==
  IF d.type # "ai" THEN d.type ELSE IF d.config = {} THEN "ai text" ELSE "ai select"

\* Compared as JSON: buildGenericScalarPredicate.
IsJson(kind) == kind \in {"formula", "ai text", "ai select"}

\* getValidOperatorsForField, and FIXED_COLUMN_OPERATORS.
ValidOperators(kind) ==
  CASE kind \in {"text", "ai text", "title"} -> TextLike
    [] kind = "number" -> Numeric
    [] kind \in {"date", "time"} -> Temporal
    [] kind = "checkbox" -> {"equals"}
    [] kind \in {"select", "ai select"} -> Select
    [] kind = "multiSelect" -> {"in", "notIn", "isEmpty", "isNotEmpty"}
    [] kind = "people" -> {"contains", "isEmpty", "isNotEmpty"}
    [] kind = "formula" -> {"equals", "notEquals", "isEmpty", "isNotEmpty"}

\* assertOperatorValueShape, and the assertions on the operand's type that the
\* predicates make: what is left of the operands a client may send, those the
\* database cannot read at all (a moment of the year 0000, a text with U+0000)
\* apart: they make every query fail, whatever the values.
Operands(kind, op) ==
  CASE op \in {"isEmpty", "isNotEmpty"} -> {"none"}
    [] op = "between" -> Number \X Number
    [] op \in {"in", "notIn"} -> Lists
    [] OTHER ->
         CASE kind \in {"number", "date", "time"} -> Number
           [] kind = "checkbox" -> BOOLEAN
           [] IsJson(kind) /\ op \in {"equals", "notEquals"} -> Value \ Arrays
           [] OTHER -> String

\* assertSortableField and sortKindForFieldType: what a column is cast to.
SortCast(kind) ==
  CASE kind \in {"number", "date"} -> kind
    [] kind = "checkbox" -> "boolean"
    [] kind \in {"text", "select"} -> "text"
    [] OTHER -> "not sortable"

-------------------------------------------------------------------------------
\* likePattern: backslashes are escaped first, then the wildcards.
Replaced(s, chars) ==
  FlattenSeq([i \in 1..Len(s) |-> IF s[i] \in chars THEN <<"\\", s[i]>> ELSE <<s[i]>>])
LikePattern(raw) == <<"%">> \o Replaced(Replaced(raw, {"\\"}), {"%", "_"}) \o <<"%">>

\* ILIKE: whether the rest of s after i characters matches the rest of the
\* pattern p after j.
Like(s, p) ==
  LET matches[i \in 0..Len(s), j \in 0..Len(p)] ==
        IF j = Len(p) THEN i = Len(s)
        ELSE IF p[j + 1] = "%"
        THEN matches[i, j + 1] \/ (i < Len(s) /\ matches[i + 1, j])
        ELSE /\ i < Len(s)
             /\ IF p[j + 1] = "\\" /\ j + 1 < Len(p)
                THEN s[i + 1] = p[j + 2] /\ matches[i + 1, j + 2]
                ELSE p[j + 1] \in {"_", s[i + 1]} /\ matches[i + 1, j + 1]
  IN  matches[0, 0]

\* SQL's truth: a comparison with NULL is unknown, a cast of a text that does not
\* read as the type makes the query fail.  A JSON null is NULL as a text only, so
\* that isEmpty does not hold of it, although the comment at fieldJsonbExpr says so.
Truth(b) == IF b THEN "yes" ELSE "no"
Not(t) == CASE t = "yes" -> "no" [] t = "no" -> "yes" [] OTHER -> t
IsNull(v) == v = Missing
TextIsNull(v) == v \in {Missing, Null}
Cast(v, kind, holds) ==
  IF TextIsNull(v) THEN "unknown"
  ELSE IF v[1] # kind THEN "fails"
  ELSE Truth(holds)

\* fieldTextExpr: the text of an object or an array is JSON.
TextOf(v) == IF v[1] = "text" THEN v[2] ELSE <<"{">>

Between(n, range) == range[1] <= n /\ n <= range[2]
Compare(op, n, x) ==
  CASE op = "equals" -> n = x
    [] op \in {"gt", "after"} -> n > x
    [] op = "gte" -> n >= x
    [] op \in {"lt", "before"} -> n < x
    [] op = "lte" -> n <= x
    [] op = "between" -> Between(n, x)

\* The operators that are the negation of another.
Negates(op) ==
  CASE op = "notEquals" -> "equals" [] op = "notContains" -> "contains"
    [] op = "notIn" -> "in" [] op = "isNotEmpty" -> "isEmpty" [] OTHER -> op

\* The predicates of the kinds, for the operators that negate none.  A list that
\* is empty is in SQL without the column.
Predicate(kind, op, x, v) ==
  IF op = "isEmpty" THEN Truth(kind \notin {"title", "time"} /\ IsNull(v))
  ELSE CASE kind = "number" -> Cast(v, "number", Compare(op, v[2], x))
         [] kind \in {"date", "time"} -> Cast(v, "date", Compare(op, v[2], x))
         [] kind = "checkbox" -> Cast(v, "boolean", v[2] = x)
         [] kind = "multiSelect" -> IF IsNull(v) THEN "unknown" ELSE Truth(v[2] \intersect x # {})
         [] kind = "people" -> IF IsNull(v) THEN "unknown" ELSE Truth(x \in v[2])
         [] OTHER ->
              IF IsJson(kind) /\ op = "equals"
                THEN IF IsNull(v) THEN "unknown" ELSE Truth(v = x)
              ELSE IF op = "in" /\ x = {} THEN "no"
              ELSE IF TextIsNull(v) THEN "unknown"
              ELSE CASE op = "equals" -> Truth(TextOf(v) = x)
                     [] op = "contains" -> Truth(Like(TextOf(v), LikePattern(x)))
                     [] op = "in" -> Truth(TextOf(v) \in x)

BuildFilterPredicate(kind, op, x, v) ==
  IF Negates(op) = op THEN Predicate(kind, op, x, v)
  ELSE Not(Predicate(kind, Negates(op), x, v))

-------------------------------------------------------------------------------
Init ==
  /\ field = NoField
  /\ value = NoObject
  /\ held = Nothing
  /\ changes = 0

\* assertFormulaFieldRules, assertAIFieldRules: a computed field has no default
\* and nobody edits it.
DefaultsOf(type, config) ==
  {Missing} \union (IF Computed(type) THEN {} ELSE {v \in Value : Fits(type, config, v)})
AccessOf(type) == IF Computed(type) THEN Access \ {"edit"} ELSE Access

\* A key stands for one field: assertKeyIsUnique counts archived ones.
Define(type) ==
  /\ field = NoField
  /\ \E config \in Configs(type), access \in AccessOf(type) :
       \E default \in DefaultsOf(type, config) :
         field' = [lifecycle |-> "active", type |-> type, config |-> config,
                   default |-> default, access |-> access]
  /\ UNCHANGED <<value, held, changes>>

\* updateField: a default that is given is checked, one that is kept is not.
Update ==
  /\ field.lifecycle = "active"
  /\ changes < MaxChanges
  /\ \E config \in Configs(field.type), access \in AccessOf(field.type) :
       \E default \in DefaultsOf(field.type, config) \union {field.default} :
         field' = [field EXCEPT !.config = config, !.default = default, !.access = access]
  /\ changes' = changes + 1
  /\ UNCHANGED <<value, held>>

Archive ==
  /\ field.lifecycle = "active"
  /\ field' = [field EXCEPT !.lifecycle = "archived"]
  /\ UNCHANGED <<value, held, changes>>

-------------------------------------------------------------------------------
\* A request reads the active definitions; what it does with them comes later.
ReadDefinitions ==
  /\ held = Nothing
  /\ held' = IF field.lifecycle = "active"
             THEN [lifecycle |-> "active", type |-> field.type,
                   config |-> field.config, access |-> field.access]
             ELSE NoField
  /\ UNCHANGED <<field, value, changes>>

Holds == held.lifecycle = "active"

\* createObject gives a new object the defaults, whatever configuration they were
\* checked under.
CreateObject ==
  /\ value = NoObject
  /\ value' = IF field.lifecycle = "active" THEN field.default ELSE Missing
  /\ UNCHANGED <<field, held, changes>>

\* setFieldValues, for an entry that is not refused.
SetFieldValue ==
  /\ value # NoObject
  /\ Holds
  /\ CanView(held.access) /\ ~Computed(held.type) /\ CanEdit(held.access)
  /\ \E v \in Value : Fits(held.type, held.config, v) /\ value' = v
  /\ held' = Nothing
  /\ UNCHANGED <<field, changes>>

\* A formula is recomputed, or the model asked.
Compute ==
  /\ value # NoObject
  /\ Holds
  /\ Computed(held.type)
  /\ \E v \in Value : Fits(held.type, held.config, v) /\ value' = v
  /\ held' = Nothing
  /\ UNCHANGED <<field, changes>>

\* A query is answered, or the request refused.
Answer ==
  /\ held # Nothing
  /\ held' = Nothing
  /\ UNCHANGED <<field, value, changes>>

Next ==
  \/ \E type \in Type : Define(type)
  \/ Update
  \/ Archive
  \/ ReadDefinitions
  \/ CreateObject
  \/ SetFieldValue
  \/ Compute
  \/ Answer

Spec == Init /\ [][Next]_vars

-------------------------------------------------------------------------------
TypeOK ==
  /\ field = NoField \/ (field.type \in Type /\ field.access \in Access)
  /\ value \in Value \union {NoObject, Missing}
  /\ held \in {Nothing, NoField} \/ held.type = field.type
  /\ changes \in 0..MaxChanges

\* What the query under way may filter by, with what it finds there: query refuses
\* a hidden field.  A title, or a moment, is one the field also had.
Filtered ==
  IF Holds /\ CanView(held.access) /\ value # NoObject
  THEN {[kind |-> KindOf(held), v |-> value]}
         \union [kind : {"title"}, v : {value} \intersect Texts]
         \union [kind : {"time"}, v : {value} \intersect Dates]
  ELSE {}

\* However the definition and the value have changed since a query read the
\* definitions, no condition it accepts and no sort makes the database fail on the
\* value, unless it is a date of the year 0000: a key never gets another type, and
\* the values of each type read as its SQL expects.
OnlyYearZeroFails ==
  \A f \in Filtered : f.v # YearZero =>
    /\ \A op \in ValidOperators(f.kind) : \A x \in Operands(f.kind, op) :
         BuildFilterPredicate(f.kind, op, x, f.v) # "fails"
    /\ TextIsNull(f.v) \/ SortCast(f.kind) \in {"not sortable", "text", f.v[1]}

\* An operator and its negation split the objects that have a value and leave out
\* the others, except that isEmpty splits them all and that every object, with or
\* without a value, is outside of an empty list of texts.
OppositesSplit ==
  \A f \in Filtered : \A op \in {o \in ValidOperators(f.kind) : Negates(o) # o} :
    \A x \in Operands(f.kind, op) :
      LET with == BuildFilterPredicate(f.kind, Negates(op), x, f.v)
          without == BuildFilterPredicate(f.kind, op, x, f.v)
      IN  IF op = "isNotEmpty" \/ ~TextIsNull(f.v) THEN {with, without} = {"yes", "no"}
          ELSE \/ with # "yes" /\ without # "yes"
               \/ op = "notIn" /\ x = {} /\ without = "yes"
               \/ IsJson(f.kind) /\ f.v = Null

\* contains looks for the text it is given, wildcards and backslashes included.
ContainsIsLiteral ==
  \A f \in Filtered : "contains" \in ValidOperators(f.kind) /\ f.v[1] = "text" =>
    \A x \in Operands(f.kind, "contains") :
      (BuildFilterPredicate(f.kind, "contains", x, f.v) = "yes")
        <=> \E i \in 0..(Len(f.v[2]) - Len(x)) : SubSeq(f.v[2], i + 1, i + Len(x)) = x
=============================================================================
