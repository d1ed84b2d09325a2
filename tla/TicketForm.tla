----------------------------- MODULE TicketForm -----------------------------
(***************************************************************************)
(* What a request form accepts (tickets/validation.py, catalog/rules.py)   *)
(* and the priority a ticket gets (TicketRepository.priority).             *)
(*                                                                         *)
(* A form version maps a field code to its layout: whether the field is    *)
(* required, the condition under which it applies, and what its type and   *)
(* its bounds make of a value.  An answer maps field codes to raw values;  *)
(* Blank stands for null, "" and [].  Abstracted: the types themselves (a  *)
(* type is the function "norm" from the raw values it accepts to their     *)
(* normal form) and the texts of the errors.                               *)
(***************************************************************************)
EXTENDS FiniteSets, Naturals

CONSTANTS
    Form,       \* the layout of one published request type version, by field code
    Matrix      \* the priority matrix rows in force

Blank == "blank"

\* Every type keeps the values it made: text without its outer blanks, a number without its
\* trailing zeros, a sorted list of options; a blank text is no value.
ASSUME FormAssumption ==
    \A code \in DOMAIN Form :
        LET norm == Form[code].norm
        IN  \A x \in DOMAIN norm :
                norm[x] # Blank => norm[x] \in DOMAIN norm /\ norm[norm[x]] = norm[x]

\* ConditionPredicate: equals and not_equals are the set operators on one value.
Predicate(field, operator, values) == [field |-> field, operator |-> operator, values |-> values]

\* ConditionalRule: exactly one group, never empty; no group at all is NoCondition.
Condition(group, predicates) == [group |-> group, predicates |-> predicates]
NoCondition == Condition("all", {})

\* _predicate_matches
PredicateMatches(p, actual) ==
    \/ p.operator = "is_empty" /\ actual = Blank
    \/ p.operator = "is_not_empty" /\ actual # Blank
    \/ p.operator = "in" /\ actual \in p.values
    \/ p.operator = "not_in" /\ actual \notin p.values

Given(raw, code) == IF code \in DOMAIN raw THEN raw[code] ELSE Blank

\* _condition_applies: it looks at the values as supplied, before any is normalized.
Applies(condition, raw) ==
    LET holds(p) == PredicateMatches(p, Given(raw, p.field))
    IN  IF condition.group = "all"
        THEN \A p \in condition.predicates : holds(p)
        ELSE \E p \in condition.predicates : holds(p)

Active(raw) == {code \in DOMAIN Form : Applies(Form[code].condition, raw)}

\* _normalize and _validate_bounds: a value of another type, an unknown or repeated option
\* and a value out of bounds are refused.
Acceptable(code, value) ==
    value \in DOMAIN Form[code].norm /\ Form[code].norm[value] \in Form[code].bounds

\* The fields validate_and_normalize reports.
Rejected(raw, complete) ==
    (DOMAIN raw \ DOMAIN Form)
    \cup {code \in DOMAIN raw \cap (DOMAIN Form \ Active(raw)) : raw[code] # Blank}
    \cup {code \in Active(raw) : IF Given(raw, code) = Blank
                                 THEN complete /\ Form[code].required
                                 ELSE ~Acceptable(code, raw[code])}

\* What it returns otherwise: every field that applies, in normal form.
Normalized(raw) ==
    [code \in Active(raw) |-> IF Given(raw, code) = Blank THEN Blank
                              ELSE Form[code].norm[raw[code]]]

\* persist_custom_values skips the fields without a value.
Persisted(values) == [code \in {c \in DOMAIN values : values[c] # Blank} |-> values[code]]

(***************************************************************************)
(* Priority: of the rows for an impact and urgency ("level"), those of the *)
(* closest scope (3 service, 2 project, 1 tenant, 0 global) and of these   *)
(* the first in evaluation order; two of them are a configuration error.   *)
(***************************************************************************)
MatrixRow(level, scope, order, code) ==
    [level |-> level, scope |-> scope, order |-> order, code |-> code]

Before(r, q) == r.scope > q.scope \/ (r.scope = q.scope /\ r.order < q.order)

FirstRows(level) ==
    LET candidates == {r \in Matrix : r.level = level}
    IN  {r \in candidates : \A q \in candidates : ~Before(q, r)}

HasPriority(level) == Cardinality(FirstRows(level)) = 1
Priority(level) == (CHOOSE r \in FirstRows(level) : TRUE).code

=============================================================================
