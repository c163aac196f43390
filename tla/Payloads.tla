------------------------------ MODULE Payloads ------------------------------
(***************************************************************************)
(* One field of an entry, from the JSON of a request to the column and     *)
(* back: validation (core-schema/src/payload.rs), what is written and read *)
(* (dynamic-store/src/value.rs), and the two writes, of which an update    *)
(* leaves out what the request leaves out (dynamic-store/src/dml.rs).      *)
(* Numbers are in tenths, and the integers of a column are of few bits.    *)
(***************************************************************************)
EXTENDS Integers, FiniteSets

CONSTANTS
    Width, \* bits of an INTEGER column
    Wide \* bits of a BIGINT column

VARIABLES
    attr, \* the attribute of the field
    stored, \* what the column has; before there is an entry, "none"
    given \* the value the last write was asked to write

vars == <<attr, stored, given>>

\* Of the constants.
PayloadsAssumption == Width \in 2..Wide /\ Wide \in 2..24

Structure(k) == [json |-> k, text |-> "", n |-> 0]
Absent == Structure("absent")
Null == Structure("null")
Number(n) == [json |-> "number", text |-> "", n |-> n]
Text(s) == [json |-> "string", text |-> s, n |-> 0]
Truth(b) == [json |-> "boolean", text |-> "", n |-> IF b THEN 1 ELSE 0]

\* Strings that stand for something else: a number, a truth value, a date, a time, an instant.
AsNumber == [s \in {"1", "0", "-3", "1.6", "big"} |->
                CASE s = "1" -> 10 [] s = "0" -> 0 [] s = "-3" -> -30 [] s = "1.6" -> 16 [] s = "big" -> 10 * 2 ^ (Width - 1)]
AsTruth == [s \in {"true", "false", "1", "0"} |-> s \in {"true", "1"}]
Texts == {"", "word", "longer", "yes", "true", "2026-01-31", "06:30", "06:30:00.000", "2026-01-31T06:30:00Z"} \cup DOMAIN AsNumber

Values ==
    {Absent, Null, Structure("object"), Structure("array"), Truth(TRUE), Truth(FALSE)}
    \cup {Number(AsNumber[s]) : s \in DOMAIN AsNumber} \cup {Text(s) : s \in Texts}

Numeric == {"integer", "biginteger", "decimal"}
Strings == {"string", "enumeration"}
Types == Numeric \cup Strings \cup {"boolean", "json", "date", "time", "datetime"}

NoDefault == Absent
Attributes ==
    {[type |-> t, required |-> r, limited |-> l, notNull |-> n, default |-> d] :
        t \in Types, r \in BOOLEAN, l \in BOOLEAN, n \in BOOLEAN, d \in {NoDefault, Text("word"), Number(10)}}

Cell(c, s, n) == [column |-> c, text |-> s, n |-> n]
None == Cell("none", "", 0)
Empty == Cell("NULL", "", 0)

Init ==
    \* A column is NOT NULL when its table was created with a required field.
    /\ attr \in {a \in Attributes : a.notNull => a.required}
    /\ stored = None /\ given = Absent

-----------------------------------------------------------------------------
(* Validation.  The limits of a limited field: a number of at least 1, a   *)
(* string of at most four characters, one word for an enumeration.         *)

HasType(t, v) ==
    CASE t \in Numeric -> v.json = "number" \/ v.text \in DOMAIN AsNumber
      [] t = "boolean" -> v.json = "boolean" \/ v.text \in DOMAIN AsTruth \cup {"yes"}
      [] t \in Strings \cup {"date", "time", "datetime"} -> v.json = "string"
      [] t = "json" -> v.json \in {"object", "array"}

Amount(v) == IF v.json = "number" THEN v.n ELSE AsNumber[v.text]

WithinLimits(t, v) ==
    CASE t \in Numeric -> Amount(v) >= 10
      [] t = "string" -> v.text \in {"", "word", "yes", "true"} \cup DOMAIN AsNumber
      [] t = "enumeration" -> v.text = "word"
      [] OTHER -> TRUE

\* A string of only spaces counts as missing, where a value is required.
Missing(v) == v \in {Absent, Null, Text("")}

Valid(v, enforceRequired) ==
    /\ attr.required /\ enforceRequired => ~Missing(v)
    /\ v \notin {Absent, Null} => HasType(attr.type, v) /\ (attr.limited => WithinLimits(attr.type, v))

-----------------------------------------------------------------------------
(* To a column, and back. *)

\* `as`: a Rust cast keeps the low bits, in two's complement.
Wrapped(n, bits) == ((n + 2 ^ (bits - 1)) % 2 ^ bits) - 2 ^ (bits - 1)

\* Half away from zero.
Rounded(n) == IF n >= 0 THEN (n + 5) \div 10 ELSE -((5 - n) \div 10)

Whole(v) == v.json = "number" \/ Amount(v) % 10 = 0

\* Whether a value that validation let through can be written, and what is then in the column.
Writable(t, v) ==
    CASE v = Null -> TRUE
      [] v # Null /\ t \in {"integer", "biginteger"} -> Whole(v)
      [] v # Null /\ t = "boolean" -> v.json = "boolean" \/ v.text \in DOMAIN AsTruth
      [] v # Null /\ t = "date" -> v.text = "2026-01-31"
      [] v # Null /\ t = "time" -> v.text \in {"06:30", "06:30:00.000"}
      [] v # Null /\ t = "datetime" -> v.text = "2026-01-31T06:30:00Z"
      [] OTHER -> TRUE

Written(t, v) ==
    CASE v = Null -> Empty
      [] v # Null /\ t = "integer" -> Cell("int", "", Wrapped(Rounded(Amount(v)), Width))
      [] v # Null /\ t = "biginteger" -> Cell("int", "", Wrapped(Rounded(Amount(v)), Wide))
      [] v # Null /\ t = "decimal" -> Cell("double", "", Amount(v))
      [] v # Null /\ t = "boolean" -> Cell("bool", "", IF v.json = "boolean" THEN v.n ELSE IF AsTruth[v.text] THEN 1 ELSE 0)
      [] v # Null /\ t = "time" -> Cell("time", "06:30", 0)
      [] v # Null /\ t = "json" -> Cell("json", v.json, 0)
      [] OTHER -> Cell(t, v.text, 0)

Read(c) ==
    CASE c.column \in {"none", "NULL"} -> Null
      [] c.column = "int" -> Number(10 * c.n)
      [] c.column = "double" -> Number(c.n)
      [] c.column = "bool" -> Truth(c.n = 1)
      [] c.column = "time" -> Text("06:30:00.000")
      [] c.column = "json" -> Structure(c.text)
      [] c.column \in Strings \cup {"date", "datetime"} -> Text(c.text)

-----------------------------------------------------------------------------
(* The two writes. *)

Write(v) ==
    /\ Writable(attr.type, v)
    /\ v = Null => ~attr.notNull
    /\ stored' = Written(attr.type, v)
    /\ given' = v
    /\ UNCHANGED attr

\* An entry is created with the default of what the request leaves out.
Insert(v) ==
    /\ stored = None
    /\ LET w == IF v = Absent THEN attr.default ELSE v
       IN  Valid(w, TRUE) /\ Write(IF w = Absent THEN Null ELSE w)

\* An update writes what the request has, and requires nothing.
Update(v) ==
    /\ stored # None /\ v # Absent
    /\ Valid(v, FALSE)
    /\ Write(v)

Next == \E v \in Values : Insert(v) \/ Update(v)

\* A number that an integer column can have.
Fits(v) == Whole(v) /\ Amount(v) % 10 = 0 /\ Wrapped(Rounded(Amount(v)), Width) = Rounded(Amount(v))

\* What is read of an entry is accepted when it is written again, and changes nothing: publishing and
\* importing what was exported do that.  Two writes are known not to keep to it: a number that the
\* column cannot have, and an update that empties a required field.
ReadBackStable ==
    /\ stored # None
    /\ attr.type \in {"integer", "biginteger"} => given = Null \/ Fits(given)
    /\ attr.required => ~Missing(given)
    => LET again == Read(stored) IN Valid(again, TRUE) /\ Writable(attr.type, again) /\ Written(attr.type, again) = stored
=============================================================================
