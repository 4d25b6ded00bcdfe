------------------------------- MODULE Values -------------------------------
(***************************************************************************)
(* Typed property values: src/src/runtime/value.rs, and the validation of  *)
(* properties against a model's fields in src/src/runtime/catalog.rs.      *)
(*                                                                         *)
(* A JSON value is [kind, raw].  Its kind is one of the ten primitive      *)
(* kinds, "UInt" for a number above the signed range, or "Other" for null, *)
(* arrays and objects without a recognised type tag.  The raw part of the  *)
(* six tagged kinds, like the input of the parser, is a text               *)
(* [pad, body]: pad says whether it is surrounded by white space, body is  *)
(* the scanned form of what is between, or Malformed.                      *)
(*                                                                         *)
(*   Decimal   [sign, int, frac], int a sequence of digits, frac none or   *)
(*             one (possibly empty) sequence of digits                     *)
(*   Duration  the same: the sign, and the number between "PT" and "S"     *)
(*   DateTime  [secs, offset, frac, leap, dangling]: local seconds, the    *)
(*             offset from UTC, the fraction's digits, whether the text    *)
(*             spells the second 60, whether its point has no digit        *)
(*   Date, Uuid  [item, canonical]: what is denoted, and whether this is   *)
(*             its canonical spelling                                      *)
(*   Bytes     [item, canonical], item the sextets of the base64 text      *)
(*   String    a sequence of characters;  Int, Float, Bool  the value      *)
(***************************************************************************)
EXTENDS Integers, Sequences, SequencesExt

CONSTANTS
  Base,        \* of the digits of decimals and durations; 10 in the code
  FracDigits,  \* digits of a duration's or a datetime's fraction; 9
  MaxInt,      \* i64::MAX
  MaxNanos,    \* i128::MAX
  MaxSecs,     \* the last second of year 9999; 0 is the first of year 0
  Malformed,   \* a text no parser scans
  Refused      \* the error result

ASSUME ValuesAssumption ==
  /\ Base \in Nat \ {0, 1}
  /\ {FracDigits, MaxInt, MaxNanos, MaxSecs} \subseteq Nat \ {0}

TaggedKinds == {"Bytes", "Decimal", "Date", "DateTime", "Duration", "Uuid"}

Json(kind, raw) == [kind |-> kind, raw |-> raw]

Plain(body) == [pad |-> FALSE, body |-> body]

-----------------------------------------------------------------------------
(***************************************************************************)
(* Digits.                                                                 *)
(***************************************************************************)
Number(digits) == FoldLeft(LAMBDA n, d : n * Base + d, 0, digits)

Digits(n, width) == [i \in 1..width |-> (n \div Base^(width - i)) % Base]

\* The decimal spelling of n: its shortest string of digits.
Shortest(n) ==
  Digits(n, CHOOSE w \in 1..(n + 1) :
              n < Base^w /\ \A v \in 1..(w - 1) : n >= Base^v)

\* trim_end_matches('0')
TrimZeros(digits) ==
  SubSeq(digits, 1, Max({i \in DOMAIN digits : digits[i] # 0} \cup {0}))

\* The digits after the point; none when there is no point.
FracOf(t) == IF t.frac = <<>> THEN <<>> ELSE t.frac[1]

\* A point is written only before a digit.
Point(digits) == IF digits = <<>> THEN <<>> ELSE <<digits>>

-----------------------------------------------------------------------------
(***************************************************************************)
(* Canonical spellings.  Each operator returns the canonical body of its   *)
(* argument, or Refused.                                                   *)
(***************************************************************************)
\* canonical_decimal: an explicit plus, a missing digit, a leading zero, a
\* negative zero and a trailing zero are refused.
CanonicalDecimal(t) ==
  LET Wrong(frac) ==
        \/ t.sign = "+"
        \/ t.int = <<>>
        \/ t.frac # <<>> /\ t.frac[1] = <<>>
        \/ Len(t.int) > 1 /\ t.int[1] = 0
        \/ t.sign = "-" /\ Number(t.int) = 0 /\ frac = <<>>
        \/ Point(frac) # t.frac
  IN  IF Wrong(TrimZeros(FracOf(t))) THEN Refused ELSE t

\* parse_decimal_seconds_to_nanos, with the range of i128
Nanos(t) ==
  LET frac == FracOf(t)
      InRange(nanos) == IF nanos > MaxNanos THEN Refused ELSE nanos
  IN  IF \/ t.int = <<>>
         \/ t.frac # <<>> /\ Len(frac) \notin 1..FracDigits
      THEN Refused
      ELSE InRange(Number(t.int) * Base^FracDigits
                     + Number(frac) * Base^(FracDigits - Len(frac)))

\* parse_duration_nanos
Signed(sign, nanos) ==
  IF nanos = Refused THEN Refused ELSE IF sign = "-" THEN -nanos ELSE nanos

DurationNanos(t) == Signed(t.sign, Nanos(t))

\* format_duration_nanos: the sign of a zero is not written.
FormatDuration(nanos) ==
  LET size == IF nanos < 0 THEN -nanos ELSE nanos
      unit == Base^FracDigits
  IN  [sign |-> IF nanos < 0 THEN "-" ELSE "",
       int  |-> Shortest(size \div unit),
       frac |-> Point(TrimZeros(Digits(size % unit, FracDigits)))]

\* canonical_duration_value: only the spelling the formatter writes.
IsSpelling(t, nanos) == IF nanos = Refused THEN FALSE ELSE FormatDuration(nanos) = t

CanonicalDuration(t) ==
  IF t.sign # "+" /\ IsSpelling(t, DurationNanos(t)) THEN t ELSE Refused

\* DateTime::parse_from_rfc3339: four digits of year, digits after a point;
\* the digits past the ninth are dropped.
Rfc3339(t) ==
  IF t.secs \notin 0..MaxSecs \/ t.dangling THEN Refused
  ELSE [t EXCEPT !.frac = SubSeq(@, 1, Min({FracDigits, Len(@)}))]

\* canonical_datetime_value: the same instant in UTC without trailing zeros.
\* chrono counts a leap second as a full extra second of nanoseconds, so a
\* leap second without fraction takes the branch that strips zeros and keeps
\* the point.
InUtc(t, frac) ==
  [secs |-> t.secs - t.offset, offset |-> 0, frac |-> frac,
   leap |-> t.leap, dangling |-> t.leap /\ frac = <<>>]

CanonicalDateTime(t) ==
  LET Utc(parsed) == IF parsed = Refused THEN Refused ELSE InUtc(parsed, TrimZeros(parsed.frac))
  IN  Utc(Rfc3339(t))

\* canonical_bytes_value, canonical_date_value, canonical_uuid_value
CanonicalOnly(t) == IF t.canonical THEN t ELSE Refused

\* A text that the base64 decoder reads: no white space, one spelling.
CanonicalText(text) == ~text.pad /\ text.body # Malformed /\ text.body.canonical

Canonical(kind, t) ==
  CASE kind = "Decimal"  -> CanonicalDecimal(t)
    [] kind = "Duration" -> CanonicalDuration(t)
    [] kind = "DateTime" -> CanonicalDateTime(t)
    [] OTHER             -> CanonicalOnly(t)

-----------------------------------------------------------------------------
(***************************************************************************)
(* Parsing and validation.                                                 *)
(***************************************************************************)
Tagged(kind, body) == IF body = Refused THEN Refused ELSE Json(kind, Plain(body))

\* parse_typed_value: every kind but string trims its input.
ParseTypedValue(kind, text) ==
  IF kind = "String" THEN Json("String", text.body)
  ELSE IF text.body = Malformed THEN Refused ELSE
  CASE kind = "Int" -> IF text.body \in (-MaxInt - 1)..MaxInt
                       THEN Json("Int", text.body) ELSE Refused
    [] kind \in {"Float", "Bool"} -> Json(kind, text.body)
    [] kind \in TaggedKinds -> Tagged(kind, Canonical(kind, text.body))

\* validate_value_for_kind: a tagged value is valid when its own text parses
\* to the value itself.
ValidateValueForKind(kind, value) ==
  /\ value.kind = kind
  /\ kind \in TaggedKinds => ParseTypedValue(kind, value.raw) = value

\* validate_props_for_fields: no unknown field, every value of its field's
\* kind, every required field present.
ValidateProps(fields, props) ==
  /\ \A k \in DOMAIN props : \E f \in Range(fields) : f.name = k
  /\ \A f \in Range(fields) :
       IF f.name \in DOMAIN props
       THEN ValidateValueForKind(f.value_type, props[f.name])
       ELSE ~f.required

\* RuntimeNodeModel::new, RuntimeRelModel::new: a field is named once, and
\* none has the name of the id field.
WellFormedModel(id_field, fields) ==
  IsInjective([i \in 0..Len(fields) |->
                 IF i = 0 THEN id_field ELSE fields[i].name])

-----------------------------------------------------------------------------
(***************************************************************************)
(* Comparison.  Orders are -1, 0 and 1.                                    *)
(***************************************************************************)
Sign(n) == IF n < 0 THEN -1 ELSE IF n > 0 THEN 1 ELSE 0

\* [u8]::cmp, the order of strings: the first difference, then the length.
Lexical(l, r) ==
  LET differ == {i \in DOMAIN l \cap DOMAIN r : l[i] # r[i]}
  IN  IF differ = {} THEN Sign(Len(l) - Len(r))
      ELSE LET i == Min(differ) IN Sign(l[i] - r[i])

\* Ordering::then: the first of the orders that decides
FirstDifference(orders) ==
  LET decided == SelectSeq(orders, LAMBDA o : o # 0)
  IN  IF decided = <<>> THEN 0 ELSE decided[1]

\* The character of a sextet in the base64 alphabet.
Base64(s) ==
  CASE s < 26 -> 65 + s
    [] s \in 26..51 -> 71 + s
    [] s \in 52..61 -> s - 4
    [] s = 62 -> 43
    [] s = 63 -> 47

CompareDecimalUnpadded(l, r) ==
  LET Toward(order) == IF l.sign = "-" THEN -order ELSE order
  IN  IF l.sign # r.sign THEN (IF l.sign = "-" THEN -1 ELSE 1)
      ELSE Toward(FirstDifference(<<Sign(Len(l.int) - Len(r.int)), Lexical(l.int, r.int),
                                    Sign(Number(FracOf(l)) - Number(FracOf(r)))>>))

\* compare_decimal: the sign, the number of integer digits, the integer
\* digits, the fraction with missing digits read as zeros.
CompareDecimal(l, r) ==
  LET width  == Max({Len(FracOf(l)), Len(FracOf(r))})
      Padded(digits) == [i \in 1..width |-> IF i \in DOMAIN digits THEN digits[i] ELSE 0]
      Toward(order) == IF l.sign = "-" THEN -order ELSE order
  IN  IF l.sign # r.sign THEN (IF l.sign = "-" THEN -1 ELSE 1)
      ELSE Toward(FirstDifference(<<Sign(Len(l.int) - Len(r.int)), Lexical(l.int, r.int),
                                    Lexical(Padded(FracOf(l)), Padded(FracOf(r)))>>))

\* The chrono order of two instants: the second, then its nanoseconds, a
\* leap second counting as one more second of them.
CompareInstant(l, r) ==
  IF l.secs # r.secs THEN Sign(l.secs - r.secs)
  ELSE IF l.leap # r.leap THEN (IF r.leap THEN -1 ELSE 1)
  ELSE Lexical(l.frac, r.frac)

\* compare_typed_value_order of two values of one primitive kind: validation
\* lets no other value be stored or asked for.
CompareOrder(l, r) ==
  CASE l.kind \in {"Int", "Float"} -> Sign(l.raw - r.raw)
    [] l.kind = "String"   -> Lexical(l.raw, r.raw)
    [] l.kind = "Bool"     -> Sign((IF l.raw THEN 1 ELSE 0) - (IF r.raw THEN 1 ELSE 0))
    [] l.kind = "Decimal"  -> CompareDecimal(l.raw.body, r.raw.body)
    [] l.kind = "Duration" ->
         Sign(DurationNanos(l.raw.body) - DurationNanos(r.raw.body))
    [] l.kind = "DateTime" -> CompareInstant(l.raw.body, r.raw.body)
    [] l.kind = "Bytes"    ->
         Lexical([i \in DOMAIN l.raw.body.item |-> Base64(l.raw.body.item[i])],
                 [i \in DOMAIN r.raw.body.item |-> Base64(r.raw.body.item[i])])
    [] OTHER -> Sign(l.raw.body.item - r.raw.body.item)

\* str::contains
ContainsText(s, part) ==
  \E i \in 0..(Len(s) - Len(part)) : SubSeq(s, i + 1, i + Len(part)) = part

Ordered(order, op) ==
  CASE op = "Gt" -> order = 1
    [] op = "Ge" -> order # -1
    [] op = "Lt" -> order = -1
    [] op = "Le" -> order # 1

\* compare_typed_values: values of different kinds match nothing.
CompareTypedValues(l, op, r) ==
  /\ l.kind = r.kind
  /\ CASE op = "Eq" -> l = r
       [] op = "Ne" -> l # r
       [] op = "Contains" -> l.kind = "String" /\ ContainsText(l.raw, r.raw)
       [] OTHER -> Ordered(CompareOrder(l, r), op)
=============================================================================
