-------------------------- MODULE RemoteCallProofs --------------------------
(***************************************************************************)
(* Proofs about RemoteCall and the conversions of Wire, for every set of   *)
(* requests of the types the helpers of GrpcWorkspaceClient take, every    *)
(* message of other clients and every state of the workspace.              *)
(*                                                                         *)
(* The lemmas called Round follow a message through its four               *)
(* conversions: encoded by the service layer, encoded and decoded by the   *)
(* protobuf layer, decoded by the service layer, none of them refusing it. *)
(***************************************************************************)
EXTENDS RemoteCall, FiniteSetTheorems, TLAPS

-----------------------------------------------------------------------------
(***************************************************************************)
(* Records with one field changed.                                         *)
(***************************************************************************)
\* The record p with x in the field f.
Sets(q, p, f, x) ==
  /\ IsRecord(q) /\ DOMAIN q = DOMAIN p
  /\ q[f] = x
  /\ \A k \in DOMAIN p : k # f => q[k] = p[k]

\* A struct that is not refused has no refused part.
LEMMA WholeIs ==
  ASSUME NEW r, Whole(r) # Refused
  PROVE  Whole(r) = r /\ \A k \in DOMAIN r : r[k] # Refused
  BY DEF Whole

\* A change of one field has one result.
LEMMA SetsUnique ==
  ASSUME NEW q, NEW s, NEW p, NEW f, NEW x, Sets(q, p, f, x), Sets(s, p, f, x)
  PROVE  q = s
<1>1. \A k \in DOMAIN p : q[k] = s[k]
  BY DEF Sets
<1>2. q = [k \in DOMAIN q |-> q[k]] /\ s = [k \in DOMAIN s |-> s[k]]
  BY DEF Sets, IsRecord
<1>. QED BY <1>1, <1>2 DEF Sets

\* EXCEPT as a change of one field.
LEMMA SetValue ==
  ASSUME NEW p, IsRecord(p), "value" \in DOMAIN p, NEW x
  PROVE  Sets([p EXCEPT !.value = x], p, "value", x)
<1>1. [p EXCEPT !.value = x] = [k \in DOMAIN p |-> IF k = "value" THEN x ELSE p[k]]
  BY DEF IsRecord
<1>. QED BY <1>1 DEF Sets, IsRecord

-----------------------------------------------------------------------------
(***************************************************************************)
(* Values, enums and predicates.                                           *)
(***************************************************************************)
\* White space around a text does not change what it is parsed to.
LEMMA ParsesBody ==
  ASSUME NEW t, NEW u, NEW k, t.body = u.body
  PROVE  ParseTypedValue(k, t) = ParseTypedValue(k, u)
  BY DEF ParseTypedValue

\* A property value that travels is read as the spelling the store keeps: the
\* sextets of base64, and the text of the other tagged values, are parsed again.
LEMMA PropertyValueRound ==
  ASSUME NEW v, ValueTyped(v), PropertyValueOf(v) # Refused
  PROVE  ValueOf(PropertyValueOf(v)) \in {Refused, MeantValue(v)}
<1>1. CASE v.kind = "Bytes"
  <2>1. CanonicalText(v.raw) /\ PropertyValueOf(v) = Json("Bytes", v.raw.body.item)
    BY <1>1 DEF PropertyValueOf
  <2>2. v.raw.body = [item |-> v.raw.body.item, canonical |-> TRUE]
    BY <1>1, <2>1 DEF ValueTyped
  <2>3. PICK p : p = Json("Bytes", v.raw.body.item)
    OBVIOUS
  <2>4. p.kind = "Bytes" /\ p.raw = v.raw.body.item
    BY <2>3 DEF Json
  <2>5. ValueOf(p) = ParseTypedValue("Bytes", Plain([item |-> p.raw, canonical |-> TRUE]))
    BY <2>4 DEF ValueOf, TaggedKinds
  <2>6. Plain([item |-> p.raw, canonical |-> TRUE]).body = v.raw.body
    BY <2>2, <2>4 DEF Plain
  <2>7. ParseTypedValue("Bytes", Plain([item |-> p.raw, canonical |-> TRUE]))
          = ParseTypedValue("Bytes", v.raw)
    BY <2>6, ParsesBody
  <2>8. MeantValue(v) = ParseTypedValue("Bytes", v.raw)
    BY <1>1 DEF MeantValue, TaggedKinds
  <2>. QED BY <2>1, <2>3, <2>5, <2>7, <2>8
<1>2. CASE v.kind # "Bytes"
  <2>1. PropertyValueOf(v) = v
    BY <1>2 DEF PropertyValueOf
  <2>2. CASE v.kind = "Float" /\ v.raw = Malformed
    BY <2>1, <2>2 DEF ValueOf, TaggedKinds
  <2>3. CASE v.kind \in TaggedKinds
    BY <1>2, <2>1, <2>3 DEF ValueOf, MeantValue, TaggedKinds
  <2>4. CASE v.kind \notin TaggedKinds /\ ~(v.kind = "Float" /\ v.raw = Malformed)
    BY <2>1, <2>4 DEF ValueOf, MeantValue
  <2>. QED BY <2>2, <2>3, <2>4
<1>. QED BY <1>1, <1>2

\* The code of a variant is a natural number, and names the variant.
LEMMA EnumRound ==
  ASSUME NEW names, NEW n \in Nat, DOMAIN names = 1..n, NEW x \in Range(names),
         EncodeEnum(names, x) # Refused
  PROVE  EncodeEnum(names, x) \in Nat /\ DecodeEnum(names, EncodeEnum(names, x)) = x
<1>1. PICK i \in DOMAIN names : names[i] = x
  BY DEF Range
<1>2. PICK j : j = CHOOSE k \in DOMAIN names : names[k] = x
  OBVIOUS
<1>3. j \in 1..n /\ names[j] = x
  BY <1>1, <1>2
<1>4. EncodeEnum(names, x) = j - 1
  BY <1>2 DEF EncodeEnum
<1>5. j - 1 \in Nat /\ (j - 1) + 1 = j
  BY <1>3
<1>. QED BY <1>3, <1>4, <1>5 DEF DecodeEnum

\* The variants of an enum, numbered from 1.
IsList(names) == \E n \in Nat : DOMAIN names = 1..n

\* Every table of variants is such a list.
LEMMA EnumNames ==
  /\ IsList(FieldValueTypes) /\ IsList(PredicateOps) /\ IsList(OrderDirections)
  /\ IsList(Directions) /\ IsList(Returns) /\ IsList(ResponseModes)
<1>1. /\ DOMAIN FieldValueTypes = 1..11 /\ DOMAIN PredicateOps = 1..7
      /\ DOMAIN OrderDirections = 1..2 /\ DOMAIN Directions = 1..3
      /\ DOMAIN Returns = 1..3 /\ DOMAIN ResponseModes = 1..2
  BY DEF FieldValueTypes, PredicateOps, OrderDirections, Directions, Returns, ResponseModes
<1>. QED BY <1>1 DEF IsList

\* One layer changes the value of a predicate, the other its operator.
LEMMA PredicateSteps ==
  ASSUME NEW p, IsRecord(p), {"op", "value"} \subseteq DOMAIN p, NEW c \in {"encode", "decode"}
  PROVE  /\ Predicate(c, p) # Refused => Sets(Predicate(c, p), p, "value", Value(c, p.value)) /\ Value(c, p.value) # Refused
         /\ ProtoPredicate(c, p) # Refused =>
              /\ IsRecord(ProtoPredicate(c, p)) /\ DOMAIN ProtoPredicate(c, p) = DOMAIN p
              /\ ProtoPredicate(c, p).op = Enum(c, PredicateOps, p.op)
              /\ ProtoPredicate(c, p).value = p.value
              /\ Enum(c, PredicateOps, p.op) # Refused
              /\ \A k \in DOMAIN p : k \notin {"op", "value"} => ProtoPredicate(c, p)[k] = p[k]
<1>1. ASSUME Predicate(c, p) # Refused
      PROVE  Sets(Predicate(c, p), p, "value", Value(c, p.value)) /\ Value(c, p.value) # Refused
  <2>1. PICK x : x = Value(c, p.value)
    OBVIOUS
  <2>2. PICK q : q = [p EXCEPT !.value = x]
    OBVIOUS
  <2>3. Sets(q, p, "value", x)
    BY <2>2, SetValue
  <2>4. Predicate(c, p) = Whole(q)
    BY <2>1, <2>2 DEF Predicate
  <2>5. Predicate(c, p) = q /\ \A k \in DOMAIN q : q[k] # Refused
    BY <1>1, <2>4, WholeIs
  <2>. QED BY <2>1, <2>3, <2>5 DEF Sets
<1>2. ASSUME ProtoPredicate(c, p) # Refused
      PROVE  /\ IsRecord(ProtoPredicate(c, p)) /\ DOMAIN ProtoPredicate(c, p) = DOMAIN p
             /\ ProtoPredicate(c, p).op = Enum(c, PredicateOps, p.op)
             /\ ProtoPredicate(c, p).value = p.value
             /\ Enum(c, PredicateOps, p.op) # Refused
             /\ \A k \in DOMAIN p : k \notin {"op", "value"} => ProtoPredicate(c, p)[k] = p[k]
  <2>1. PICK x : x = Enum(c, PredicateOps, p.op)
    OBVIOUS
  <2>2. PICK y : y = ProtoValue(c, p.value)
    OBVIOUS
  <2>3. PICK q : q = [p EXCEPT !.op = x, !.value = y]
    OBVIOUS
  <2>4. q = [k \in DOMAIN p |-> IF k = "value" THEN y ELSE IF k = "op" THEN x ELSE p[k]]
    BY <2>3 DEF IsRecord
  <2>5. ProtoPredicate(c, p) = Whole([p EXCEPT !.op = Enum(c, PredicateOps, p.op), !.value = ProtoValue(c, p.value)])
    BY DEF ProtoPredicate
  <2>6. ProtoPredicate(c, p) = q /\ \A k \in DOMAIN q : q[k] # Refused
    BY <1>2, <2>1, <2>2, <2>3, <2>5, WholeIs
  <2>7. y # Refused /\ x # Refused
    BY <2>4, <2>6
  <2>8. y = p.value
    BY <2>2, <2>7 DEF ProtoValue, Required
  <2>. QED BY <2>1, <2>4, <2>6, <2>7, <2>8 DEF IsRecord
<1>. QED BY <1>1, <1>2

\* EnumRound in terms of the two directions of Enum.
LEMMA EnumCodes ==
  ASSUME NEW names, IsList(names), NEW x \in Range(names), NEW y,
         y = Enum("encode", names, x), y # Refused
  PROVE  y \in Nat /\ Enum("decode", names, y) = x
  BY EnumRound DEF Enum, IsList

\* A predicate arrives with its value in the spelling of the store.
LEMMA PredicateRound ==
  ASSUME NEW p, PredicateTyped(p),
         NEW a, a = Predicate("encode", p), a # Refused,
         NEW b, b = ProtoPredicate("encode", a), b # Refused,
         NEW d, d = ProtoPredicate("decode", b), d # Refused,
         NEW e, e = Predicate("decode", d), e # Refused
  PROVE  Sets(e, p, "value", MeantValue(p.value))
<1>0. IsRecord(p) /\ {"op", "value"} \subseteq DOMAIN p /\ p.op \in Range(PredicateOps) /\ ValueTyped(p.value)
  BY DEF PredicateTyped, EnumTyped
<1>1. Sets(a, p, "value", PropertyValueOf(p.value)) /\ PropertyValueOf(p.value) # Refused
  BY <1>0, PredicateSteps DEF Value
<1>2. IsRecord(a) /\ DOMAIN a = DOMAIN p /\ a.op = p.op /\ a.value = PropertyValueOf(p.value)
  BY <1>0, <1>1 DEF Sets
<1>3. /\ IsRecord(b) /\ DOMAIN b = DOMAIN p /\ b.value = a.value
      /\ b.op = Enum("encode", PredicateOps, p.op) /\ b.op # Refused
      /\ \A k \in DOMAIN p : k \notin {"op", "value"} => b[k] = a[k]
  BY <1>0, <1>2, PredicateSteps
<1>4. /\ IsRecord(d) /\ DOMAIN d = DOMAIN p /\ d.value = a.value
      /\ d.op = Enum("decode", PredicateOps, b.op)
      /\ \A k \in DOMAIN p : k \notin {"op", "value"} => d[k] = b[k]
  BY <1>0, <1>3, PredicateSteps
<1>5. d.op = p.op
  BY <1>0, <1>3, <1>4, EnumNames, EnumCodes
<1>6. Sets(e, d, "value", ValueOf(d.value)) /\ ValueOf(d.value) # Refused
  BY <1>0, <1>4, PredicateSteps DEF Value
<1>7. ValueOf(d.value) = MeantValue(p.value)
  BY <1>0, <1>1, <1>2, <1>4, <1>6, PropertyValueRound
<1>8. \A k \in DOMAIN p : k # "value" => d[k] = p[k]
  <2>. SUFFICES ASSUME NEW k \in DOMAIN p, k # "value" PROVE d[k] = p[k]
    OBVIOUS
  <2>1. CASE k = "op"
    BY <1>5, <2>1
  <2>2. CASE k # "op"
    BY <1>1, <1>3, <1>4, <2>2 DEF Sets
  <2>. QED BY <2>1, <2>2
<1>. QED BY <1>4, <1>6, <1>7, <1>8 DEF Sets

\* A vector of predicates is converted one by one.
LEMMA EachPredicate ==
  ASSUME NEW c, NEW ps
  PROVE  /\ Predicates(c, ps) # Refused =>
              /\ Predicates(c, ps) = [i \in DOMAIN ps |-> Predicate(c, ps[i])]
              /\ \A i \in DOMAIN ps : Predicate(c, ps[i]) # Refused
         /\ ProtoPredicates(c, ps) # Refused =>
              /\ ProtoPredicates(c, ps) = [i \in DOMAIN ps |-> ProtoPredicate(c, ps[i])]
              /\ \A i \in DOMAIN ps : ProtoPredicate(c, ps[i]) # Refused
<1>1. ASSUME Predicates(c, ps) # Refused
      PROVE  /\ Predicates(c, ps) = [i \in DOMAIN ps |-> Predicate(c, ps[i])]
             /\ \A i \in DOMAIN ps : Predicate(c, ps[i]) # Refused
  <2>1. PICK q : q = [i \in DOMAIN ps |-> Predicate(c, ps[i])]
    OBVIOUS
  <2>2. Predicates(c, ps) = Whole(q)
    BY <2>1 DEF Predicates, Each
  <2>. QED BY <1>1, <2>1, <2>2, WholeIs
<1>2. ASSUME ProtoPredicates(c, ps) # Refused
      PROVE  /\ ProtoPredicates(c, ps) = [i \in DOMAIN ps |-> ProtoPredicate(c, ps[i])]
             /\ \A i \in DOMAIN ps : ProtoPredicate(c, ps[i]) # Refused
  <2>1. PICK q : q = [i \in DOMAIN ps |-> ProtoPredicate(c, ps[i])]
    OBVIOUS
  <2>2. ProtoPredicates(c, ps) = Whole(q)
    BY <2>1 DEF ProtoPredicates, Each
  <2>. QED BY <1>2, <2>1, <2>2, WholeIs
<1>. QED BY <1>1, <1>2

\* So does a vector of predicates.
LEMMA PredicatesRound ==
  ASSUME NEW ps, PredicatesTyped(ps),
         NEW a, a = Predicates("encode", ps), a # Refused,
         NEW b, b = ProtoPredicates("encode", a), b # Refused,
         NEW d, d = ProtoPredicates("decode", b), d # Refused,
         NEW e, e = Predicates("decode", d), e # Refused
  PROVE  e = NormalPredicates(ps)
<1>1. a = [i \in DOMAIN ps |-> Predicate("encode", ps[i])] /\ \A i \in DOMAIN ps : a[i] # Refused
  BY EachPredicate
<1>2. b = [i \in DOMAIN ps |-> ProtoPredicate("encode", a[i])] /\ \A i \in DOMAIN ps : b[i] # Refused
  BY <1>1, EachPredicate
<1>3. d = [i \in DOMAIN ps |-> ProtoPredicate("decode", b[i])] /\ \A i \in DOMAIN ps : d[i] # Refused
  BY <1>2, EachPredicate
<1>4. e = [i \in DOMAIN ps |-> Predicate("decode", d[i])] /\ \A i \in DOMAIN ps : e[i] # Refused
  BY <1>3, EachPredicate
<1>5. ASSUME NEW i \in DOMAIN ps
      PROVE  e[i] = [ps[i] EXCEPT !.value = MeantValue(ps[i].value)]
  <2>1. PredicateTyped(ps[i])
    BY DEF PredicatesTyped
  <2>2. Sets(e[i], ps[i], "value", MeantValue(ps[i].value))
    BY <1>1, <1>2, <1>3, <1>4, <2>1, PredicateRound
  <2>3. IsRecord(ps[i]) /\ "value" \in DOMAIN ps[i]
    BY <2>1 DEF PredicateTyped, EnumTyped
  <2>4. Sets([ps[i] EXCEPT !.value = MeantValue(ps[i].value)], ps[i], "value", MeantValue(ps[i].value))
    BY <2>3, SetValue
  <2>. QED BY <2>2, <2>4, SetsUnique
<1>6. DOMAIN e = DOMAIN ps /\ e = [i \in DOMAIN ps |-> e[i]]
  BY <1>4
<1>. QED BY <1>5, <1>6 DEF NormalPredicates

-----------------------------------------------------------------------------
(***************************************************************************)
(* Node finds.                                                             *)
(***************************************************************************)
\* EXCEPT as a change of one field.
LEMMA SetDirection ==
  ASSUME NEW p, IsRecord(p), "direction" \in DOMAIN p, NEW x
  PROVE  Sets([p EXCEPT !.direction = x], p, "direction", x)
<1>1. [p EXCEPT !.direction = x] = [k \in DOMAIN p |-> IF k = "direction" THEN x ELSE p[k]]
  BY DEF IsRecord
<1>. QED BY <1>1 DEF Sets, IsRecord

\* ProtoOrder and ProtoStep: a struct with a direction.
DirectionPart(c, names, p) == Whole([p EXCEPT !.direction = Enum(c, names, @)])

\* The conversion changes the direction alone.
LEMMA DirectionStep ==
  ASSUME NEW p, IsRecord(p), "direction" \in DOMAIN p, NEW c, NEW names,
         DirectionPart(c, names, p) # Refused
  PROVE  /\ Sets(DirectionPart(c, names, p), p, "direction", Enum(c, names, p.direction))
         /\ Enum(c, names, p.direction) # Refused
<1>1. PICK x : x = Enum(c, names, p.direction)
  OBVIOUS
<1>2. PICK q : q = [p EXCEPT !.direction = x]
  OBVIOUS
<1>3. Sets(q, p, "direction", x)
  BY <1>2, SetDirection
<1>4. DirectionPart(c, names, p) = Whole(q)
  BY <1>1, <1>2 DEF DirectionPart
<1>5. DirectionPart(c, names, p) = q /\ \A k \in DOMAIN q : q[k] # Refused
  BY <1>4, WholeIs
<1>. QED BY <1>1, <1>3, <1>5 DEF Sets

\* A struct with a direction arrives as it was.
LEMMA DirectionRound ==
  ASSUME NEW names, IsList(names), NEW p, EnumTyped(p, "direction", names),
         NEW a, a = DirectionPart("encode", names, p), a # Refused,
         NEW b, b = DirectionPart("decode", names, a), b # Refused
  PROVE  b = p
<1>1. IsRecord(p) /\ "direction" \in DOMAIN p /\ p.direction \in Range(names)
  BY DEF EnumTyped
<1>2. Sets(a, p, "direction", Enum("encode", names, p.direction)) /\ Enum("encode", names, p.direction) # Refused
  BY <1>1, DirectionStep
<1>3. IsRecord(a) /\ "direction" \in DOMAIN a /\ a.direction = Enum("encode", names, p.direction)
  BY <1>1, <1>2 DEF Sets
<1>4. Sets(b, a, "direction", Enum("decode", names, a.direction))
  BY <1>3, DirectionStep
<1>5. Enum("decode", names, a.direction) = p.direction
  BY <1>1, <1>2, <1>3, EnumCodes
<1>6. Sets(b, p, "direction", p.direction)
  BY <1>2, <1>4, <1>5 DEF Sets
<1>7. Sets(p, p, "direction", p.direction)
  BY <1>1 DEF Sets
<1>. QED BY <1>6, <1>7, SetsUnique

\* A vector of structs with a direction.
DirectionParts(c, names, s) == Whole([i \in DOMAIN s |-> DirectionPart(c, names, s[i])])

\* It is converted one by one.
LEMMA DirectionPartsAre ==
  ASSUME NEW c, NEW names, NEW s, DirectionParts(c, names, s) # Refused
  PROVE  /\ DirectionParts(c, names, s) = [i \in DOMAIN s |-> DirectionPart(c, names, s[i])]
         /\ \A i \in DOMAIN s : DirectionPart(c, names, s[i]) # Refused
<1>1. PICK q : q = [i \in DOMAIN s |-> DirectionPart(c, names, s[i])]
  OBVIOUS
<1>2. DirectionParts(c, names, s) = Whole(q)
  BY <1>1 DEF DirectionParts
<1>. QED BY <1>1, <1>2, WholeIs

\* It arrives as it was.
LEMMA DirectionsRound ==
  ASSUME NEW names, IsList(names), NEW s, EnumsTyped(s, "direction", names),
         NEW a, a = DirectionParts("encode", names, s), a # Refused,
         NEW b, b = DirectionParts("decode", names, a), b # Refused
  PROVE  b = s
<1>1. a = [i \in DOMAIN s |-> DirectionPart("encode", names, s[i])] /\ \A i \in DOMAIN s : a[i] # Refused
  BY DirectionPartsAre
<1>2. b = [i \in DOMAIN s |-> DirectionPart("decode", names, a[i])] /\ \A i \in DOMAIN s : b[i] # Refused
  BY <1>1, DirectionPartsAre
<1>3. \A i \in DOMAIN s : b[i] = s[i]
  BY <1>1, <1>2, DirectionRound DEF EnumsTyped
<1>. QED BY <1>2, <1>3 DEF EnumsTyped, IsRecord

\* What the service layer changes in a node find: the three lists of predicates.
LEMMA NodeFindStep ==
  ASSUME NEW m, IsRecord(m), NodeFindKeys \subseteq DOMAIN m, NEW c,
         NEW a, a = NodeFind(c, m), a # Refused
  PROVE  /\ IsRecord(a) /\ DOMAIN a = DOMAIN m
         /\ \A k \in PredicateKeys : a[k] = Predicates(c, m[k]) /\ a[k] # Refused
         /\ \A k \in DOMAIN m \ PredicateKeys : a[k] = m[k]
<1>1. PICK x : x = Predicates(c, m.predicates)
  OBVIOUS
<1>2. PICK y : y = Predicates(c, m.end_predicates)
  OBVIOUS
<1>3. PICK z : z = Predicates(c, m.edge_predicates)
  OBVIOUS
<1>4. PICK q : q = [m EXCEPT !.predicates = x, !.end_predicates = y, !.edge_predicates = z]
  OBVIOUS
<1>5. q = [k \in DOMAIN m |-> IF k = "edge_predicates" THEN z ELSE
             IF k = "end_predicates" THEN y ELSE IF k = "predicates" THEN x ELSE m[k]]
  BY <1>4 DEF IsRecord
<1>6. a = Whole(q)
  BY <1>1, <1>2, <1>3, <1>4 DEF NodeFind
<1>7. a = q /\ \A k \in DOMAIN q : q[k] # Refused
  BY <1>6, WholeIs
<1>8. DOMAIN q = DOMAIN m /\ IsRecord(q)
  BY <1>5 DEF IsRecord
<1>9. /\ q["predicates"] = Predicates(c, m["predicates"])
      /\ q["end_predicates"] = Predicates(c, m["end_predicates"])
      /\ q["edge_predicates"] = Predicates(c, m["edge_predicates"])
  BY <1>1, <1>2, <1>3, <1>5 DEF NodeFindKeys, PredicateKeys
<1>10. \A k \in DOMAIN m \ PredicateKeys : q[k] = m[k]
  BY <1>5 DEF PredicateKeys
<1>11. \A k \in PredicateKeys : k \in DOMAIN q
  BY <1>8 DEF NodeFindKeys, PredicateKeys
<1>. QED BY <1>7, <1>8, <1>9, <1>10, <1>11 DEF PredicateKeys

\* What the protobuf layer changes in a node find: besides, the enums.
LEMMA ProtoNodeFindStep ==
  ASSUME NEW m, IsRecord(m), NodeFindKeys \subseteq DOMAIN m, NEW c,
         NEW a, a = ProtoNodeFind(c, m), a # Refused
  PROVE  /\ IsRecord(a) /\ DOMAIN a = DOMAIN m
         /\ \A k \in PredicateKeys : a[k] = ProtoPredicates(c, m[k])
         /\ a.traversals = DirectionParts(c, Directions, m.traversals)
         /\ a.order = DirectionParts(c, OrderDirections, m.order)
         /\ a.return_mode = EnumOption(c, Returns, m.return_mode)
         /\ \A k \in NodeFindKeys : a[k] # Refused
         /\ \A k \in DOMAIN m \ NodeFindKeys : a[k] = m[k]
<1>1. PICK x : x = ProtoPredicates(c, m.predicates)
  OBVIOUS
<1>2. PICK y : y = ProtoPredicates(c, m.end_predicates)
  OBVIOUS
<1>3. PICK z : z = ProtoPredicates(c, m.edge_predicates)
  OBVIOUS
<1>4. PICK t : t = DirectionParts(c, Directions, m.traversals)
  OBVIOUS
<1>5. PICK o : o = DirectionParts(c, OrderDirections, m.order)
  OBVIOUS
<1>6. PICK r : r = EnumOption(c, Returns, m.return_mode)
  OBVIOUS
<1>7. PICK q : q = [m EXCEPT !.predicates = x, !.end_predicates = y, !.edge_predicates = z,
                             !.traversals = t, !.order = o, !.return_mode = r]
  OBVIOUS
<1>8. q = [k \in DOMAIN m |-> IF k = "return_mode" THEN r ELSE IF k = "order" THEN o ELSE
             IF k = "traversals" THEN t ELSE IF k = "edge_predicates" THEN z ELSE
             IF k = "end_predicates" THEN y ELSE IF k = "predicates" THEN x ELSE m[k]]
  BY <1>7 DEF IsRecord
<1>9. a = Whole(q)
  <2>1. t = Each(m.traversals, LAMBDA s : ProtoStep(c, s))
    BY <1>4 DEF DirectionParts, DirectionPart, Each, ProtoStep
  <2>2. o = Each(m.order, LAMBDA s : ProtoOrder(c, s))
    BY <1>5 DEF DirectionParts, DirectionPart, Each, ProtoOrder
  <2>. QED BY <1>1, <1>2, <1>3, <1>6, <1>7, <2>1, <2>2 DEF ProtoNodeFind
<1>10. a = q /\ \A k \in DOMAIN q : q[k] # Refused
  BY <1>9, WholeIs
<1>11. DOMAIN q = DOMAIN m /\ IsRecord(q)
  BY <1>8 DEF IsRecord
<1>12. /\ q["predicates"] = ProtoPredicates(c, m["predicates"])
       /\ q["end_predicates"] = ProtoPredicates(c, m["end_predicates"])
       /\ q["edge_predicates"] = ProtoPredicates(c, m["edge_predicates"])
  BY <1>1, <1>2, <1>3, <1>8 DEF NodeFindKeys, PredicateKeys
<1>13. q["traversals"] = t /\ q["order"] = o /\ q["return_mode"] = r
  BY <1>8 DEF NodeFindKeys
<1>14. \A k \in DOMAIN m \ NodeFindKeys : q[k] = m[k]
  BY <1>8 DEF NodeFindKeys, PredicateKeys
<1>15. \A k \in NodeFindKeys : k \in DOMAIN q
  BY <1>11
<1>16. q.traversals = t /\ q.order = o /\ q.return_mode = r
  BY <1>13
<1>. QED BY <1>4, <1>5, <1>6, <1>10, <1>11, <1>12, <1>14, <1>15, <1>16 DEF PredicateKeys

\* An enum that may be left out arrives as it was: no code is taken for Nothing.
LEMMA OptionRound ==
  ASSUME NEW names, IsList(names), NEW x \in Range(names) \cup {Nothing},
         NEW y, y = EnumOption("encode", names, x), y # Refused
  PROVE  EnumOption("decode", names, y) = x
<1>1. CASE x = Nothing
  BY <1>1 DEF EnumOption
<1>2. CASE x # Nothing
  <2>1. y = Enum("encode", names, x) /\ x \in Range(names)
    BY <1>2 DEF EnumOption
  <2>2. y \in Nat /\ Enum("decode", names, y) = x
    BY <2>1, EnumCodes
  <2>. QED BY <2>2, NothingAssumption DEF EnumOption
<1>. QED BY <1>1, <1>2

\* A node find arrives with its predicates in the spelling of the store.
LEMMA NodeFindRound ==
  ASSUME NEW m, NodeFindTyped(m),
         NEW a, a = NodeFind("encode", m), a # Refused,
         NEW b, b = ProtoNodeFind("encode", a), b # Refused,
         NEW d, d = ProtoNodeFind("decode", b), d # Refused,
         NEW e, e = NodeFind("decode", d), e # Refused
  PROVE  e = NormalShape(m)
<1>0. IsRecord(m) /\ NodeFindKeys \subseteq DOMAIN m /\ "props" \notin DOMAIN m
  BY DEF NodeFindTyped
<1>1. /\ IsRecord(a) /\ DOMAIN a = DOMAIN m
      /\ \A k \in PredicateKeys : a[k] = Predicates("encode", m[k]) /\ a[k] # Refused
      /\ \A k \in DOMAIN m \ PredicateKeys : a[k] = m[k]
  BY <1>0, NodeFindStep
<1>2. /\ IsRecord(b) /\ DOMAIN b = DOMAIN m
      /\ \A k \in PredicateKeys : b[k] = ProtoPredicates("encode", a[k])
      /\ b.traversals = DirectionParts("encode", Directions, a.traversals)
      /\ b.order = DirectionParts("encode", OrderDirections, a.order)
      /\ b.return_mode = EnumOption("encode", Returns, a.return_mode)
      /\ \A k \in NodeFindKeys : b[k] # Refused
      /\ \A k \in DOMAIN m \ NodeFindKeys : b[k] = a[k]
  BY <1>0, <1>1, ProtoNodeFindStep
<1>3. /\ IsRecord(d) /\ DOMAIN d = DOMAIN m
      /\ \A k \in PredicateKeys : d[k] = ProtoPredicates("decode", b[k])
      /\ d.traversals = DirectionParts("decode", Directions, b.traversals)
      /\ d.order = DirectionParts("decode", OrderDirections, b.order)
      /\ d.return_mode = EnumOption("decode", Returns, b.return_mode)
      /\ \A k \in NodeFindKeys : d[k] # Refused
      /\ \A k \in DOMAIN m \ NodeFindKeys : d[k] = b[k]
  BY <1>0, <1>2, ProtoNodeFindStep
<1>4. /\ IsRecord(e) /\ DOMAIN e = DOMAIN m
      /\ \A k \in PredicateKeys : e[k] = Predicates("decode", d[k]) /\ e[k] # Refused
      /\ \A k \in DOMAIN m \ PredicateKeys : e[k] = d[k]
  BY <1>0, <1>3, NodeFindStep
<1>5. PredicateKeys \subseteq NodeFindKeys /\ {"traversals", "order", "return_mode"} \subseteq NodeFindKeys
  BY DEF NodeFindKeys
<1>6. ASSUME NEW k \in PredicateKeys PROVE e[k] = NormalPredicates(m[k])
  <2>1. PredicatesTyped(m[k])
    BY DEF NodeFindTyped
  <2>2. b[k] # Refused /\ d[k] # Refused
    BY <1>2, <1>3, <1>5
  <2>. QED BY <1>1, <1>2, <1>3, <1>4, <2>1, <2>2, PredicatesRound
<1>7. b["traversals"] # Refused /\ b["order"] # Refused /\ b["return_mode"] # Refused
      /\ d["traversals"] # Refused /\ d["order"] # Refused /\ d["return_mode"] # Refused
  BY <1>2, <1>3, <1>5
<1>8. a["traversals"] = m["traversals"] /\ a["order"] = m["order"] /\ a["return_mode"] = m["return_mode"]
  BY <1>0, <1>1 DEF NodeFindKeys, PredicateKeys
<1>9. d["traversals"] = m["traversals"]
  BY <1>2, <1>3, <1>7, <1>8, DirectionsRound, EnumNames DEF NodeFindTyped
<1>10. d["order"] = m["order"]
  BY <1>2, <1>3, <1>7, <1>8, DirectionsRound, EnumNames DEF NodeFindTyped
<1>11. d["return_mode"] = m["return_mode"]
  BY <1>2, <1>3, <1>7, <1>8, OptionRound, EnumNames DEF NodeFindTyped
<1>12. ASSUME NEW k \in DOMAIN m \ PredicateKeys PROVE e[k] = m[k]
  <2>1. CASE k \in NodeFindKeys
    BY <1>4, <1>9, <1>10, <1>11, <2>1 DEF NodeFindKeys
  <2>2. CASE k \notin NodeFindKeys
    BY <1>1, <1>2, <1>3, <1>4, <2>2
  <2>. QED BY <2>1, <2>2
<1>13. \A k \in DOMAIN m : e[k] = NormalPart(k, m[k])
  <2>. SUFFICES ASSUME NEW k \in DOMAIN m PROVE e[k] = NormalPart(k, m[k])
    OBVIOUS
  <2>1. CASE k \in PredicateKeys
    <3>1. k # "props"
      BY <2>1 DEF PredicateKeys
    <3>. QED BY <1>6, <2>1, <3>1 DEF NormalPart
  <2>2. CASE k \notin PredicateKeys
    BY <1>0, <1>12, <2>2 DEF NormalPart
  <2>. QED BY <2>1, <2>2
<1>14. e = [k \in DOMAIN m |-> e[k]]
  BY <1>4 DEF IsRecord
<1>. QED BY <1>13, <1>14 DEF NormalShape

-----------------------------------------------------------------------------
(***************************************************************************)
(* Properties.                                                             *)
(***************************************************************************)
\* SetToSeq lists every element of a finite set once.
LEMMA SetToSeqLists ==
  ASSUME NEW S, IsFiniteSet(S), NEW s, s = SetToSeq(S)
  PROVE  /\ DOMAIN s = 1..Cardinality(S) /\ Cardinality(S) \in Nat
         /\ \A i \in DOMAIN s : s[i] \in S
         /\ \A i, j \in DOMAIN s : s[i] = s[j] => i = j
         /\ \A x \in S : \E i \in DOMAIN s : s[i] = x
<1>1. PICK n \in Nat : n = Cardinality(S)
  BY FS_CardinalityType
<1>2. ExistsBijection(1..n, S)
  BY <1>1, FS_CardinalityType
<1>3. PICK f \in [1..n -> S] : IsInjective(f)
  BY <1>2 DEF ExistsBijection, Bijection, Injection
<1>4. s = CHOOSE g \in [1..n -> S] : IsInjective(g)
  BY <1>1 DEF SetToSeq
<1>5. s \in [1..n -> S] /\ IsInjective(s)
  BY <1>3, <1>4
<1>6. s \in Injection(1..n, S)
  BY <1>5 DEF Injection
<1>7. Cardinality(1..n) = n
  BY <1>1, FS_Interval
<1>8. s \in Surjection(1..n, S)
  BY <1>1, <1>6, <1>7, FS_Injection
<1>9. \A x \in S : \E i \in 1..n : s[i] = x
  BY <1>8 DEF Surjection
<1>. QED BY <1>1, <1>5, <1>9 DEF IsInjective

\* A property in the list a map is sent as.
NameValue(n, v) == [name |-> n, value |-> v]
ProtoProperty(c, p) == Whole([p EXCEPT !.value = ProtoValue(c, @)])

\* The protobuf layer copies a property.
LEMMA ProtoPropertyStep ==
  ASSUME NEW c, NEW n, NEW v, ProtoProperty(c, NameValue(n, v)) # Refused
  PROVE  ProtoProperty(c, NameValue(n, v)) = NameValue(n, v)
<1>1. PICK x : x = ProtoValue(c, v)
  OBVIOUS
<1>2. PICK q : q = [NameValue(n, v) EXCEPT !.value = x]
  OBVIOUS
<1>3. q = NameValue(n, x)
  BY <1>2 DEF NameValue
<1>4. NameValue(n, v).value = v
  BY DEF NameValue
<1>5. ProtoProperty(c, NameValue(n, v)) = Whole([NameValue(n, v) EXCEPT !.value = ProtoValue(c, NameValue(n, v).value)])
  BY DEF ProtoProperty
<1>6. ProtoProperty(c, NameValue(n, v)) = Whole(q)
  BY <1>1, <1>2, <1>4, <1>5
<1>7. ProtoProperty(c, NameValue(n, v)) = q /\ \A k \in DOMAIN q : q[k] # Refused
  BY <1>6, WholeIs
<1>8. x # Refused
  BY <1>3, <1>7 DEF NameValue
<1>9. x = v
  BY <1>1, <1>8 DEF ProtoValue, Required
<1>. QED BY <1>3, <1>7, <1>9

\* A list of properties.
PropList(m) ==
  m # Nothing /\ IsRecord(m) /\ \A i \in DOMAIN m : m[i] = NameValue(m[i].name, m[i].value)

\* The protobuf layer copies a list of properties.
LEMMA ProtoPropertyMapStep ==
  ASSUME NEW c, NEW m, PropList(m), ProtoPropertyMap(c, m) # Refused
  PROVE  ProtoPropertyMap(c, m) = m
<1>1. PICK q : q = [i \in DOMAIN m |-> ProtoProperty(c, m[i])]
  OBVIOUS
<1>2. ProtoPropertyMap(c, m) = Whole(q)
  BY <1>1 DEF ProtoPropertyMap, Each, ProtoProperty, PropList
<1>3. ProtoPropertyMap(c, m) = q /\ \A i \in DOMAIN q : q[i] # Refused
  BY <1>2, WholeIs
<1>4. ASSUME NEW i \in DOMAIN m PROVE q[i] = m[i]
  <2>1. q[i] = ProtoProperty(c, NameValue(m[i].name, m[i].value)) /\ q[i] # Refused
    BY <1>1, <1>3 DEF PropList
  <2>. QED BY <2>1, ProtoPropertyStep DEF PropList
<1>5. q = [i \in DOMAIN m |-> q[i]]
  BY <1>1
<1>. QED BY <1>3, <1>4, <1>5 DEF PropList, IsRecord

\* A property map, sent as a list, is the map it was, no name lost and none
\* twice, each value in the spelling of the store.
LEMMA PropsRound ==
  ASSUME NEW m, PropsTyped(m),
         NEW a, a = PropertyMap("encode", m), a # Refused,
         NEW b, b = ProtoPropertyMap("encode", a), b # Refused,
         NEW d, d = ProtoPropertyMap("decode", b), d # Refused,
         NEW e, e = PropertyMap("decode", d), e # Refused
  PROVE  e = Meant(m)
<1>1. IsRecord(m) /\ IsFiniteSet(DOMAIN m) /\ a # Nothing /\ \A k \in DOMAIN m : ValueTyped(m[k])
  BY DEF PropsTyped
<1>2. PICK s : s = SetToSeq(DOMAIN m)
  OBVIOUS
<1>3. PICK n \in Nat : n = Cardinality(DOMAIN m)
  BY <1>1, FS_CardinalityType
<1>4. /\ DOMAIN s = 1..n
      /\ \A i \in 1..n : s[i] \in DOMAIN m
      /\ \A i, j \in 1..n : s[i] = s[j] => i = j
      /\ \A x \in DOMAIN m : \E i \in 1..n : s[i] = x
  BY <1>1, <1>2, <1>3, SetToSeqLists
<1>5. PICK V : V = [i \in 1..n |-> PropertyValueOf(m[s[i]])]
  OBVIOUS
<1>6. a = [i \in 1..n |-> NameValue(s[i], V[i])] /\ \A i \in 1..n : V[i] # Refused
  <2>1. PICK q : q = [i \in 1..n |-> Whole(NameValue(s[i], V[i]))]
    OBVIOUS
  <2>2. a = Each(s, LAMBDA x : Whole([name |-> x, value |-> PropertyValueOf(m[x])]))
    BY <1>2 DEF PropertyMap
  <2>3. a = Whole([i \in DOMAIN s |-> Whole([name |-> s[i], value |-> PropertyValueOf(m[s[i]])])])
    BY <2>2 DEF Each
  <2>4. a = Whole(q)
    BY <1>4, <1>5, <2>1, <2>3 DEF NameValue
  <2>5. a = q /\ \A i \in 1..n : q[i] # Refused
    BY <2>1, <2>4, WholeIs
  <2>6. ASSUME NEW i \in 1..n PROVE q[i] = NameValue(s[i], V[i]) /\ V[i] # Refused
    <3>1. PICK p : p = NameValue(s[i], V[i])
      OBVIOUS
    <3>2. q[i] = p /\ \A k \in DOMAIN p : p[k] # Refused
      BY <2>1, <2>5, <3>1, WholeIs
    <3>3. "value" \in DOMAIN p /\ p["value"] = V[i]
      BY <3>1 DEF NameValue
    <3>. QED BY <3>1, <3>2, <3>3
  <2>7. q = [i \in 1..n |-> q[i]]
    BY <2>1
  <2>. QED BY <2>5, <2>6, <2>7
<1>7. DOMAIN a = 1..n /\ \A i \in 1..n : a[i].name = s[i] /\ a[i].value = V[i]
  BY <1>6 DEF NameValue
<1>8. PropList(a)
  BY <1>1, <1>6, <1>7 DEF PropList, IsRecord
<1>9. b = a /\ d = a
  <2>1. b = a
    BY <1>8, ProtoPropertyMapStep
  <2>. QED BY <1>8, <2>1, ProtoPropertyMapStep
<1>10. PICK S : S = {a[i].name : i \in DOMAIN a}
  OBVIOUS
<1>11. PICK q : q = [x \in S |-> ValueOf(a[CHOOSE i \in DOMAIN a : a[i].name = x].value)]
  OBVIOUS
<1>12. e = Whole(q) /\ S = DOMAIN m
  <2>1. PropertyMap("decode", a) = IF Cardinality(S) # Len(a) THEN Refused ELSE Whole(q)
    BY <1>10, <1>11 DEF PropertyMap
  <2>2. e = Whole(q)
    BY <1>9, <2>1
  <2>3. \A x \in S : x \in DOMAIN m
    BY <1>4, <1>7, <1>10
  <2>4. ASSUME NEW x \in DOMAIN m PROVE x \in S
    <3>1. PICK i \in 1..n : s[i] = x
      BY <1>4
    <3>2. i \in DOMAIN a /\ a[i].name = x
      BY <1>7, <3>1
    <3>. QED BY <1>10, <3>2
  <2>. QED BY <2>2, <2>3, <2>4
<1>13. e = q /\ \A x \in DOMAIN m : q[x] # Refused
  BY <1>11, <1>12, WholeIs
<1>14. ASSUME NEW x \in DOMAIN m PROVE q[x] = MeantValue(m[x])
  <2>1. PICK i : i = CHOOSE j \in DOMAIN a : a[j].name = x
    OBVIOUS
  <2>2. i \in 1..n /\ a[i].name = x
    BY <1>4, <1>7, <2>1
  <2>3. s[i] = x /\ V[i] = PropertyValueOf(m[x]) /\ a[i].value = V[i] /\ V[i] # Refused
    BY <1>5, <1>6, <1>7, <2>2
  <2>4. q[x] = ValueOf(PropertyValueOf(m[x])) /\ q[x] # Refused
    BY <1>11, <1>12, <1>13, <2>1, <2>3
  <2>. QED BY <1>1, <2>3, <2>4, PropertyValueRound
<1>15. e = [x \in DOMAIN m |-> q[x]]
  BY <1>11, <1>12, <1>13
<1>. QED BY <1>14, <1>15 DEF Meant

-----------------------------------------------------------------------------
(***************************************************************************)
(* Models.                                                                 *)
(***************************************************************************)
\* Messages in which one field is converted.
WithType(m, x) == Whole([m EXCEPT !.value_type = x])

\* The conversion changes that field alone.
LEMMA WithTypeSets ==
  ASSUME NEW m, IsRecord(m), "value_type" \in DOMAIN m, NEW x, WithType(m, x) # Refused
  PROVE  Sets(WithType(m, x), m, "value_type", x) /\ x # Refused
<1>1. PICK q : q = [m EXCEPT !.value_type = x]
  OBVIOUS
<1>2. q = [k \in DOMAIN m |-> IF k = "value_type" THEN x ELSE m[k]]
  BY <1>1 DEF IsRecord
<1>3. Sets(q, m, "value_type", x)
  BY <1>2 DEF Sets, IsRecord
<1>4. WithType(m, x) = Whole(q)
  BY <1>1 DEF WithType
<1>5. WithType(m, x) = q /\ \A k \in DOMAIN q : q[k] # Refused
  BY <1>4, WholeIs
<1>. QED BY <1>2, <1>3, <1>5

WithFields(m, x) == Whole([m EXCEPT !.fields = x])

\* The conversion changes that field alone.
LEMMA WithFieldsSets ==
  ASSUME NEW m, IsRecord(m), "fields" \in DOMAIN m, NEW x, WithFields(m, x) # Refused
  PROVE  Sets(WithFields(m, x), m, "fields", x) /\ x # Refused
<1>1. PICK q : q = [m EXCEPT !.fields = x]
  OBVIOUS
<1>2. q = [k \in DOMAIN m |-> IF k = "fields" THEN x ELSE m[k]]
  BY <1>1 DEF IsRecord
<1>3. Sets(q, m, "fields", x)
  BY <1>2 DEF Sets, IsRecord
<1>4. WithFields(m, x) = Whole(q)
  BY <1>1 DEF WithFields
<1>5. WithFields(m, x) = q /\ \A k \in DOMAIN q : q[k] # Refused
  BY <1>4, WholeIs
<1>. QED BY <1>2, <1>3, <1>5

WithProps(m, x) == Whole([m EXCEPT !.props = x])

\* The conversion changes that field alone.
LEMMA WithPropsSets ==
  ASSUME NEW m, IsRecord(m), "props" \in DOMAIN m, NEW x, WithProps(m, x) # Refused
  PROVE  Sets(WithProps(m, x), m, "props", x) /\ x # Refused
<1>1. PICK q : q = [m EXCEPT !.props = x]
  OBVIOUS
<1>2. q = [k \in DOMAIN m |-> IF k = "props" THEN x ELSE m[k]]
  BY <1>1 DEF IsRecord
<1>3. Sets(q, m, "props", x)
  BY <1>2 DEF Sets, IsRecord
<1>4. WithProps(m, x) = Whole(q)
  BY <1>1 DEF WithProps
<1>5. WithProps(m, x) = q /\ \A k \in DOMAIN q : q[k] # Refused
  BY <1>4, WholeIs
<1>. QED BY <1>2, <1>3, <1>5

WithQuery(m, x) == Whole([m EXCEPT !.query = x])

\* The conversion changes that field alone.
LEMMA WithQuerySets ==
  ASSUME NEW m, IsRecord(m), "query" \in DOMAIN m, NEW x, WithQuery(m, x) # Refused
  PROVE  Sets(WithQuery(m, x), m, "query", x) /\ x # Refused
<1>1. PICK q : q = [m EXCEPT !.query = x]
  OBVIOUS
<1>2. q = [k \in DOMAIN m |-> IF k = "query" THEN x ELSE m[k]]
  BY <1>1 DEF IsRecord
<1>3. Sets(q, m, "query", x)
  BY <1>2 DEF Sets, IsRecord
<1>4. WithQuery(m, x) = Whole(q)
  BY <1>1 DEF WithQuery
<1>5. WithQuery(m, x) = q /\ \A k \in DOMAIN q : q[k] # Refused
  BY <1>4, WholeIs
<1>. QED BY <1>2, <1>3, <1>5

WithShape(m, x) == Whole([m EXCEPT !.shape = x])

\* The conversion changes that field alone.
LEMMA WithShapeSets ==
  ASSUME NEW m, IsRecord(m), "shape" \in DOMAIN m, NEW x, WithShape(m, x) # Refused
  PROVE  Sets(WithShape(m, x), m, "shape", x) /\ x # Refused
<1>1. PICK q : q = [m EXCEPT !.shape = x]
  OBVIOUS
<1>2. q = [k \in DOMAIN m |-> IF k = "shape" THEN x ELSE m[k]]
  BY <1>1 DEF IsRecord
<1>3. Sets(q, m, "shape", x)
  BY <1>2 DEF Sets, IsRecord
<1>4. WithShape(m, x) = Whole(q)
  BY <1>1 DEF WithShape
<1>5. WithShape(m, x) = q /\ \A k \in DOMAIN q : q[k] # Refused
  BY <1>4, WholeIs
<1>. QED BY <1>2, <1>3, <1>5

WithOps(m, x) == Whole([m EXCEPT !.ops = x])

\* The conversion changes that field alone.
LEMMA WithOpsSets ==
  ASSUME NEW m, IsRecord(m), "ops" \in DOMAIN m, NEW x, WithOps(m, x) # Refused
  PROVE  Sets(WithOps(m, x), m, "ops", x) /\ x # Refused
<1>1. PICK q : q = [m EXCEPT !.ops = x]
  OBVIOUS
<1>2. q = [k \in DOMAIN m |-> IF k = "ops" THEN x ELSE m[k]]
  BY <1>1 DEF IsRecord
<1>3. Sets(q, m, "ops", x)
  BY <1>2 DEF Sets, IsRecord
<1>4. WithOps(m, x) = Whole(q)
  BY <1>1 DEF WithOps
<1>5. WithOps(m, x) = q /\ \A k \in DOMAIN q : q[k] # Refused
  BY <1>4, WholeIs
<1>. QED BY <1>2, <1>3, <1>5

\* The conversions of a field specification change its type.
LEMMA FieldSteps ==
  ASSUME NEW f, NEW c
  PROVE  /\ FieldSpec(c, f) =
              WithType(f, IF f.value_type = "Unspecified" THEN Refused ELSE f.value_type)
         /\ ProtoFieldSpec(c, f) = WithType(f, Enum(c, FieldValueTypes, f.value_type))
  BY DEF FieldSpec, ProtoFieldSpec, WithType

\* So do those of a field in a batch.
LEMMA BatchFieldSteps ==
  ASSUME NEW f
  PROVE  /\ BatchField("encode", f) = WithType(f,
              IF {t \in DOMAIN Keywords : Keywords[t] = f.value_type} = {} THEN Refused
              ELSE CHOOSE t \in {t \in DOMAIN Keywords : Keywords[t] = f.value_type} : TRUE)
         /\ BatchField("decode", f) = WithType(f,
              IF f.value_type = "Unspecified" THEN Refused ELSE Keywords[f.value_type])
  BY DEF BatchField, WithType

\* Of two changes of one field the second counts.
LEMMA SetsThrough ==
  ASSUME NEW a, NEW b, NEW p, NEW f, NEW x, NEW y, Sets(a, p, f, x), Sets(b, a, f, y)
  PROVE  Sets(b, p, f, y)
  BY DEF Sets

\* The code of a field type names it.
LEMMA ProtoFieldRound ==
  ASSUME NEW a, EnumTyped(a, "value_type", FieldValueTypes),
         NEW b, b = ProtoFieldSpec("encode", a), b # Refused,
         NEW d, d = ProtoFieldSpec("decode", b), d # Refused
  PROVE  d = a
<1>1. IsRecord(a) /\ "value_type" \in DOMAIN a /\ a.value_type \in Range(FieldValueTypes)
  BY DEF EnumTyped
<1>2. PICK x : x = Enum("encode", FieldValueTypes, a.value_type)
  OBVIOUS
<1>3. b = WithType(a, x)
  BY <1>2, FieldSteps
<1>4. Sets(b, a, "value_type", x) /\ x # Refused
  BY <1>1, <1>3, WithTypeSets
<1>5. IsRecord(b) /\ "value_type" \in DOMAIN b /\ b.value_type = x
  BY <1>1, <1>4 DEF Sets
<1>6. PICK y : y = Enum("decode", FieldValueTypes, x)
  OBVIOUS
<1>7. d = WithType(b, y)
  BY <1>5, <1>6, FieldSteps
<1>8. Sets(d, b, "value_type", y)
  BY <1>5, <1>7, WithTypeSets
<1>9. y = a.value_type
  BY <1>1, <1>2, <1>4, <1>6, EnumCodes, EnumNames
<1>10. Sets(d, a, "value_type", a.value_type)
  BY <1>4, <1>8, <1>9, SetsThrough
<1>11. Sets(a, a, "value_type", a.value_type)
  BY <1>1 DEF Sets
<1>. QED BY <1>10, <1>11, SetsUnique

\* The service layer copies a field specification.
LEMMA FieldSpecSame ==
  ASSUME NEW f, IsRecord(f), "value_type" \in DOMAIN f, NEW c, FieldSpec(c, f) # Refused
  PROVE  FieldSpec(c, f) = f
<1>1. PICK x : x = IF f.value_type = "Unspecified" THEN Refused ELSE f.value_type
  OBVIOUS
<1>2. FieldSpec(c, f) = WithType(f, x)
  BY <1>1, FieldSteps
<1>3. Sets(FieldSpec(c, f), f, "value_type", x) /\ x # Refused
  BY <1>2, WithTypeSets
<1>4. x = f.value_type
  BY <1>1, <1>3
<1>5. Sets(f, f, "value_type", f.value_type)
  BY DEF Sets
<1>. QED BY <1>3, <1>4, <1>5, SetsUnique

\* A field specification arrives as it was.
LEMMA FieldRound ==
  ASSUME NEW f, EnumTyped(f, "value_type", FieldValueTypes),
         NEW a, a = FieldSpec("encode", f), a # Refused,
         NEW b, b = ProtoFieldSpec("encode", a), b # Refused,
         NEW d, d = ProtoFieldSpec("decode", b), d # Refused,
         NEW e, e = FieldSpec("decode", d), e # Refused
  PROVE  e = f
<1>1. a = f
  BY FieldSpecSame DEF EnumTyped
<1>2. d = f
  BY <1>1, ProtoFieldRound
<1>. QED BY <1>2, FieldSpecSame DEF EnumTyped

\* In a batch the keyword of a field type comes back: two types share none.
LEMMA BatchFieldRound ==
  ASSUME NEW f, IsRecord(f), "value_type" \in DOMAIN f,
         NEW a, a = BatchField("encode", f), a # Refused,
         NEW b, b = ProtoFieldSpec("encode", a), b # Refused,
         NEW d, d = ProtoFieldSpec("decode", b), d # Refused,
         NEW e, e = BatchField("decode", d), e # Refused
  PROVE  e = f
<1>1. PICK S : S = {t \in DOMAIN Keywords : Keywords[t] = f.value_type}
  OBVIOUS
<1>2. PICK x : x = IF S = {} THEN Refused ELSE CHOOSE t \in S : TRUE
  OBVIOUS
<1>3. a = WithType(f, x)
  BY <1>1, <1>2, BatchFieldSteps
<1>4. Sets(a, f, "value_type", x) /\ x # Refused
  BY <1>3, WithTypeSets
<1>5. x \in S
  BY <1>2, <1>4
<1>6. x \in DOMAIN Keywords /\ Keywords[x] = f.value_type
  BY <1>1, <1>5
<1>7. x \in Range(FieldValueTypes)
  <2>1. x \in {FieldValueTypes[i] : i \in 2..11}
    BY <1>6 DEF Keywords, FieldValueTypes
  <2>. QED BY <2>1 DEF Range, FieldValueTypes
<1>8. IsRecord(a) /\ "value_type" \in DOMAIN a /\ a["value_type"] = x
  BY <1>4 DEF Sets
<1>9. d = a
  BY <1>7, <1>8, ProtoFieldRound DEF EnumTyped
<1>10. PICK y : y = IF a.value_type = "Unspecified" THEN Refused ELSE Keywords[a.value_type]
  OBVIOUS
<1>11. e = WithType(a, y)
  BY <1>9, <1>10, BatchFieldSteps
<1>12. Sets(e, a, "value_type", y) /\ y # Refused
  BY <1>8, <1>11, WithTypeSets
<1>13. y = f.value_type
  BY <1>6, <1>8, <1>10, <1>12
<1>14. Sets(e, f, "value_type", f.value_type)
  BY <1>4, <1>12, <1>13, SetsThrough
<1>15. Sets(f, f, "value_type", f.value_type)
  BY DEF Sets
<1>. QED BY <1>14, <1>15, SetsUnique

\* The vectors of fields.
FieldsConverted(c, s)      == Each(s, LAMBDA f : FieldSpec(c, f))
ProtoFieldsConverted(c, s) == Each(s, LAMBDA f : ProtoFieldSpec(c, f))
BatchFieldsConverted(c, s) == Each(s, LAMBDA f : BatchField(c, f))

\* Fields are converted one by one.
LEMMA EachFieldSpec ==
  ASSUME NEW c, NEW s, NEW a, a = FieldsConverted(c, s), a # Refused
  PROVE  /\ a = [i \in DOMAIN s |-> FieldSpec(c, s[i])]
         /\ \A i \in DOMAIN s : a[i] # Refused
<1>1. PICK q : q = [i \in DOMAIN s |-> FieldSpec(c, s[i])]
  OBVIOUS
<1>2. a = Whole(q)
  BY <1>1 DEF Each, FieldsConverted
<1>. QED BY <1>1, <1>2, WholeIs

\* Fields are converted one by one.
LEMMA EachProtoFieldSpec ==
  ASSUME NEW c, NEW s, NEW a, a = ProtoFieldsConverted(c, s), a # Refused
  PROVE  /\ a = [i \in DOMAIN s |-> ProtoFieldSpec(c, s[i])]
         /\ \A i \in DOMAIN s : a[i] # Refused
<1>1. PICK q : q = [i \in DOMAIN s |-> ProtoFieldSpec(c, s[i])]
  OBVIOUS
<1>2. a = Whole(q)
  BY <1>1 DEF Each, ProtoFieldsConverted
<1>. QED BY <1>1, <1>2, WholeIs

\* Fields are converted one by one.
LEMMA EachBatchField ==
  ASSUME NEW c, NEW s, NEW a, a = BatchFieldsConverted(c, s), a # Refused
  PROVE  /\ a = [i \in DOMAIN s |-> BatchField(c, s[i])]
         /\ \A i \in DOMAIN s : a[i] # Refused
<1>1. PICK q : q = [i \in DOMAIN s |-> BatchField(c, s[i])]
  OBVIOUS
<1>2. a = Whole(q)
  BY <1>1 DEF Each, BatchFieldsConverted
<1>. QED BY <1>1, <1>2, WholeIs


\* The fields of a model arrive as they were.
LEMMA FieldsRound ==
  ASSUME NEW s, EnumsTyped(s, "value_type", FieldValueTypes),
         NEW a, a = FieldsConverted("encode", s), a # Refused,
         NEW b, b = ProtoFieldsConverted("encode", a), b # Refused,
         NEW d, d = ProtoFieldsConverted("decode", b), d # Refused,
         NEW e, e = FieldsConverted("decode", d), e # Refused
  PROVE  e = s
<1>1. a = [i \in DOMAIN s |-> FieldSpec("encode", s[i])] /\ \A i \in DOMAIN s : a[i] # Refused
  BY EachFieldSpec
<1>2. b = [i \in DOMAIN a |-> ProtoFieldSpec("encode", a[i])] /\ \A i \in DOMAIN a : b[i] # Refused
  BY EachProtoFieldSpec
<1>3. d = [i \in DOMAIN b |-> ProtoFieldSpec("decode", b[i])] /\ \A i \in DOMAIN b : d[i] # Refused
  BY EachProtoFieldSpec
<1>4. e = [i \in DOMAIN d |-> FieldSpec("decode", d[i])] /\ \A i \in DOMAIN d : e[i] # Refused
  BY EachFieldSpec
<1>5. DOMAIN a = DOMAIN s /\ DOMAIN b = DOMAIN s /\ DOMAIN d = DOMAIN s
  BY <1>1, <1>2, <1>3
<1>6. \A i \in DOMAIN s : e[i] = s[i]
  BY <1>1, <1>2, <1>3, <1>4, <1>5, FieldRound DEF EnumsTyped
<1>7. e = [i \in DOMAIN s |-> e[i]]
  BY <1>4, <1>5
<1>. QED BY <1>6, <1>7 DEF EnumsTyped, IsRecord

\* The fields of a model in a batch arrive as they were.
LEMMA BatchFieldsRound ==
  ASSUME NEW s, KeywordsTyped(s),
         NEW a, a = BatchFieldsConverted("encode", s), a # Refused,
         NEW b, b = ProtoFieldsConverted("encode", a), b # Refused,
         NEW d, d = ProtoFieldsConverted("decode", b), d # Refused,
         NEW e, e = BatchFieldsConverted("decode", d), e # Refused
  PROVE  e = s
<1>1. a = [i \in DOMAIN s |-> BatchField("encode", s[i])] /\ \A i \in DOMAIN s : a[i] # Refused
  BY EachBatchField
<1>2. b = [i \in DOMAIN a |-> ProtoFieldSpec("encode", a[i])] /\ \A i \in DOMAIN a : b[i] # Refused
  BY EachProtoFieldSpec
<1>3. d = [i \in DOMAIN b |-> ProtoFieldSpec("decode", b[i])] /\ \A i \in DOMAIN b : d[i] # Refused
  BY EachProtoFieldSpec
<1>4. e = [i \in DOMAIN d |-> BatchField("decode", d[i])] /\ \A i \in DOMAIN d : e[i] # Refused
  BY EachBatchField
<1>5. DOMAIN a = DOMAIN s /\ DOMAIN b = DOMAIN s /\ DOMAIN d = DOMAIN s
  BY <1>1, <1>2, <1>3
<1>6. \A i \in DOMAIN s : e[i] = s[i]
  BY <1>1, <1>2, <1>3, <1>4, <1>5, BatchFieldRound DEF KeywordsTyped
<1>7. e = [i \in DOMAIN s |-> e[i]]
  BY <1>4, <1>5
<1>. QED BY <1>6, <1>7 DEF KeywordsTyped, IsRecord

\* The definition of a model is converted in its fields.
LEMMA FieldsOf ==
  ASSUME NEW m, NEW c
  PROVE  /\ Define(c, m) = WithFields(m, FieldsConverted(c, m.fields))
         /\ ProtoDefine(c, m) = WithFields(m, ProtoFieldsConverted(c, m.fields))
         /\ Whole([m EXCEPT !.fields = Each(@, LAMBDA f : BatchField(c, f))])
              = WithFields(m, BatchFieldsConverted(c, m.fields))
  BY DEF Define, ProtoDefine, WithFields, FieldsConverted, ProtoFieldsConverted, BatchFieldsConverted

\* The definition of a model arrives as it was.
LEMMA DefineRound ==
  ASSUME NEW m, IsRecord(m), "fields" \in DOMAIN m,
         EnumsTyped(m.fields, "value_type", FieldValueTypes),
         NEW a, a = Define("encode", m), a # Refused,
         NEW b, b = ProtoDefine("encode", a), b # Refused,
         NEW d, d = ProtoDefine("decode", b), d # Refused,
         NEW e, e = Define("decode", d), e # Refused
  PROVE  e = m
<1>1. PICK x : x = FieldsConverted("encode", m.fields)
  OBVIOUS
<1>2. a = WithFields(m, x)
  BY <1>1, FieldsOf
<1>3. Sets(a, m, "fields", x) /\ x # Refused
  BY <1>2, WithFieldsSets
<1>4. IsRecord(a) /\ "fields" \in DOMAIN a /\ a.fields = x
  BY <1>3 DEF Sets
<1>5. PICK y : y = ProtoFieldsConverted("encode", x)
  OBVIOUS
<1>6. b = WithFields(a, y)
  BY <1>4, <1>5, FieldsOf
<1>7. Sets(b, a, "fields", y) /\ y # Refused
  BY <1>4, <1>6, WithFieldsSets
<1>8. IsRecord(b) /\ "fields" \in DOMAIN b /\ b.fields = y
  BY <1>4, <1>7 DEF Sets
<1>9. PICK z : z = ProtoFieldsConverted("decode", y)
  OBVIOUS
<1>10. d = WithFields(b, z)
  BY <1>8, <1>9, FieldsOf
<1>11. Sets(d, b, "fields", z) /\ z # Refused
  BY <1>8, <1>10, WithFieldsSets
<1>12. IsRecord(d) /\ "fields" \in DOMAIN d /\ d.fields = z
  BY <1>8, <1>11 DEF Sets
<1>13. PICK w : w = FieldsConverted("decode", z)
  OBVIOUS
<1>14. e = WithFields(d, w)
  BY <1>12, <1>13, FieldsOf
<1>15. Sets(e, d, "fields", w) /\ w # Refused
  BY <1>12, <1>14, WithFieldsSets
<1>16. w = m.fields
  BY <1>1, <1>3, <1>5, <1>7, <1>9, <1>11, <1>13, <1>15, FieldsRound
<1>17. Sets(e, m, "fields", m.fields)
  BY <1>3, <1>7, <1>11, <1>15, <1>16, SetsThrough
<1>18. Sets(m, m, "fields", m.fields)
  BY DEF Sets
<1>. QED BY <1>17, <1>18, SetsUnique

-----------------------------------------------------------------------------
(***************************************************************************)
(* Batches.                                                                *)
(***************************************************************************)
\* EXCEPT as a change of one field.
LEMMA SetIs ==
  ASSUME NEW p, IsRecord(p), "is" \in DOMAIN p, NEW x
  PROVE  Sets([p EXCEPT !.is = x], p, "is", x)
<1>1. [p EXCEPT !.is = x] = [k \in DOMAIN p |-> IF k = "is" THEN x ELSE p[k]]
  BY DEF IsRecord
<1>. QED BY <1>1 DEF Sets, IsRecord

\* An endpoint names an id or a reference at both ends.
LEMMA EndpointRound ==
  ASSUME NEW p, EndpointTyped(p)
  PROVE  Endpoint("decode", Endpoint("encode", p)) = p
<1>1. IsRecord(p) /\ "is" \in DOMAIN p /\ p.is \in {"Id", "Ref"}
  BY DEF EndpointTyped
<1>2. CASE p.is = "Id"
  <2>1. Endpoint("encode", p) = p /\ Endpoint("decode", p) = p
    BY <1>2 DEF Endpoint
  <2>. QED BY <2>1
<1>3. CASE p.is = "Ref"
  <2>1. PICK a : a = [p EXCEPT !.is = "LocalRef"]
    OBVIOUS
  <2>2. Endpoint("encode", p) = a
    BY <1>3, <2>1 DEF Endpoint
  <2>3. Sets(a, p, "is", "LocalRef")
    BY <1>1, <2>1, SetIs
  <2>4. IsRecord(a) /\ "is" \in DOMAIN a /\ a.is = "LocalRef"
    BY <1>1, <2>3 DEF Sets
  <2>5. PICK b : b = [a EXCEPT !.is = "Ref"]
    OBVIOUS
  <2>6. Endpoint("decode", a) = b
    BY <2>4, <2>5 DEF Endpoint
  <2>7. Sets(b, a, "is", "Ref")
    BY <2>4, <2>5, SetIs
  <2>8. Sets(b, p, "is", "Ref")
    BY <2>3, <2>7, SetsThrough
  <2>9. Sets(p, p, "is", "Ref")
    BY <1>1, <1>3 DEF Sets
  <2>. QED BY <2>2, <2>6, <2>8, <2>9, SetsUnique
<1>. QED BY <1>1, <1>2, <1>3

\* A message without values is its own normal form.
LEMMA NormalShapeSame ==
  ASSUME NEW m, IsRecord(m), "props" \notin DOMAIN m, PredicateKeys \cap DOMAIN m = {}
  PROVE  NormalShape(m) = m
<1>1. \A k \in DOMAIN m : NormalPart(k, m[k]) = m[k]
  BY DEF NormalPart
<1>. QED BY <1>1 DEF NormalShape, IsRecord

\* The normal form of a message with properties and no predicates.
LEMMA NormalShapeProps ==
  ASSUME NEW m, IsRecord(m), "props" \in DOMAIN m, PredicateKeys \cap DOMAIN m = {},
         NEW e, Sets(e, m, "props", Meant(m.props))
  PROVE  e = NormalShape(m)
<1>1. \A k \in DOMAIN m : e[k] = NormalPart(k, m[k])
  <2>. SUFFICES ASSUME NEW k \in DOMAIN m PROVE e[k] = NormalPart(k, m[k])
    OBVIOUS
  <2>1. CASE k = "props"
    <3>1. k \notin PredicateKeys
      BY <2>1 DEF PredicateKeys
    <3>. QED BY <2>1, <3>1 DEF NormalPart, Sets
  <2>2. CASE k # "props"
    BY <2>2 DEF NormalPart, Sets
  <2>. QED BY <2>1, <2>2
<1>2. e = [k \in DOMAIN m |-> e[k]]
  BY DEF Sets, IsRecord
<1>. QED BY <1>1, <1>2 DEF NormalShape

\* A message of which both layers convert the properties arrives with them in
\* the spelling of the store.
LEMMA WithPropsRound ==
  ASSUME NEW m, IsRecord(m), "props" \in DOMAIN m, PropsTyped(m.props),
         NEW a, a = WithProps(m, PropertyMap("encode", m.props)), a # Refused,
         NEW b, b = WithProps(a, ProtoPropertyMap("encode", a.props)), b # Refused,
         NEW d, d = WithProps(b, ProtoPropertyMap("decode", b.props)), d # Refused,
         NEW e, e = WithProps(d, PropertyMap("decode", d.props)), e # Refused
  PROVE  Sets(e, m, "props", Meant(m.props))
<1>1. PICK x : x = PropertyMap("encode", m.props)
  OBVIOUS
<1>2. Sets(a, m, "props", x) /\ x # Refused
  BY <1>1, WithPropsSets
<1>3. IsRecord(a) /\ "props" \in DOMAIN a /\ a.props = x
  BY <1>2 DEF Sets
<1>4. PICK y : y = ProtoPropertyMap("encode", x)
  OBVIOUS
<1>5. Sets(b, a, "props", y) /\ y # Refused
  BY <1>3, <1>4, WithPropsSets
<1>6. IsRecord(b) /\ "props" \in DOMAIN b /\ b.props = y
  BY <1>3, <1>5 DEF Sets
<1>7. PICK z : z = ProtoPropertyMap("decode", y)
  OBVIOUS
<1>8. Sets(d, b, "props", z) /\ z # Refused
  BY <1>6, <1>7, WithPropsSets
<1>9. IsRecord(d) /\ "props" \in DOMAIN d /\ d.props = z
  BY <1>6, <1>8 DEF Sets
<1>10. PICK w : w = PropertyMap("decode", z)
  OBVIOUS
<1>11. Sets(e, d, "props", w) /\ w # Refused
  BY <1>9, <1>10, WithPropsSets
<1>12. w = Meant(m.props)
  BY <1>1, <1>2, <1>4, <1>5, <1>7, <1>8, <1>10, <1>11, PropsRound
<1>. QED BY <1>2, <1>5, <1>8, <1>11, <1>12, SetsThrough

\* An edge created in a batch: its endpoints and its properties.
WithEnds(c, o) ==
  Whole([o EXCEPT !.from = Endpoint(c, @), !.to = Endpoint(c, @), !.props = PropertyMap(c, @)])

\* The operations of a batch, by the fields that are converted.
LEMMA BatchOperationIs ==
  ASSUME NEW c, NEW o
  PROVE  BatchOperation(c, o) =
           CASE o.type \in DefineOps -> WithFields(o, BatchFieldsConverted(c, o.fields))
             [] o.type \in DeleteOps -> o
             [] o.type = "EdgeCreate" -> WithEnds(c, o)
             [] OTHER -> WithProps(o, PropertyMap(c, o.props))
  BY DEF BatchOperation, WithFields, WithEnds, WithProps, BatchFieldsConverted, DefineOps, DeleteOps

\* The same of the protobuf layer.
LEMMA ProtoBatchOperationIs ==
  ASSUME NEW c, NEW o, ProtoBatchOperation(c, o) # Refused
  PROVE  ProtoBatchOperation(c, o) =
           CASE o.type \in DefineOps -> WithFields(o, ProtoFieldsConverted(c, o.fields))
             [] o.type \in DeleteOps -> o
             [] OTHER -> WithProps(o, ProtoPropertyMap(c, o.props))
<1>1. ProtoBatchOperation(c, o) =
           CASE o.type \in DefineOps -> ProtoDefine(c, o)
             [] o.type \in DeleteOps -> o
             [] OTHER -> ProtoBatchCreate(c, o)
  BY DEF ProtoBatchOperation, DefineOps, DeleteOps
<1>2. ProtoBatchCreate(c, o) \in {Refused, WithProps(o, ProtoPropertyMap(c, o.props))}
  <2>1. ProtoBatchCreate(c, o) =
          IF o.type = "EdgeCreate" /\ Refused \in {Required(c, o.from), Required(c, o.to)}
          THEN Refused ELSE WithProps(o, ProtoPropertyMap(c, o.props))
    BY DEF ProtoBatchCreate, WithProps
  <2>. QED BY <2>1
<1>3. ProtoDefine(c, o) = WithFields(o, ProtoFieldsConverted(c, o.fields))
  BY FieldsOf
<1>4. CASE o.type \in DefineOps \cup DeleteOps
  BY <1>1, <1>3, <1>4
<1>5. CASE o.type \notin DefineOps \cup DeleteOps
  BY <1>1, <1>2, <1>5
<1>. QED BY <1>4, <1>5

\* The conversion of an operation by its type.
LEMMA BatchOperationByType ==
  ASSUME NEW c, NEW o
  PROVE  /\ o.type \in DefineOps => BatchOperation(c, o) = WithFields(o, BatchFieldsConverted(c, o.fields))
         /\ o.type \in DeleteOps => BatchOperation(c, o) = o
         /\ o.type = "EdgeCreate" => BatchOperation(c, o) = WithEnds(c, o)
         /\ o.type \in PropsOps => BatchOperation(c, o) = WithProps(o, PropertyMap(c, o.props))
  BY BatchOperationIs DEF DefineOps, DeleteOps, PropsOps

\* The same of the protobuf layer.
LEMMA ProtoBatchOperationByType ==
  ASSUME NEW c, NEW o, ProtoBatchOperation(c, o) # Refused
  PROVE  /\ o.type \in DefineOps =>
              ProtoBatchOperation(c, o) = WithFields(o, ProtoFieldsConverted(c, o.fields))
         /\ o.type \in DeleteOps => ProtoBatchOperation(c, o) = o
         /\ o.type \in PropsOps \cup {"EdgeCreate"} =>
              ProtoBatchOperation(c, o) = WithProps(o, ProtoPropertyMap(c, o.props))
  BY ProtoBatchOperationIs DEF DefineOps, DeleteOps, PropsOps

\* The conversion of an edge changes three fields.
LEMMA WithEndsSets ==
  ASSUME NEW o, IsRecord(o), {"from", "to", "props"} \subseteq DOMAIN o, NEW c,
         NEW a, a = WithEnds(c, o), a # Refused
  PROVE  /\ IsRecord(a) /\ DOMAIN a = DOMAIN o
         /\ a.from = Endpoint(c, o.from) /\ a.to = Endpoint(c, o.to)
         /\ a.props = PropertyMap(c, o.props) /\ a.props # Refused
         /\ \A k \in DOMAIN o : k \notin {"from", "to", "props"} => a[k] = o[k]
<1>1. PICK x : x = Endpoint(c, o.from)
  OBVIOUS
<1>2. PICK y : y = Endpoint(c, o.to)
  OBVIOUS
<1>3. PICK z : z = PropertyMap(c, o.props)
  OBVIOUS
<1>4. PICK q : q = [o EXCEPT !.from = x, !.to = y, !.props = z]
  OBVIOUS
<1>5. q = [k \in DOMAIN o |-> IF k = "props" THEN z ELSE IF k = "to" THEN y ELSE
                              IF k = "from" THEN x ELSE o[k]]
  BY <1>4 DEF IsRecord
<1>6. a = Whole(q)
  BY <1>1, <1>2, <1>3, <1>4 DEF WithEnds
<1>7. a = q /\ \A k \in DOMAIN q : q[k] # Refused
  BY <1>6, WholeIs
<1>8. IsRecord(q) /\ DOMAIN q = DOMAIN o
  BY <1>5 DEF IsRecord
<1>9. q["from"] = x /\ q["to"] = y /\ q["props"] = z
  BY <1>5
<1>10. \A k \in DOMAIN o : k \notin {"from", "to", "props"} => q[k] = o[k]
  BY <1>5
<1>. QED BY <1>1, <1>2, <1>3, <1>7, <1>8, <1>9, <1>10

\* The definition of a model in a batch arrives as it was.
LEMMA BatchDefineRound ==
  ASSUME NEW m, IsRecord(m), "fields" \in DOMAIN m, KeywordsTyped(m.fields),
         NEW a, a = WithFields(m, BatchFieldsConverted("encode", m.fields)), a # Refused,
         NEW b, b = WithFields(a, ProtoFieldsConverted("encode", a.fields)), b # Refused,
         NEW d, d = WithFields(b, ProtoFieldsConverted("decode", b.fields)), d # Refused,
         NEW e, e = WithFields(d, BatchFieldsConverted("decode", d.fields)), e # Refused
  PROVE  e = m
<1>1. PICK x : x = BatchFieldsConverted("encode", m.fields)
  OBVIOUS
<1>2. Sets(a, m, "fields", x) /\ x # Refused
  BY <1>1, WithFieldsSets
<1>3. IsRecord(a) /\ "fields" \in DOMAIN a /\ a.fields = x
  BY <1>2 DEF Sets
<1>4. PICK y : y = ProtoFieldsConverted("encode", x)
  OBVIOUS
<1>5. Sets(b, a, "fields", y) /\ y # Refused
  BY <1>3, <1>4, WithFieldsSets
<1>6. IsRecord(b) /\ "fields" \in DOMAIN b /\ b.fields = y
  BY <1>3, <1>5 DEF Sets
<1>7. PICK z : z = ProtoFieldsConverted("decode", y)
  OBVIOUS
<1>8. Sets(d, b, "fields", z) /\ z # Refused
  BY <1>6, <1>7, WithFieldsSets
<1>9. IsRecord(d) /\ "fields" \in DOMAIN d /\ d.fields = z
  BY <1>6, <1>8 DEF Sets
<1>10. PICK w : w = BatchFieldsConverted("decode", z)
  OBVIOUS
<1>11. Sets(e, d, "fields", w) /\ w # Refused
  BY <1>9, <1>10, WithFieldsSets
<1>12. w = m.fields
  BY <1>1, <1>2, <1>4, <1>5, <1>7, <1>8, <1>10, <1>11, BatchFieldsRound
<1>13. Sets(e, m, "fields", m.fields)
  BY <1>2, <1>5, <1>8, <1>11, <1>12, SetsThrough
<1>14. Sets(m, m, "fields", m.fields)
  BY DEF Sets
<1>. QED BY <1>13, <1>14, SetsUnique

\* A change of another field keeps the type of a message.
LEMMA SetsKeeps ==
  ASSUME NEW q, NEW p, NEW f, NEW x, Sets(q, p, f, x), "type" \in DOMAIN p, f # "type"
  PROVE  "type" \in DOMAIN q /\ q.type = p.type
  BY DEF Sets

\* A change of the fields keeps the type of a message.
LEMMA WithFieldsKeeps ==
  ASSUME NEW m, IsRecord(m), {"fields", "type"} \subseteq DOMAIN m, NEW x, NEW a,
         a = WithFields(m, x), a # Refused
  PROVE  IsRecord(a) /\ {"fields", "type"} \subseteq DOMAIN a /\ a.type = m.type
<1>1. Sets(a, m, "fields", x)
  BY WithFieldsSets
<1>. QED BY <1>1, SetsKeeps DEF Sets

\* A change of the properties keeps the type of a message.
LEMMA WithPropsKeeps ==
  ASSUME NEW m, IsRecord(m), {"props", "type"} \subseteq DOMAIN m, NEW x, NEW a,
         a = WithProps(m, x), a # Refused
  PROVE  IsRecord(a) /\ {"props", "type"} \subseteq DOMAIN a /\ a.type = m.type
<1>1. Sets(a, m, "props", x)
  BY WithPropsSets
<1>. QED BY <1>1, SetsKeeps DEF Sets

\* An operation of a batch arrives with its values in the spelling of the store.
LEMMA OperationRound ==
  ASSUME NEW o, OperationTyped(o),
         NEW a, a = BatchOperation("encode", o), a # Refused,
         NEW b, b = ProtoBatchOperation("encode", a), b # Refused,
         NEW d, d = ProtoBatchOperation("decode", b), d # Refused,
         NEW e, e = BatchOperation("decode", d), e # Refused
  PROVE  e = NormalShape(o)
<1>0. IsRecord(o) /\ "type" \in DOMAIN o /\ PredicateKeys \cap DOMAIN o = {}
  BY DEF OperationTyped
<1>1. CASE o.type \in DefineOps
  <2>1. "fields" \in DOMAIN o /\ KeywordsTyped(o.fields) /\ "props" \notin DOMAIN o
    BY <1>1 DEF OperationTyped
  <2>2. a = WithFields(o, BatchFieldsConverted("encode", o.fields))
    BY <1>1, BatchOperationByType
  <2>3. IsRecord(a) /\ {"fields", "type"} \subseteq DOMAIN a /\ a.type = o.type
    BY <1>0, <2>1, <2>2, WithFieldsKeeps
  <2>4. b = WithFields(a, ProtoFieldsConverted("encode", a.fields))
    BY <1>1, <2>3, ProtoBatchOperationByType
  <2>5. IsRecord(b) /\ {"fields", "type"} \subseteq DOMAIN b /\ b.type = o.type
    BY <2>3, <2>4, WithFieldsKeeps
  <2>6. d = WithFields(b, ProtoFieldsConverted("decode", b.fields))
    BY <1>1, <2>5, ProtoBatchOperationByType
  <2>7. d.type = o.type
    BY <2>5, <2>6, WithFieldsKeeps
  <2>8. e = WithFields(d, BatchFieldsConverted("decode", d.fields))
    BY <1>1, <2>7, BatchOperationByType
  <2>9. e = o
    BY <1>0, <2>1, <2>2, <2>4, <2>6, <2>8, BatchDefineRound
  <2>. QED BY <1>0, <2>1, <2>9, NormalShapeSame
<1>2. CASE o.type \in DeleteOps
  <2>1. a = o
    BY <1>2, BatchOperationByType
  <2>2. b = o
    BY <1>2, <2>1, ProtoBatchOperationByType
  <2>3. d = o
    BY <1>2, <2>2, ProtoBatchOperationByType
  <2>4. e = o
    BY <1>2, <2>3, BatchOperationByType
  <2>5. "props" \notin DOMAIN o
    BY <1>2 DEF OperationTyped
  <2>. QED BY <1>0, <2>4, <2>5, NormalShapeSame
<1>3. CASE o.type \in PropsOps
  <2>1. "props" \in DOMAIN o /\ PropsTyped(o.props)
    BY <1>3 DEF OperationTyped
  <2>2. a = WithProps(o, PropertyMap("encode", o.props))
    BY <1>3, BatchOperationByType
  <2>3. IsRecord(a) /\ {"props", "type"} \subseteq DOMAIN a /\ a.type = o.type
    BY <1>0, <2>1, <2>2, WithPropsKeeps
  <2>4. b = WithProps(a, ProtoPropertyMap("encode", a.props))
    BY <1>3, <2>3, ProtoBatchOperationByType
  <2>5. IsRecord(b) /\ {"props", "type"} \subseteq DOMAIN b /\ b.type = o.type
    BY <2>3, <2>4, WithPropsKeeps
  <2>6. d = WithProps(b, ProtoPropertyMap("decode", b.props))
    BY <1>3, <2>5, ProtoBatchOperationByType
  <2>7. d.type = o.type
    BY <2>5, <2>6, WithPropsKeeps
  <2>8. e = WithProps(d, PropertyMap("decode", d.props))
    BY <1>3, <2>7, BatchOperationByType
  <2>9. Sets(e, o, "props", Meant(o.props))
    BY <1>0, <2>1, <2>2, <2>4, <2>6, <2>8, WithPropsRound
  <2>. QED BY <1>0, <2>1, <2>9, NormalShapeProps
<1>4. CASE o.type = "EdgeCreate"
  <2>1. /\ {"from", "to", "props"} \subseteq DOMAIN o /\ PropsTyped(o.props)
        /\ EndpointTyped(o.from) /\ EndpointTyped(o.to)
    BY <1>4 DEF OperationTyped
  <2>2. a = WithEnds("encode", o)
    BY <1>4, BatchOperationByType
  <2>3. /\ IsRecord(a) /\ DOMAIN a = DOMAIN o
        /\ a.from = Endpoint("encode", o.from) /\ a.to = Endpoint("encode", o.to)
        /\ a.props = PropertyMap("encode", o.props) /\ a.props # Refused
        /\ \A k \in DOMAIN o : k \notin {"from", "to", "props"} => a[k] = o[k]
    BY <1>0, <2>1, <2>2, WithEndsSets
  <2>4. a.type = o.type
    BY <1>0, <2>3
  <2>5. PICK y : y = ProtoPropertyMap("encode", a.props)
    OBVIOUS
  <2>6. b = WithProps(a, y)
    BY <1>4, <2>4, <2>5, ProtoBatchOperationByType
  <2>7. Sets(b, a, "props", y) /\ y # Refused
    BY <2>1, <2>3, <2>6, WithPropsSets
  <2>8. IsRecord(b) /\ "props" \in DOMAIN b /\ b.props = y /\ b.type = o.type
    BY <1>0, <2>1, <2>3, <2>4, <2>7 DEF Sets
  <2>9. PICK z : z = ProtoPropertyMap("decode", y)
    OBVIOUS
  <2>10. d = WithProps(b, z)
    BY <1>4, <2>8, <2>9, ProtoBatchOperationByType
  <2>11. Sets(d, b, "props", z) /\ z # Refused
    BY <2>8, <2>10, WithPropsSets
  <2>12. Sets(d, a, "props", z)
    BY <2>7, <2>11, SetsThrough
  <2>13. /\ IsRecord(d) /\ DOMAIN d = DOMAIN o /\ d.props = z
         /\ d.from = a.from /\ d.to = a.to /\ d.type = o.type
         /\ \A k \in DOMAIN o : k \notin {"from", "to", "props"} => d[k] = o[k]
    BY <1>0, <2>1, <2>3, <2>4, <2>12 DEF Sets
  <2>14. e = WithEnds("decode", d)
    BY <1>4, <2>13, BatchOperationByType
  <2>15. /\ IsRecord(e) /\ DOMAIN e = DOMAIN o
         /\ e.from = Endpoint("decode", d.from) /\ e.to = Endpoint("decode", d.to)
         /\ e.props = PropertyMap("decode", z) /\ e.props # Refused
         /\ \A k \in DOMAIN o : k \notin {"from", "to", "props"} => e[k] = d[k]
    BY <2>1, <2>13, <2>14, WithEndsSets
  <2>16. e.from = o.from /\ e.to = o.to
    BY <2>1, <2>3, <2>13, <2>15, EndpointRound
  <2>17. e.props = Meant(o.props)
    BY <2>1, <2>3, <2>5, <2>7, <2>9, <2>11, <2>15, PropsRound
  <2>18. \A k \in DOMAIN o : k # "props" => e[k] = o[k]
    BY <2>13, <2>15, <2>16
  <2>19. Sets(e, o, "props", Meant(o.props))
    BY <2>15, <2>17, <2>18 DEF Sets
  <2>. QED BY <1>0, <2>1, <2>19, NormalShapeProps
<1>5. o.type \in DefineOps \cup DeleteOps \cup PropsOps \cup {"EdgeCreate"}
  BY DEF OperationTyped
<1>. QED BY <1>1, <1>2, <1>3, <1>4, <1>5

\* The operations of a batch.
OpsConverted(c, s)      == Each(s, LAMBDA o : BatchOperation(c, o))
ProtoOpsConverted(c, s) == Each(s, LAMBDA o : ProtoBatchOperation(c, o))

\* Operations are converted one by one.
LEMMA EachOperation ==
  ASSUME NEW c, NEW s, NEW a, a = OpsConverted(c, s), a # Refused
  PROVE  /\ a = [i \in DOMAIN s |-> BatchOperation(c, s[i])]
         /\ \A i \in DOMAIN s : a[i] # Refused
<1>1. PICK q : q = [i \in DOMAIN s |-> BatchOperation(c, s[i])]
  OBVIOUS
<1>2. a = Whole(q)
  BY <1>1 DEF Each, OpsConverted
<1>. QED BY <1>1, <1>2, WholeIs

\* Operations are converted one by one.
LEMMA EachProtoOperation ==
  ASSUME NEW c, NEW s, NEW a, a = ProtoOpsConverted(c, s), a # Refused
  PROVE  /\ a = [i \in DOMAIN s |-> ProtoBatchOperation(c, s[i])]
         /\ \A i \in DOMAIN s : a[i] # Refused
<1>1. PICK q : q = [i \in DOMAIN s |-> ProtoBatchOperation(c, s[i])]
  OBVIOUS
<1>2. a = Whole(q)
  BY <1>1 DEF Each, ProtoOpsConverted
<1>. QED BY <1>1, <1>2, WholeIs

\* The operations of a batch arrive in their order, none lost.
LEMMA OpsRound ==
  ASSUME NEW s, \A i \in DOMAIN s : OperationTyped(s[i]),
         NEW a, a = OpsConverted("encode", s), a # Refused,
         NEW b, b = ProtoOpsConverted("encode", a), b # Refused,
         NEW d, d = ProtoOpsConverted("decode", b), d # Refused,
         NEW e, e = OpsConverted("decode", d), e # Refused
  PROVE  e = NormalOps(s)
<1>1. a = [i \in DOMAIN s |-> BatchOperation("encode", s[i])] /\ \A i \in DOMAIN s : a[i] # Refused
  BY EachOperation
<1>2. b = [i \in DOMAIN a |-> ProtoBatchOperation("encode", a[i])] /\ \A i \in DOMAIN a : b[i] # Refused
  BY EachProtoOperation
<1>3. d = [i \in DOMAIN b |-> ProtoBatchOperation("decode", b[i])] /\ \A i \in DOMAIN b : d[i] # Refused
  BY EachProtoOperation
<1>4. e = [i \in DOMAIN d |-> BatchOperation("decode", d[i])] /\ \A i \in DOMAIN d : e[i] # Refused
  BY EachOperation
<1>5. DOMAIN a = DOMAIN s /\ DOMAIN b = DOMAIN s /\ DOMAIN d = DOMAIN s
  BY <1>1, <1>2, <1>3
<1>6. \A i \in DOMAIN s : e[i] = NormalShape(s[i])
  BY <1>1, <1>2, <1>3, <1>4, <1>5, OperationRound
<1>7. e = [i \in DOMAIN s |-> e[i]]
  BY <1>4, <1>5
<1>. QED BY <1>6, <1>7 DEF NormalOps

\* A batch is converted in its operations.
LEMMA BatchIs ==
  ASSUME NEW c, NEW m
  PROVE  Batch(c, m) = WithOps(m, OpsConverted(c, m.ops))
  BY DEF Batch, WithOps, OpsConverted

\* The protobuf layer converts the operations and the response mode.
LEMMA ProtoBatchSets ==
  ASSUME NEW m, IsRecord(m), {"ops", "response"} \subseteq DOMAIN m, NEW c,
         NEW a, a = ProtoBatch(c, m), a # Refused
  PROVE  /\ IsRecord(a) /\ DOMAIN a = DOMAIN m
         /\ a.ops = ProtoOpsConverted(c, m.ops) /\ a.ops # Refused
         /\ a.response = Enum(c, ResponseModes, m.response) /\ a.response # Refused
         /\ \A k \in DOMAIN m : k \notin {"ops", "response"} => a[k] = m[k]
<1>1. PICK x : x = Enum(c, ResponseModes, m.response)
  OBVIOUS
<1>2. PICK y : y = ProtoOpsConverted(c, m.ops)
  OBVIOUS
<1>3. PICK q : q = [m EXCEPT !.response = x, !.ops = y]
  OBVIOUS
<1>4. q = [k \in DOMAIN m |-> IF k = "ops" THEN y ELSE IF k = "response" THEN x ELSE m[k]]
  BY <1>3 DEF IsRecord
<1>5. a = Whole(q)
  BY <1>1, <1>2, <1>3 DEF ProtoBatch, ProtoOpsConverted
<1>6. a = q /\ \A k \in DOMAIN q : q[k] # Refused
  BY <1>5, WholeIs
<1>7. IsRecord(q) /\ DOMAIN q = DOMAIN m
  BY <1>4 DEF IsRecord
<1>8. q["ops"] = y /\ q["response"] = x
  BY <1>4
<1>9. \A k \in DOMAIN m : k \notin {"ops", "response"} => q[k] = m[k]
  BY <1>4
<1>. QED BY <1>1, <1>2, <1>6, <1>7, <1>8, <1>9

\* A batch arrives with its operations in normal form and all else as it was.
LEMMA BatchRound ==
  ASSUME NEW m, BatchTyped(m),
         NEW a, a = Batch("encode", m), a # Refused,
         NEW b, b = ProtoBatch("encode", a), b # Refused,
         NEW d, d = ProtoBatch("decode", b), d # Refused,
         NEW e, e = Batch("decode", d), e # Refused
  PROVE  Sets(e, m, "ops", NormalOps(m.ops))
<1>0. /\ IsRecord(m) /\ {"ops", "response"} \subseteq DOMAIN m
      /\ m.response \in Range(ResponseModes) /\ \A i \in DOMAIN m.ops : OperationTyped(m.ops[i])
  BY DEF BatchTyped
<1>1. PICK x : x = OpsConverted("encode", m.ops)
  OBVIOUS
<1>2. a = WithOps(m, x)
  BY <1>1, BatchIs
<1>3. Sets(a, m, "ops", x) /\ x # Refused
  BY <1>0, <1>2, WithOpsSets
<1>4. /\ IsRecord(a) /\ DOMAIN a = DOMAIN m /\ a.ops = x /\ a.response = m.response
      /\ \A k \in DOMAIN m : k # "ops" => a[k] = m[k]
  BY <1>0, <1>3 DEF Sets
<1>5. /\ IsRecord(b) /\ DOMAIN b = DOMAIN m
      /\ b.ops = ProtoOpsConverted("encode", x) /\ b.ops # Refused
      /\ b.response = Enum("encode", ResponseModes, m.response) /\ b.response # Refused
      /\ \A k \in DOMAIN m : k \notin {"ops", "response"} => b[k] = a[k]
  BY <1>0, <1>4, ProtoBatchSets
<1>6. /\ IsRecord(d) /\ DOMAIN d = DOMAIN m
      /\ d.ops = ProtoOpsConverted("decode", b.ops) /\ d.ops # Refused
      /\ d.response = Enum("decode", ResponseModes, b.response)
      /\ \A k \in DOMAIN m : k \notin {"ops", "response"} => d[k] = b[k]
  BY <1>0, <1>5, ProtoBatchSets
<1>7. d.response = m.response
  BY <1>0, <1>5, <1>6, EnumCodes, EnumNames
<1>8. PICK w : w = OpsConverted("decode", d.ops)
  OBVIOUS
<1>9. e = WithOps(d, w)
  BY <1>8, BatchIs
<1>10. Sets(e, d, "ops", w) /\ w # Refused
  BY <1>0, <1>6, <1>9, WithOpsSets
<1>11. w = NormalOps(m.ops)
  BY <1>0, <1>1, <1>3, <1>5, <1>6, <1>8, <1>10, OpsRound
<1>12. \A k \in DOMAIN m : k # "ops" => d[k] = m[k]
  BY <1>4, <1>5, <1>6, <1>7
<1>. QED BY <1>6, <1>10, <1>11, <1>12 DEF Sets

-----------------------------------------------------------------------------
(***************************************************************************)
(* Edge finds and queries.                                                 *)
(***************************************************************************)
\* What the service layer changes in an edge find.
LEMMA SetPredicates ==
  ASSUME NEW m, IsRecord(m), "predicates" \in DOMAIN m, NEW c,
         NEW a, a = EdgeFind(c, m), a # Refused
  PROVE  Sets(a, m, "predicates", Predicates(c, m.predicates)) /\ Predicates(c, m.predicates) # Refused
<1>1. PICK x : x = Predicates(c, m.predicates)
  OBVIOUS
<1>2. PICK q : q = [m EXCEPT !.predicates = x]
  OBVIOUS
<1>3. q = [k \in DOMAIN m |-> IF k = "predicates" THEN x ELSE m[k]]
  BY <1>2 DEF IsRecord
<1>4. a = Whole(q)
  BY <1>1, <1>2 DEF EdgeFind
<1>5. a = q /\ \A k \in DOMAIN q : q[k] # Refused
  BY <1>4, WholeIs
<1>. QED BY <1>1, <1>3, <1>5 DEF Sets, IsRecord

\* What the protobuf layer changes in an edge find.
LEMMA ProtoEdgeFindSets ==
  ASSUME NEW m, IsRecord(m), {"predicates", "order"} \subseteq DOMAIN m, NEW c,
         NEW a, a = ProtoEdgeFind(c, m), a # Refused
  PROVE  /\ IsRecord(a) /\ DOMAIN a = DOMAIN m
         /\ a.predicates = ProtoPredicates(c, m.predicates) /\ a.predicates # Refused
         /\ a.order = DirectionParts(c, OrderDirections, m.order) /\ a.order # Refused
         /\ \A k \in DOMAIN m : k \notin {"predicates", "order"} => a[k] = m[k]
<1>1. PICK x : x = ProtoPredicates(c, m.predicates)
  OBVIOUS
<1>2. PICK y : y = DirectionParts(c, OrderDirections, m.order)
  OBVIOUS
<1>3. PICK q : q = [m EXCEPT !.predicates = x, !.order = y]
  OBVIOUS
<1>4. q = [k \in DOMAIN m |-> IF k = "order" THEN y ELSE IF k = "predicates" THEN x ELSE m[k]]
  BY <1>3 DEF IsRecord
<1>5. a = Whole(q)
  <2>1. y = Each(m.order, LAMBDA s : ProtoOrder(c, s))
    BY <1>2 DEF DirectionParts, DirectionPart, Each, ProtoOrder
  <2>. QED BY <1>1, <1>3, <2>1 DEF ProtoEdgeFind
<1>6. a = q /\ \A k \in DOMAIN q : q[k] # Refused
  BY <1>5, WholeIs
<1>7. IsRecord(q) /\ DOMAIN q = DOMAIN m
  BY <1>4 DEF IsRecord
<1>8. q["predicates"] = x /\ q["order"] = y
  BY <1>4
<1>9. \A k \in DOMAIN m : k \notin {"predicates", "order"} => q[k] = m[k]
  BY <1>4
<1>. QED BY <1>1, <1>2, <1>6, <1>7, <1>8, <1>9

\* An edge find arrives with its predicates in the spelling of the store.
LEMMA EdgeFindRound ==
  ASSUME NEW m, EdgeFindTyped(m),
         NEW a, a = EdgeFind("encode", m), a # Refused,
         NEW b, b = ProtoEdgeFind("encode", a), b # Refused,
         NEW d, d = ProtoEdgeFind("decode", b), d # Refused,
         NEW e, e = EdgeFind("decode", d), e # Refused
  PROVE  e = NormalShape(m)
<1>0. /\ IsRecord(m) /\ {"predicates", "order"} \subseteq DOMAIN m
      /\ {"props", "end_predicates", "edge_predicates"} \cap DOMAIN m = {}
      /\ PredicatesTyped(m.predicates) /\ EnumsTyped(m.order, "direction", OrderDirections)
  BY DEF EdgeFindTyped
<1>1. PICK x : x = Predicates("encode", m.predicates)
  OBVIOUS
<1>2. Sets(a, m, "predicates", x) /\ x # Refused
  BY <1>0, <1>1, SetPredicates
<1>3. /\ IsRecord(a) /\ DOMAIN a = DOMAIN m /\ a.predicates = x /\ a.order = m.order
      /\ \A k \in DOMAIN m : k # "predicates" => a[k] = m[k]
  BY <1>0, <1>2 DEF Sets
<1>4. /\ IsRecord(b) /\ DOMAIN b = DOMAIN m
      /\ b.predicates = ProtoPredicates("encode", x) /\ b.predicates # Refused
      /\ b.order = DirectionParts("encode", OrderDirections, m.order) /\ b.order # Refused
      /\ \A k \in DOMAIN m : k \notin {"predicates", "order"} => b[k] = a[k]
  BY <1>0, <1>3, ProtoEdgeFindSets
<1>5. /\ IsRecord(d) /\ DOMAIN d = DOMAIN m
      /\ d.predicates = ProtoPredicates("decode", b.predicates) /\ d.predicates # Refused
      /\ d.order = DirectionParts("decode", OrderDirections, b.order) /\ d.order # Refused
      /\ \A k \in DOMAIN m : k \notin {"predicates", "order"} => d[k] = b[k]
  BY <1>0, <1>4, ProtoEdgeFindSets
<1>6. d.order = m.order
  BY <1>0, <1>4, <1>5, DirectionsRound, EnumNames
<1>7. PICK w : w = Predicates("decode", d.predicates)
  OBVIOUS
<1>8. Sets(e, d, "predicates", w) /\ w # Refused
  BY <1>0, <1>5, <1>7, SetPredicates
<1>9. w = NormalPredicates(m.predicates)
  BY <1>0, <1>1, <1>2, <1>4, <1>5, <1>7, <1>8, PredicatesRound
<1>10. \A k \in DOMAIN m : k # "predicates" => e[k] = m[k]
  <2>. SUFFICES ASSUME NEW k \in DOMAIN m, k # "predicates" PROVE e[k] = m[k]
    OBVIOUS
  <2>1. e[k] = d[k]
    BY <1>5, <1>8 DEF Sets
  <2>2. CASE k = "order"
    BY <1>6, <2>1, <2>2
  <2>3. CASE k # "order"
    BY <1>3, <1>4, <1>5, <2>1, <2>3
  <2>. QED BY <2>2, <2>3
<1>11. e["predicates"] = NormalPredicates(m["predicates"])
  BY <1>8, <1>9 DEF Sets
<1>12. \A k \in DOMAIN m : e[k] = NormalPart(k, m[k])
  <2>. SUFFICES ASSUME NEW k \in DOMAIN m PROVE e[k] = NormalPart(k, m[k])
    OBVIOUS
  <2>1. CASE k = "predicates"
    BY <1>11, <2>1 DEF NormalPart, PredicateKeys
  <2>2. CASE k # "predicates"
    <3>1. k # "props" /\ k \notin PredicateKeys
      BY <1>0, <2>2 DEF PredicateKeys
    <3>. QED BY <1>10, <2>2, <3>1 DEF NormalPart
  <2>. QED BY <2>1, <2>2
<1>13. e = [k \in DOMAIN m |-> e[k]]
  BY <1>5, <1>8 DEF Sets, IsRecord
<1>. QED BY <1>12, <1>13 DEF NormalShape

\* The shape of a query.
ShapeConverted(c, form, s)      == IF form = "EdgeFind" THEN EdgeFind(c, s) ELSE NodeFind(c, s)
ProtoShapeConverted(c, form, s) == IF form = "EdgeFind" THEN ProtoEdgeFind(c, s) ELSE ProtoNodeFind(c, s)

\* A query is converted in its shape, or refused where a part is not set.
LEMMA QueryIs ==
  ASSUME NEW c, NEW q
  PROVE  /\ QueryRequest(c, q) = WithShape(q, ShapeConverted(c, q.form, q.shape))
         /\ ProtoQuery(c, q) \in {Refused, WithShape(q, ProtoShapeConverted(c, q.form, q.shape))}
<1>1. QueryRequest(c, q) = WithShape(q, ShapeConverted(c, q.form, q.shape))
  BY DEF QueryRequest, WithShape, ShapeConverted
<1>2. ProtoQuery(c, q) = IF Required(c, q) = Refused THEN Refused
                         ELSE IF Required(c, q.shape) = Refused THEN Refused
                         ELSE WithShape(q, ProtoShapeConverted(c, q.form, q.shape))
  BY DEF ProtoQuery, WithShape, ProtoShapeConverted
<1>3. ProtoQuery(c, q) \in {Refused, WithShape(q, ProtoShapeConverted(c, q.form, q.shape))}
  BY <1>2
<1>. QED BY <1>1, <1>3

\* A change of the shape keeps the form of the query.
LEMMA WithShapeKeeps ==
  ASSUME NEW q, IsRecord(q), {"form", "shape"} \subseteq DOMAIN q, NEW x, NEW a,
         a = WithShape(q, x), a # Refused
  PROVE  /\ Sets(a, q, "shape", x) /\ x # Refused
         /\ IsRecord(a) /\ {"form", "shape"} \subseteq DOMAIN a /\ a.form = q.form /\ a.shape = x
<1>1. Sets(a, q, "shape", x) /\ x # Refused
  BY WithShapeSets
<1>. QED BY <1>1 DEF Sets

\* A query arrives with its shape in normal form.
LEMMA QueryRound ==
  ASSUME NEW q, QueryTyped(q),
         NEW a, a = QueryRequest("encode", q), a # Refused,
         NEW b, b = ProtoQuery("encode", a), b # Refused,
         NEW d, d = ProtoQuery("decode", b), d # Refused,
         NEW e, e = QueryRequest("decode", d), e # Refused
  PROVE  Sets(e, q, "shape", NormalShape(q.shape))
<1>0. IsRecord(q) /\ {"form", "shape"} \subseteq DOMAIN q
  BY DEF QueryTyped
<1>1. PICK x : x = ShapeConverted("encode", q.form, q.shape)
  OBVIOUS
<1>2. a = WithShape(q, x)
  BY <1>1, QueryIs
<1>3. /\ Sets(a, q, "shape", x) /\ x # Refused
      /\ IsRecord(a) /\ {"form", "shape"} \subseteq DOMAIN a /\ a.form = q.form /\ a.shape = x
  BY <1>0, <1>2, WithShapeKeeps
<1>4. PICK y : y = ProtoShapeConverted("encode", q.form, x)
  OBVIOUS
<1>5. b = WithShape(a, y)
  BY <1>3, <1>4, QueryIs
<1>6. /\ Sets(b, a, "shape", y) /\ y # Refused
      /\ IsRecord(b) /\ {"form", "shape"} \subseteq DOMAIN b /\ b.form = q.form /\ b.shape = y
  BY <1>3, <1>5, WithShapeKeeps
<1>7. PICK z : z = ProtoShapeConverted("decode", q.form, y)
  OBVIOUS
<1>8. d = WithShape(b, z)
  BY <1>6, <1>7, QueryIs
<1>9. /\ Sets(d, b, "shape", z) /\ z # Refused
      /\ IsRecord(d) /\ {"form", "shape"} \subseteq DOMAIN d /\ d.form = q.form /\ d.shape = z
  BY <1>6, <1>8, WithShapeKeeps
<1>10. PICK w : w = ShapeConverted("decode", q.form, z)
  OBVIOUS
<1>11. e = WithShape(d, w)
  BY <1>9, <1>10, QueryIs
<1>12. Sets(e, d, "shape", w) /\ w # Refused
  BY <1>9, <1>11, WithShapeKeeps
<1>13. w = NormalShape(q.shape)
  <2>1. CASE q.form = "EdgeFind"
    BY <1>1, <1>3, <1>4, <1>6, <1>7, <1>9, <1>10, <1>12, <2>1, EdgeFindRound
       DEF ShapeConverted, ProtoShapeConverted, QueryTyped
  <2>2. CASE q.form # "EdgeFind"
    BY <1>1, <1>3, <1>4, <1>6, <1>7, <1>9, <1>10, <1>12, <2>2, NodeFindRound
       DEF ShapeConverted, ProtoShapeConverted, QueryTyped
  <2>. QED BY <2>1, <2>2
<1>. QED BY <1>3, <1>6, <1>9, <1>12, <1>13, SetsThrough

\* An explain or profile request is converted in its query.
LEMMA IntrospectIs ==
  ASSUME NEW c, NEW m
  PROVE  /\ Introspect(c, m) = WithQuery(m, QueryRequest(c, m.query))
         /\ ProtoIntrospect(c, m) = WithQuery(m, ProtoQuery(c, m.query))
  BY DEF Introspect, ProtoIntrospect, WithQuery

\* It arrives with the shape of its query in normal form.
LEMMA IntrospectRound ==
  ASSUME NEW m, IsRecord(m), "query" \in DOMAIN m, QueryTyped(m.query),
         NEW a, a = Introspect("encode", m), a # Refused,
         NEW b, b = ProtoIntrospect("encode", a), b # Refused,
         NEW d, d = ProtoIntrospect("decode", b), d # Refused,
         NEW e, e = Introspect("decode", d), e # Refused
  PROVE  /\ Sets(e, m, "query", e.query)
         /\ Sets(e.query, m.query, "shape", NormalShape(m.query.shape))
<1>1. PICK x : x = QueryRequest("encode", m.query)
  OBVIOUS
<1>2. Sets(a, m, "query", x) /\ x # Refused
  BY <1>1, IntrospectIs, WithQuerySets
<1>3. IsRecord(a) /\ "query" \in DOMAIN a /\ a.query = x
  BY <1>2 DEF Sets
<1>4. PICK y : y = ProtoQuery("encode", x)
  OBVIOUS
<1>5. Sets(b, a, "query", y) /\ y # Refused
  BY <1>3, <1>4, IntrospectIs, WithQuerySets
<1>6. IsRecord(b) /\ "query" \in DOMAIN b /\ b.query = y
  BY <1>3, <1>5 DEF Sets
<1>7. PICK z : z = ProtoQuery("decode", y)
  OBVIOUS
<1>8. Sets(d, b, "query", z) /\ z # Refused
  BY <1>6, <1>7, IntrospectIs, WithQuerySets
<1>9. IsRecord(d) /\ "query" \in DOMAIN d /\ d.query = z
  BY <1>6, <1>8 DEF Sets
<1>10. PICK w : w = QueryRequest("decode", z)
  OBVIOUS
<1>11. Sets(e, d, "query", w) /\ w # Refused
  BY <1>9, <1>10, IntrospectIs, WithQuerySets
<1>12. Sets(w, m.query, "shape", NormalShape(m.query.shape))
  BY <1>1, <1>2, <1>4, <1>5, <1>7, <1>8, <1>10, <1>11, QueryRound
<1>13. e.query = w
  BY <1>11 DEF Sets
<1>14. Sets(e, m, "query", w)
  BY <1>2, <1>5, <1>8, <1>11, SetsThrough
<1>. QED BY <1>12, <1>13, <1>14

-----------------------------------------------------------------------------
(***************************************************************************)
(* Requests.                                                               *)
(***************************************************************************)
\* The fields that the conversions of a message look at are there.
HasFields(m) ==
  /\ IsRecord(m) /\ "type" \in DOMAIN m
  /\ m.type \in PlainTypes \cup PropsTypes \cup QueryTypes
                \cup {"FindNodes", "FindEdges", "ApplyBatch"}
  /\ m.type \in DefineTypes => "fields" \in DOMAIN m
  /\ m.type \in PropsTypes => "props" \in DOMAIN m
  /\ m.type = "FindNodes" => NodeFindKeys \subseteq DOMAIN m
  /\ m.type = "FindEdges" => {"predicates", "order"} \subseteq DOMAIN m
  /\ m.type \in QueryTypes => "query" \in DOMAIN m
  /\ m.type = "ApplyBatch" => {"ops", "response"} \subseteq DOMAIN m

\* The service layer, by the type of the request.
LEMMA ServiceByType ==
  ASSUME NEW c, NEW m, m # Refused
  PROVE  /\ m.type \in DefineTypes => ServiceRequest(c, m) = Define(c, m)
         /\ m.type \in PropsTypes => ServiceRequest(c, m) = WithProps(m, PropertyMap(c, m.props))
         /\ m.type \in DeleteTypes \cup EmptyTypes => ServiceRequest(c, m) = m
         /\ m.type = "FindNodes" => ServiceRequest(c, m) = NodeFind(c, m)
         /\ m.type = "FindEdges" => ServiceRequest(c, m) = EdgeFind(c, m)
         /\ m.type \in QueryTypes => ServiceRequest(c, m) = Introspect(c, m)
         /\ m.type = "ApplyBatch" => ServiceRequest(c, m) = Batch(c, m)
         /\ m.type \in FileTypes => ServiceRequest(c, m) = Refused
<1>. USE DEF ServiceRequest, DefineTypes, NodeWriteTypes, EdgeWriteTypes, IntrospectTypes,
             EmptyTypes, FileTypes, PropsTypes, DeleteTypes, QueryTypes
<1>1. m.type \in DefineTypes => ServiceRequest(c, m) = Define(c, m)
  OBVIOUS
<1>2. ASSUME m.type \in PropsTypes
      PROVE  ServiceRequest(c, m) = WithProps(m, PropertyMap(c, m.props))
  <2>1. NodeWrite(c, m) = IF m.type = "DeleteNode" THEN m ELSE WithProps(m, PropertyMap(c, m.props))
    BY DEF NodeWrite, WithProps
  <2>2. EdgeWrite(c, m) = IF m.type = "DeleteEdge" THEN m ELSE WithProps(m, PropertyMap(c, m.props))
    BY DEF EdgeWrite, WithProps
  <2>. QED BY <1>2, <2>1, <2>2
<1>3. ASSUME m.type \in DeleteTypes \cup EmptyTypes
      PROVE  ServiceRequest(c, m) = m
  <2>1. NodeWrite(c, m) = IF m.type = "DeleteNode" THEN m ELSE WithProps(m, PropertyMap(c, m.props))
    BY DEF NodeWrite, WithProps
  <2>2. EdgeWrite(c, m) = IF m.type = "DeleteEdge" THEN m ELSE WithProps(m, PropertyMap(c, m.props))
    BY DEF EdgeWrite, WithProps
  <2>. QED BY <1>3, <2>1, <2>2
<1>4. m.type = "FindNodes" => ServiceRequest(c, m) = NodeFind(c, m)
  OBVIOUS
<1>5. m.type = "FindEdges" => ServiceRequest(c, m) = EdgeFind(c, m)
  OBVIOUS
<1>6. m.type \in QueryTypes => ServiceRequest(c, m) = Introspect(c, m)
  OBVIOUS
<1>7. m.type = "ApplyBatch" => ServiceRequest(c, m) = Batch(c, m)
  OBVIOUS
<1>8. m.type \in FileTypes => ServiceRequest(c, m) = Refused
  OBVIOUS
<1>. HIDE DEF ServiceRequest, DefineTypes, FileTypes, PropsTypes, DeleteTypes, QueryTypes, EmptyTypes
<1>. QED BY <1>1, <1>2, <1>3, <1>4, <1>5, <1>6, <1>7, <1>8

\* The protobuf layer, by the type of the request.
LEMMA ProtoByType ==
  ASSUME NEW c, NEW m
  PROVE  /\ m.type \in DefineTypes => ProtoBody(c, m) = ProtoDefine(c, m)
         /\ m.type \in PropsTypes => ProtoBody(c, m) = WithProps(m, ProtoPropertyMap(c, m.props))
         /\ m.type \in DeleteTypes \cup EmptyTypes => ProtoBody(c, m) = m
         /\ m.type = "FindNodes" => ProtoBody(c, m) = ProtoNodeFind(c, m)
         /\ m.type = "FindEdges" => ProtoBody(c, m) = ProtoEdgeFind(c, m)
         /\ m.type \in QueryTypes => ProtoBody(c, m) = ProtoIntrospect(c, m)
         /\ m.type = "ApplyBatch" => ProtoBody(c, m) = ProtoBatch(c, m)
<1>. USE DEF ProtoBody, DefineTypes, NodeWriteTypes, EdgeWriteTypes, IntrospectTypes,
             EmptyTypes, FileTypes, PropsTypes, DeleteTypes, QueryTypes
<1>1. m.type \in DefineTypes => ProtoBody(c, m) = ProtoDefine(c, m)
  OBVIOUS
<1>2. ASSUME m.type \in PropsTypes
      PROVE  ProtoBody(c, m) = WithProps(m, ProtoPropertyMap(c, m.props))
  <2>1. ProtoNodeWrite(c, m) = IF m.type = "DeleteNode" THEN m ELSE WithProps(m, ProtoPropertyMap(c, m.props))
    BY DEF ProtoNodeWrite, WithProps
  <2>2. ProtoEdgeWrite(c, m) = IF m.type = "DeleteEdge" THEN m ELSE WithProps(m, ProtoPropertyMap(c, m.props))
    BY DEF ProtoEdgeWrite, WithProps
  <2>. QED BY <1>2, <2>1, <2>2
<1>3. ASSUME m.type \in DeleteTypes \cup EmptyTypes
      PROVE  ProtoBody(c, m) = m
  <2>1. ProtoNodeWrite(c, m) = IF m.type = "DeleteNode" THEN m ELSE WithProps(m, ProtoPropertyMap(c, m.props))
    BY DEF ProtoNodeWrite, WithProps
  <2>2. ProtoEdgeWrite(c, m) = IF m.type = "DeleteEdge" THEN m ELSE WithProps(m, ProtoPropertyMap(c, m.props))
    BY DEF ProtoEdgeWrite, WithProps
  <2>. QED BY <1>3, <2>1, <2>2
<1>4. m.type = "FindNodes" => ProtoBody(c, m) = ProtoNodeFind(c, m)
  OBVIOUS
<1>5. m.type = "FindEdges" => ProtoBody(c, m) = ProtoEdgeFind(c, m)
  OBVIOUS
<1>6. m.type \in QueryTypes => ProtoBody(c, m) = ProtoIntrospect(c, m)
  OBVIOUS
<1>7. m.type = "ApplyBatch" => ProtoBody(c, m) = ProtoBatch(c, m)
  OBVIOUS
<1>. HIDE DEF ProtoBody, DefineTypes, FileTypes, PropsTypes, DeleteTypes, QueryTypes, EmptyTypes
<1>. QED BY <1>1, <1>2, <1>3, <1>4, <1>5, <1>6, <1>7

\* A conversion keeps the type of a message and its fields.
SameFields(a, m) == IsRecord(a) /\ DOMAIN a = DOMAIN m /\ a.type = m.type

\* A change of one field does so.
LEMMA SetsSame ==
  ASSUME NEW a, NEW m, NEW f, NEW x, Sets(a, m, f, x), f # "type", "type" \in DOMAIN m
  PROVE  SameFields(a, m)
  BY DEF Sets, SameFields

\* The service layer does so for every type.
LEMMA ServiceKeeps ==
  ASSUME NEW c, NEW m, m # Refused, HasFields(m), NEW a, a = ServiceRequest(c, m), a # Refused
  PROVE  SameFields(a, m)
<1>0. IsRecord(m) /\ "type" \in DOMAIN m
  BY DEF HasFields
<1>1. CASE m.type \in DefineTypes
  <2>1. a = WithFields(m, FieldsConverted(c, m.fields)) /\ "fields" \in DOMAIN m
    BY <1>1, ServiceByType, FieldsOf DEF HasFields
  <2>. QED BY <1>0, <2>1, WithFieldsSets, SetsSame
<1>2. CASE m.type \in PropsTypes
  <2>1. a = WithProps(m, PropertyMap(c, m.props)) /\ "props" \in DOMAIN m
    BY <1>2, ServiceByType DEF HasFields
  <2>. QED BY <1>0, <2>1, WithPropsSets, SetsSame
<1>3. CASE m.type \in DeleteTypes \cup EmptyTypes
  BY <1>0, <1>3, ServiceByType DEF SameFields
<1>4. CASE m.type = "FindNodes"
  <2>1. a = NodeFind(c, m) /\ NodeFindKeys \subseteq DOMAIN m
    BY <1>4, ServiceByType DEF HasFields
  <2>2. "type" \notin PredicateKeys
    BY DEF PredicateKeys
  <2>3. a["type"] = m["type"] /\ IsRecord(a) /\ DOMAIN a = DOMAIN m
    BY <1>0, <2>1, <2>2, NodeFindStep
  <2>. QED BY <2>3 DEF SameFields
<1>5. CASE m.type = "FindEdges"
  <2>1. a = EdgeFind(c, m) /\ "predicates" \in DOMAIN m
    BY <1>5, ServiceByType DEF HasFields
  <2>. QED BY <1>0, <2>1, SetPredicates, SetsSame
<1>6. CASE m.type \in QueryTypes
  <2>1. a = WithQuery(m, QueryRequest(c, m.query)) /\ "query" \in DOMAIN m
    BY <1>6, ServiceByType, IntrospectIs DEF HasFields
  <2>. QED BY <1>0, <2>1, WithQuerySets, SetsSame
<1>7. CASE m.type = "ApplyBatch"
  <2>1. a = WithOps(m, OpsConverted(c, m.ops)) /\ "ops" \in DOMAIN m
    BY <1>7, ServiceByType, BatchIs DEF HasFields
  <2>. QED BY <1>0, <2>1, WithOpsSets, SetsSame
<1>. QED BY <1>1, <1>2, <1>3, <1>4, <1>5, <1>6, <1>7 DEF HasFields, PlainTypes

\* The protobuf layer does so for a query.
LEMMA ProtoQueryIs ==
  ASSUME NEW c, NEW m, IsRecord(m), {"query", "type"} \subseteq DOMAIN m,
         NEW a, a = ProtoIntrospect(c, m), a # Refused
  PROVE  SameFields(a, m)
<1>1. PICK x : x = ProtoQuery(c, m.query)
  OBVIOUS
<1>2. a = WithQuery(m, x)
  BY <1>1, IntrospectIs
<1>3. Sets(a, m, "query", x)
  BY <1>2, WithQuerySets
<1>. QED BY <1>3, SetsSame

\* The protobuf layer does so for every type.
LEMMA ProtoKeeps ==
  ASSUME NEW c, NEW m, HasFields(m), NEW a, a = ProtoBody(c, m), a # Refused
  PROVE  SameFields(a, m)
<1>0. IsRecord(m) /\ "type" \in DOMAIN m
  BY DEF HasFields
<1>1. CASE m.type \in DefineTypes
  <2>1. a = ProtoDefine(c, m) /\ "fields" \in DOMAIN m
    BY <1>1, ProtoByType DEF HasFields
  <2>2. ProtoDefine(c, m) = WithFields(m, ProtoFieldsConverted(c, m.fields))
    BY FieldsOf
  <2>. QED BY <1>0, <2>1, <2>2, WithFieldsSets, SetsSame
<1>2. CASE m.type \in PropsTypes
  <2>1. a = WithProps(m, ProtoPropertyMap(c, m.props)) /\ "props" \in DOMAIN m
    BY <1>2, ProtoByType DEF HasFields
  <2>. QED BY <1>0, <2>1, WithPropsSets, SetsSame
<1>3. CASE m.type \in DeleteTypes \cup EmptyTypes
  BY <1>0, <1>3, ProtoByType DEF SameFields
<1>4. CASE m.type = "FindNodes"
  <2>1. a = ProtoNodeFind(c, m) /\ NodeFindKeys \subseteq DOMAIN m
    BY <1>4, ProtoByType DEF HasFields
  <2>2. "type" \notin NodeFindKeys
    BY DEF NodeFindKeys, PredicateKeys
  <2>3. a["type"] = m["type"] /\ IsRecord(a) /\ DOMAIN a = DOMAIN m
    BY <1>0, <2>1, <2>2, ProtoNodeFindStep
  <2>. QED BY <2>3 DEF SameFields
<1>5. CASE m.type = "FindEdges"
  <2>1. a = ProtoEdgeFind(c, m) /\ {"predicates", "order"} \subseteq DOMAIN m
    BY <1>5, ProtoByType DEF HasFields
  <2>2. a["type"] = m["type"] /\ IsRecord(a) /\ DOMAIN a = DOMAIN m
    BY <1>0, <2>1, ProtoEdgeFindSets
  <2>. QED BY <2>2 DEF SameFields
<1>6. CASE m.type \in QueryTypes
  <2>1. a = ProtoIntrospect(c, m) /\ "query" \in DOMAIN m
    BY <1>6, ProtoByType DEF HasFields
  <2>. QED BY <1>0, <2>1, ProtoQueryIs
<1>7. CASE m.type = "ApplyBatch"
  <2>1. a = ProtoBatch(c, m) /\ {"ops", "response"} \subseteq DOMAIN m
    BY <1>7, ProtoByType DEF HasFields
  <2>2. a["type"] = m["type"] /\ IsRecord(a) /\ DOMAIN a = DOMAIN m
    BY <1>0, <2>1, ProtoBatchSets
  <2>. QED BY <2>2 DEF SameFields
<1>. QED BY <1>1, <1>2, <1>3, <1>4, <1>5, <1>6, <1>7 DEF HasFields, PlainTypes

\* What has the same fields has the ones that are looked at.
LEMMA SameHasFields ==
  ASSUME NEW a, NEW m, SameFields(a, m), HasFields(m)
  PROVE  HasFields(a)
  BY DEF SameFields, HasFields

\* The normal form by the type of the request.
LEMMA NormalByType ==
  ASSUME NEW r
  PROVE  /\ r.type \in PlainTypes \cup PropsTypes \cup {"FindNodes", "FindEdges"}
              => Normal(r) = NormalShape(r)
         /\ r.type \in IntrospectTypes => Normal(r) = [r EXCEPT !.query.shape = NormalShape(@)]
         /\ r.type = "ApplyBatch" => Normal(r) = [r EXCEPT !.ops = NormalOps(@)]
<1>. USE DEF IntrospectTypes
<1>1. ASSUME r.type \in PlainTypes \cup PropsTypes \cup {"FindNodes", "FindEdges"}
      PROVE  Normal(r) = NormalShape(r)
  <2>1. r.type \notin IntrospectTypes /\ r.type # "ApplyBatch"
    BY <1>1 DEF PlainTypes, PropsTypes, DefineTypes, DeleteTypes, EmptyTypes
  <2>. QED BY <2>1, Zenon DEF Normal
<1>2. r.type \in IntrospectTypes => Normal(r) = [r EXCEPT !.query.shape = NormalShape(@)]
  <2>1. r.type \in IntrospectTypes => r.type # "ApplyBatch"
    OBVIOUS
  <2>. QED BY <2>1, Zenon DEF Normal
<1>3. r.type = "ApplyBatch" => Normal(r) = [r EXCEPT !.ops = NormalOps(@)]
  <2>1. r.type = "ApplyBatch" => r.type \notin IntrospectTypes
    OBVIOUS
  <2>. QED BY <2>1, Zenon DEF Normal
<1>. QED BY <1>1, <1>2, <1>3

\* The normal form of a batch.
LEMMA NormalBatch ==
  ASSUME NEW r, IsRecord(r), "ops" \in DOMAIN r, r.type = "ApplyBatch",
         NEW e, Sets(e, r, "ops", NormalOps(r.ops))
  PROVE  e = Normal(r)
<1>1. PICK x : x = NormalOps(r.ops)
  OBVIOUS
<1>2. PICK q : q = [r EXCEPT !.ops = x]
  OBVIOUS
<1>3. q = [k \in DOMAIN r |-> IF k = "ops" THEN x ELSE r[k]]
  BY <1>2 DEF IsRecord
<1>4. Sets(q, r, "ops", x)
  BY <1>3 DEF Sets, IsRecord
<1>5. Normal(r) = q
  BY <1>1, <1>2, NormalByType, Zenon
<1>. QED BY <1>1, <1>4, <1>5, SetsUnique

\* The normal form of an explain or profile request.
LEMMA NormalIntrospect ==
  ASSUME NEW r, IsRecord(r), "query" \in DOMAIN r, r.type \in IntrospectTypes,
         IsRecord(r.query), "shape" \in DOMAIN r.query,
         NEW e, Sets(e, r, "query", e.query),
         Sets(e.query, r.query, "shape", NormalShape(r.query.shape))
  PROVE  e = Normal(r)
<1>1. PICK x : x = NormalShape(r.query.shape)
  OBVIOUS
<1>2. PICK p : p = [r.query EXCEPT !.shape = x]
  OBVIOUS
<1>3. p = [k \in DOMAIN r.query |-> IF k = "shape" THEN x ELSE r.query[k]]
  BY <1>2 DEF IsRecord
<1>4. Sets(p, r.query, "shape", x)
  BY <1>3 DEF Sets, IsRecord
<1>5. e.query = p
  BY <1>1, <1>4, SetsUnique
<1>6. PICK q : q = [r EXCEPT !.query = p]
  OBVIOUS
<1>7. q = [k \in DOMAIN r |-> IF k = "query" THEN p ELSE r[k]]
  BY <1>6 DEF IsRecord
<1>8. Sets(q, r, "query", p)
  BY <1>7 DEF Sets, IsRecord
<1>9. e = q
  BY <1>5, <1>8, SetsUnique
<1>10. [r EXCEPT !.query.shape = NormalShape(@)] = q
  BY <1>1, <1>2, <1>6, Zenon
<1>. QED BY <1>9, <1>10, NormalByType, Zenon

\* The requests of a helper have the fields of their type.
LEMMA TypedHasFields ==
  ASSUME NEW r, RequestTyped(r), r.type \notin FileTypes
  PROVE  HasFields(r)
  BY DEF RequestTyped, HasFields, NodeFindTyped, EdgeFindTyped, BatchTyped

\* Two layers on each side: the request the server decodes is the one the
\* helper was given, with every value in the spelling of the store.
LEMMA ArrivedIsNormal ==
  ASSUME NEW r, RequestTyped(r), NEW h,
         NEW b, b = Sent(r, h), b # Refused,
         NEW e, e = Arrived(b), e # Refused
  PROVE  e = Normal(r)
<1>1. PICK a : a = ServiceRequest("encode", r)
  OBVIOUS
<1>2. b = EncodeRequest(a)
  BY <1>1 DEF Sent
<1>3. a # Refused
  BY <1>2 DEF EncodeRequest
<1>4. r # Refused
  BY <1>1, <1>3 DEF ServiceRequest
<1>5. PICK d : d = DecodeRequest(b)
  OBVIOUS
<1>6. e = ServiceRequest("decode", d)
  BY <1>5 DEF Arrived
<1>7. d # Refused
  BY <1>6 DEF ServiceRequest
<1>8. b = ProtoBody("encode", a) /\ a.type \notin FileTypes \cup {"Query", "IndexList"}
  BY <1>2, <1>3 DEF EncodeRequest
<1>9. d = ProtoBody("decode", b)
  BY <1>5, <1>7 DEF DecodeRequest
<1>10. HasFields(r)
  BY <1>1, <1>3, <1>4, ServiceByType, TypedHasFields
<1>11. SameFields(a, r) /\ HasFields(a)
  BY <1>1, <1>3, <1>4, <1>10, ServiceKeeps, SameHasFields
<1>12. SameFields(b, a) /\ HasFields(b)
  BY <1>8, <1>11, ProtoKeeps, SameHasFields
<1>13. SameFields(d, b)
  BY <1>7, <1>9, <1>12, ProtoKeeps
<1>14. a.type = r.type /\ b.type = r.type /\ d.type = r.type
  BY <1>11, <1>12, <1>13 DEF SameFields
<1>15. IsRecord(r) /\ "type" \in DOMAIN r
  BY DEF RequestTyped
<1>16. CASE r.type \in DefineTypes
  <2>1. a = Define("encode", r) /\ e = Define("decode", d)
    BY <1>1, <1>3, <1>4, <1>6, <1>7, <1>14, <1>16, ServiceByType
  <2>2. b = ProtoDefine("encode", a) /\ d = ProtoDefine("decode", b)
    BY <1>8, <1>9, <1>14, <1>16, ProtoByType
  <2>3. "fields" \in DOMAIN r /\ EnumsTyped(r.fields, "value_type", FieldValueTypes)
    BY <1>16 DEF RequestTyped
  <2>4. e = r
    BY <1>3, <1>7, <1>15, <2>1, <2>2, <2>3, DefineRound
  <2>5. r.type \in PlainTypes
    BY <1>16 DEF PlainTypes
  <2>6. "props" \notin DOMAIN r /\ PredicateKeys \cap DOMAIN r = {}
    BY <2>5 DEF RequestTyped
  <2>. QED BY <1>15, <2>4, <2>5, <2>6, NormalShapeSame, NormalByType
<1>17. CASE r.type \in PropsTypes
  <2>1. /\ a = WithProps(r, PropertyMap("encode", r.props))
        /\ e = WithProps(d, PropertyMap("decode", d.props))
    BY <1>1, <1>3, <1>4, <1>6, <1>7, <1>14, <1>17, ServiceByType
  <2>2. /\ b = WithProps(a, ProtoPropertyMap("encode", a.props))
        /\ d = WithProps(b, ProtoPropertyMap("decode", b.props))
    BY <1>8, <1>9, <1>14, <1>17, ProtoByType
  <2>3. "props" \in DOMAIN r /\ PropsTyped(r.props) /\ PredicateKeys \cap DOMAIN r = {}
    BY <1>17 DEF RequestTyped
  <2>4. Sets(e, r, "props", Meant(r.props))
    BY <1>3, <1>7, <1>15, <2>1, <2>2, <2>3, WithPropsRound
  <2>. QED BY <1>15, <1>17, <2>3, <2>4, NormalShapeProps, NormalByType
<1>18. CASE r.type \in DeleteTypes \cup EmptyTypes
  <2>1. a = r /\ e = d
    BY <1>1, <1>4, <1>6, <1>7, <1>14, <1>18, ServiceByType
  <2>2. b = a /\ d = b
    BY <1>8, <1>9, <1>14, <1>18, ProtoByType
  <2>3. r.type \in PlainTypes
    BY <1>18 DEF PlainTypes
  <2>4. "props" \notin DOMAIN r /\ PredicateKeys \cap DOMAIN r = {}
    BY <2>3 DEF RequestTyped
  <2>. QED BY <1>15, <2>1, <2>2, <2>3, <2>4, NormalShapeSame, NormalByType
<1>19. CASE r.type = "FindNodes"
  <2>1. a = NodeFind("encode", r) /\ e = NodeFind("decode", d)
    BY <1>1, <1>3, <1>4, <1>6, <1>7, <1>14, <1>19, ServiceByType
  <2>2. b = ProtoNodeFind("encode", a) /\ d = ProtoNodeFind("decode", b)
    BY <1>8, <1>9, <1>14, <1>19, ProtoByType
  <2>3. NodeFindTyped(r)
    BY <1>19 DEF RequestTyped
  <2>. QED BY <1>3, <1>7, <1>19, <2>1, <2>2, <2>3, NodeFindRound, NormalByType
<1>20. CASE r.type = "FindEdges"
  <2>1. a = EdgeFind("encode", r) /\ e = EdgeFind("decode", d)
    BY <1>1, <1>3, <1>4, <1>6, <1>7, <1>14, <1>20, ServiceByType
  <2>2. b = ProtoEdgeFind("encode", a) /\ d = ProtoEdgeFind("decode", b)
    BY <1>8, <1>9, <1>14, <1>20, ProtoByType
  <2>3. EdgeFindTyped(r)
    BY <1>20 DEF RequestTyped
  <2>. QED BY <1>3, <1>7, <1>20, <2>1, <2>2, <2>3, EdgeFindRound, NormalByType
<1>21. CASE r.type \in IntrospectTypes
  <2>0. r.type \in QueryTypes
    BY <1>21 DEF QueryTypes
  <2>1. a = Introspect("encode", r) /\ e = Introspect("decode", d)
    BY <1>1, <1>3, <1>4, <1>6, <1>7, <1>14, <2>0, ServiceByType
  <2>2. b = ProtoIntrospect("encode", a) /\ d = ProtoIntrospect("decode", b)
    BY <1>8, <1>9, <1>14, <2>0, ProtoByType
  <2>3. "query" \in DOMAIN r /\ QueryTyped(r.query)
    BY <2>0 DEF RequestTyped
  <2>4. /\ Sets(e, r, "query", e.query)
        /\ Sets(e.query, r.query, "shape", NormalShape(r.query.shape))
    BY <1>3, <1>7, <1>15, <2>1, <2>2, <2>3, IntrospectRound
  <2>5. IsRecord(r.query) /\ "shape" \in DOMAIN r.query
    BY <2>3 DEF QueryTyped
  <2>. QED BY <1>15, <1>21, <2>3, <2>4, <2>5, NormalIntrospect
<1>22. CASE r.type = "ApplyBatch"
  <2>1. a = Batch("encode", r) /\ e = Batch("decode", d)
    BY <1>1, <1>3, <1>4, <1>6, <1>7, <1>14, <1>22, ServiceByType
  <2>2. b = ProtoBatch("encode", a) /\ d = ProtoBatch("decode", b)
    BY <1>8, <1>9, <1>14, <1>22, ProtoByType
  <2>3. BatchTyped(r) /\ "ops" \in DOMAIN r
    BY <1>22 DEF RequestTyped, BatchTyped
  <2>4. Sets(e, r, "ops", NormalOps(r.ops))
    BY <1>3, <1>7, <2>1, <2>2, <2>3, BatchRound
  <2>. QED BY <1>15, <1>22, <2>3, <2>4, NormalBatch
<1>23. r.type # "Query"
  BY <1>8, <1>14
<1>24. r.type \in PlainTypes \cup PropsTypes \cup QueryTypes \cup {"FindNodes", "FindEdges", "ApplyBatch"}
  BY <1>10 DEF HasFields
<1>. QED BY <1>16, <1>17, <1>18, <1>19, <1>20, <1>21, <1>22, <1>23, <1>24 DEF PlainTypes, QueryTypes

-----------------------------------------------------------------------------
(***************************************************************************)
(* The call.                                                               *)
(***************************************************************************)
\* A call has a stage.
CallRecord == IsRecord(call) /\ "stage" \in DOMAIN call

\* The inductive invariant: the message of a helper's call under way is the
\* encoding of one of the requests a client makes.
CallInv ==
  /\ CallRecord
  /\ call.stage = "sent" /\ call.helper # Nothing =>
       \E c \in Requests :
         /\ call.request = c.request
         /\ call.message = Sent(c.request, c.helper)
         /\ call.message # Refused

\* No call is under way.
LEMMA IdleRecord == IsRecord(Idle) /\ "stage" \in DOMAIN Idle /\ Idle.stage = "idle"
  BY DEF Idle, IsRecord

\* Before the first call.
LEMMA CallInvInit == Init => CallInv
<1>. SUFFICES ASSUME Init PROVE CallInv
  OBVIOUS
<1>1. call = Idle
  BY DEF Init
<1>. QED BY <1>1, IdleRecord DEF CallInv, CallRecord

\* A call the server has answered.
AnsweredCall(x, r, o, m) ==
  [x EXCEPT !.stage = "answered", !.response = r, !.ops = o, !.message = m]

\* A call that is answered is no longer under way.
LEMMA ServedRecord ==
  ASSUME NEW x, IsRecord(x), "stage" \in DOMAIN x, NEW r, NEW o, NEW m,
         NEW y, y = AnsweredCall(x, r, o, m)
  PROVE  IsRecord(y) /\ "stage" \in DOMAIN y /\ y.stage = "answered"
<1>1. y = [k \in DOMAIN x |-> IF k = "message" THEN m ELSE IF k = "ops" THEN o ELSE
             IF k = "response" THEN r ELSE IF k = "stage" THEN "answered" ELSE x[k]]
  BY DEF IsRecord, AnsweredCall
<1>. QED BY <1>1 DEF IsRecord

\* A call that has ended is no longer under way.
LEMMA EndedRecord ==
  ASSUME NEW x, IsRecord(x), "stage" \in DOMAIN x, NEW s, NEW r,
         NEW y, y = [x EXCEPT !.stage = s, !.result = r]
  PROVE  IsRecord(y) /\ "stage" \in DOMAIN y /\ y.stage = s
<1>1. y = [k \in DOMAIN x |-> IF k = "result" THEN r ELSE IF k = "stage" THEN s ELSE x[k]]
  BY DEF IsRecord
<1>. QED BY <1>1 DEF IsRecord

\* Every answer of the server ends the service of the call.
LEMMA AnswerEnds ==
  ASSUME CallInv, NEW r, NEW ops, Answer(r, ops)
  PROVE  CallInv'
<1>1. PICK m : m = ProtoResponse(r, ops)
  OBVIOUS
<1>2. call' = AnsweredCall(call, r, ops, m)
  BY <1>1 DEF Answer, AnsweredCall
<1>3. IsRecord(call') /\ "stage" \in DOMAIN call' /\ call'.stage = "answered"
  BY <1>2, ServedRecord DEF CallInv, CallRecord
<1>. QED BY <1>3 DEF CallInv, CallRecord

\* So does an error.
LEMMA EndedEnds ==
  ASSUME CallInv, NEW r, call' = [call EXCEPT !.stage = "done", !.result = r]
  PROVE  CallInv'
<1>1. IsRecord(call') /\ "stage" \in DOMAIN call' /\ call'.stage = "done"
  BY EndedRecord DEF CallInv, CallRecord
<1>. QED BY <1>1 DEF CallInv, CallRecord

\* The helper sends what it has encoded.
LEMMA SendHolds ==
  ASSUME NEW r \in Requests, Send(r) PROVE CallInv'
<1>1. PICK m : m = Sent(r.request, r.helper)
  OBVIOUS
<1>2. call' = [Idle EXCEPT !.stage = IF m = Refused THEN "done" ELSE "sent",
                           !.helper = r.helper, !.request = r.request, !.message = m,
                           !.result = IF m = Refused THEN Refused ELSE Nothing]
  BY <1>1 DEF Send
<1>3. /\ call'.stage = IF m = Refused THEN "done" ELSE "sent"
      /\ call'.request = r.request /\ call'.message = m
  BY <1>2 DEF Idle
<1>4. IsRecord(call') /\ "stage" \in DOMAIN call'
  BY <1>2 DEF Idle, IsRecord
<1>. QED BY <1>1, <1>3, <1>4 DEF CallInv, CallRecord

\* No step of the client, the server or the transport breaks the invariant.
LEMMA CallInvNext == CallInv /\ [Next]_vars => CallInv'
<1>. SUFFICES ASSUME CallInv, [Next]_vars PROVE CallInv'
  OBVIOUS
<1>1. ASSUME NEW r \in Requests, Send(r) PROVE CallInv'
  BY <1>1, SendHolds
<1>2. ASSUME NEW m \in Messages, SendMessage(m) PROVE CallInv'
  <2>1. call' = [Idle EXCEPT !.stage = "sent", !.message = m]
    BY <1>2 DEF SendMessage
  <2>2. call'.helper = Nothing
    BY <2>1 DEF Idle
  <2>3. IsRecord(call') /\ "stage" \in DOMAIN call'
    BY <2>1 DEF Idle, IsRecord
  <2>. QED BY <2>2, <2>3 DEF CallInv, CallRecord
<1>3. CASE Receive
  <2>1. PICK x : x = IF call.message = Refused \/ call.helper = Nothing
                     THEN call.message ELSE ClientResponse(call.message, call.helper)
    OBVIOUS
  <2>2. call' = [call EXCEPT !.stage = "done", !.result = x]
    BY <1>3, <2>1 DEF Receive
  <2>. QED BY <2>2, EndedEnds
<1>4. CASE Lose \/ Finish
  <2>1. call' = Idle
    BY <1>4 DEF Lose, Finish
  <2>. QED BY <2>1, IdleRecord DEF CallInv, CallRecord
<1>5. CASE Refuse
  <2>1. call' = [call EXCEPT !.stage = "done", !.result = Refused]
    BY <1>5 DEF Refuse, Fail
  <2>. QED BY <2>1, EndedEnds
<1>6. CASE Execute
  <2>1. PICK r, out : Answer([type |-> r.type] @@ out.value, <<out.op>>)
    BY <1>6 DEF Execute
  <2>. QED BY <2>1, AnswerEnds
<1>7. CASE List
  BY <1>7, AnswerEnds DEF List
<1>8. CASE Summary
  BY <1>8, AnswerEnds DEF Summary
<1>9. CASE ApplyBatch
  BY <1>9, AnswerEnds DEF ApplyBatch
<1>10. ASSUME NEW N \in SUBSET (DOMAIN db.nodes), NEW E \in SUBSET (DOMAIN db.edges),
              FindNodes(N, E)
       PROVE  CallInv'
  BY <1>10, AnswerEnds DEF FindNodes
<1>11. ASSUME NEW E \in SUBSET (DOMAIN db.edges), FindEdges(E) PROVE CallInv'
  BY <1>11, AnswerEnds DEF FindEdges
<1>12. ASSUME NEW p \in Plans, Explain(p) PROVE CallInv'
  BY <1>12, AnswerEnds DEF Explain
<1>13. ASSUME NEW p \in Plans, NEW rows \in 0..MaxId, Profile(p, rows) PROVE CallInv'
  BY <1>13, AnswerEnds DEF Profile
<1>14. CASE UNCHANGED vars
  BY <1>14 DEF CallInv, CallRecord, vars
<1>. QED BY <1>1, <1>2, <1>3, <1>4, <1>5, <1>6, <1>7, <1>8, <1>9, <1>10, <1>11, <1>12,
            <1>13, <1>14 DEF Next

\* The invariant says what arrives.
LEMMA CallInvIntact == CallInv => RequestsArriveIntact
<1>. SUFFICES ASSUME CallInv, Serving, call.helper # Nothing,
                     NEW e \in Request \ {Refused}
              PROVE  e = Normal(call.request)
  BY DEF RequestsArriveIntact
<1>1. PICK c \in Requests :
        /\ call.request = c.request
        /\ call.message = Sent(c.request, c.helper)
        /\ call.message # Refused
  BY DEF CallInv, Serving
<1>2. e = Arrived(call.message) /\ e # Refused
  BY DEF Request
<1>3. RequestTyped(c.request)
  BY RequestsAssumption
<1>. QED BY <1>1, <1>2, <1>3, ArrivedIsNormal

\* The runtime of a remote workspace is asked for exactly what the caller of a
\* helper asked for: the conversions of runtime requests to service types and to
\* protobuf, and back (src/grm-service-api/src/lib.rs), lose no field, confuse no
\* enum, option, endpoint or keyword, and change a value only to the spelling the
\* store keeps it in.  For all requests of the types the helpers take, of any
\* length, and every state of the workspace.
THEOREM RequestsIntact == Spec => []RequestsArriveIntact
<1>1. Spec => []CallInv
  BY CallInvInit, CallInvNext, PTL DEF Spec
<1>. QED BY <1>1, CallInvIntact, PTL
=============================================================================
