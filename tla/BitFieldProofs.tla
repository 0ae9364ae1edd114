---------------------------- MODULE BitFieldProofs ----------------------------
(***************************************************************************)
(* Proofs about the bit fields, for every table of well-formed types: that  *)
(* the functions of the word agree with those of the fields, that objects   *)
(* stay proper, and that the accessors implement FieldRecord.               *)
(***************************************************************************)
EXTENDS BitField, TLAPS

Named == UNION {Range(Field(f)) : f \in DOMAIN row.fields}

LEMMA NamedIs ==
  ASSUME NEW i
  PROVE  i \in Named <=> \E f \in DOMAIN row.fields : i \in Range(Field(f))
  BY DEF Named

\* What a well-formed row says of single bits.
LEMMA RowFacts ==
  ASSUME type \in DOMAIN Types
  PROVE  /\ DOMAIN row.fields # {}
         /\ row.named = Named
         /\ Named \subseteq Positions
         /\ row.unnamed = Positions \ Named
         /\ row.expected \subseteq row.unnamed
         /\ row.default \subseteq Positions
         /\ row.flags => DOMAIN row.enums = {}
         /\ DOMAIN row.enums \subseteq DOMAIN row.fields
<1>1. WellFormed(row)
  BY TypesAssumption DEF row
<1> HIDE DEF row
<1>2. row.named = Named
  BY <1>1 DEF WellFormed, Named, Field
<1>3. \A f \in DOMAIN row.fields : Range(Field(f)) \subseteq Positions
  BY <1>1 DEF WellFormed, Field, Positions
<1>4. Named \subseteq Positions
  BY <1>3, NamedIs
<1> QED
  BY <1>1, <1>2, <1>4 DEF WellFormed, Positions

LEMMA RangeIs ==
  ASSUME NEW field, NEW i
  PROVE  i \in Range(field) <=> \E j \in DOMAIN field : i = field[j]
  BY DEF Range

\* The bits of fields: in the word, of one field each, and each of one position.
LEMMA FieldFacts ==
  ASSUME type \in DOMAIN Types, NEW f \in DOMAIN row.fields
  PROVE  /\ \A i \in DOMAIN Field(f) :
              Field(f)[i] \in Positions /\ Field(f)[i] \in Named
         /\ \A i, j \in DOMAIN Field(f) : Field(f)[i] = Field(f)[j] => i = j
         /\ \A g \in DOMAIN row.fields \ {f} :
              \A i \in DOMAIN Field(g) : Field(g)[i] \notin Range(Field(f))
<1>1. WellFormed(row)
  BY TypesAssumption DEF row
<1> HIDE DEF row
<1>2. \A i \in DOMAIN Field(f) : Field(f)[i] \in Range(Field(f))
  BY RangeIs
<1>3. Range(Field(f)) \subseteq Positions
  BY <1>1 DEF WellFormed, Field, Positions
<1>4. \A i, j \in DOMAIN Field(f) : Field(f)[i] = Field(f)[j] => i = j
  BY <1>1 DEF WellFormed, Field, IsInjective
<1>5. \A g \in DOMAIN row.fields \ {f} : Range(Field(f)) \cap Range(Field(g)) = {}
  BY <1>1 DEF WellFormed, Field
<1>6. \A g : \A i \in DOMAIN Field(g) : Field(g)[i] \in Range(Field(g))
  BY RangeIs
<1> QED
  BY <1>2, <1>3, <1>4, <1>5, <1>6, NamedIs

-----------------------------------------------------------------------------
(* The functions of one field. *)

\* What they do to the bits of a field, where they agree on it.
SetBits(field, w, val) ==
  (w \ Range(field)) \cup {field[i] : i \in val \cap DOMAIN field}

CopyBits(field, dst, src) == (dst \ Range(field)) \cup (src \cap Range(field))

LEMMA FunctionsAgree ==
  ASSUME type \in DOMAIN Types, NEW f \in DOMAIN row.fields, NEW w, NEW v
  PROVE  set(f, w, v) = SetBits(Field(f), w, v) /\ copy(f, w, v) = CopyBits(Field(f), w, v)
<1>1. WellFormed(row)
  BY TypesAssumption DEF row
<1> HIDE DEF row
<1>2. /\ row.set[f] = Field(f)
      /\ row.cleared[f] = Range(Field(f)) /\ row.copied[f] = Range(Field(f))
  BY <1>1 DEF WellFormed, Field
<1> QED
  BY <1>2 DEF set, copy, SetBits, CopyBits

\* The bits of the word a call leaves are those of the fields it leaves.
LEMMA SameFields ==
  ASSUME NEW v, NEW w, \A i \in Named : i \in v <=> i \in w, type \in DOMAIN Types
  PROVE  FieldsOf(v) = FieldsOf(w)
<1>1. ASSUME NEW f \in DOMAIN row.fields
      PROVE  get(f, v) = get(f, w)
  BY <1>1, FieldFacts DEF get
<1> QED
  BY <1>1 DEF FieldsOf

LEMMA SetGet ==
  ASSUME type \in DOMAIN Types, NEW f \in DOMAIN row.fields, NEW w, NEW val
  PROVE  /\ get(f, SetBits(Field(f), w, val)) = val \cap DOMAIN Field(f)
         /\ \A g \in DOMAIN row.fields \ {f} :
              get(g, SetBits(Field(f), w, val)) = get(g, w)
<1>1. ASSUME NEW i \in DOMAIN Field(f)
      PROVE  Field(f)[i] \in SetBits(Field(f), w, val) <=> i \in val
  <2>1. Field(f)[i] \in Range(Field(f))
    BY RangeIs
  <2>2. \A j \in DOMAIN Field(f) : Field(f)[i] = Field(f)[j] => i = j
    BY FieldFacts
  <2> QED
    BY <2>1, <2>2 DEF SetBits
<1>2. ASSUME NEW g \in DOMAIN row.fields \ {f}, NEW i \in DOMAIN Field(g)
      PROVE  Field(g)[i] \in SetBits(Field(f), w, val) <=> Field(g)[i] \in w
  <2>1. Field(g)[i] \notin Range(Field(f))
    BY FieldFacts
  <2>2. \A j \in DOMAIN Field(f) : Field(g)[i] # Field(f)[j]
    BY <2>1, RangeIs
  <2> QED
    BY <2>1, <2>2 DEF SetBits
<1> QED
  BY <1>1, <1>2 DEF get

LEMMA CopyGet ==
  ASSUME type \in DOMAIN Types, NEW f \in DOMAIN row.fields, NEW w, NEW src
  PROVE  /\ get(f, CopyBits(Field(f), w, src)) = get(f, src)
         /\ \A g \in DOMAIN row.fields \ {f} :
              get(g, CopyBits(Field(f), w, src)) = get(g, w)
<1>1. \A i \in DOMAIN Field(f) : Field(f)[i] \in Range(Field(f))
  BY RangeIs
<1>2. \A g \in DOMAIN row.fields \ {f} : \A i \in DOMAIN Field(g) :
        Field(g)[i] \notin Range(Field(f))
  BY FieldFacts
<1> QED
  BY <1>1, <1>2 DEF get, CopyBits

\* Neither touches a bit of another field or of none.
LEMMA SetFieldOnly ==
  ASSUME type \in DOMAIN Types, NEW f \in DOMAIN row.fields,
         NEW w, NEW val, w \subseteq Positions
  PROVE  /\ SetBits(Field(f), w, val) \ Named = w \ Named
         /\ SetBits(Field(f), w, val) \subseteq Positions
<1>1. \A i \in DOMAIN Field(f) : Field(f)[i] \in Named /\ Field(f)[i] \in Positions
  BY FieldFacts
<1>2. \A i \in Range(Field(f)) : i \in Named
  BY <1>1, RangeIs
<1>3. \A i \in SetBits(Field(f), w, val) : i \in w \/ (i \in Named /\ i \in Positions)
  BY <1>1 DEF SetBits
<1>4. \A i \in w \ Named : i \in SetBits(Field(f), w, val)
  BY <1>2 DEF SetBits
<1> QED
  BY <1>3, <1>4

LEMMA CopyFieldOnly ==
  ASSUME type \in DOMAIN Types, NEW f \in DOMAIN row.fields,
         NEW w, NEW src, w \subseteq Positions
  PROVE  /\ CopyBits(Field(f), w, src) \ Named = w \ Named
         /\ CopyBits(Field(f), w, src) \subseteq Positions
<1>1. \A i \in DOMAIN Field(f) : Field(f)[i] \in Named /\ Field(f)[i] \in Positions
  BY FieldFacts
<1>2. \A i \in Range(Field(f)) : i \in Named /\ i \in Positions
  BY <1>1, RangeIs
<1>3. \A i \in CopyBits(Field(f), w, src) : i \in w \/ (i \in Named /\ i \in Positions)
  BY <1>2 DEF CopyBits
<1>4. \A i \in w \ Named : i \in CopyBits(Field(f), w, src)
  BY <1>2 DEF CopyBits
<1> QED
  BY <1>3, <1>4

\* The inverse of a word is that of every field.
LEMMA InverseGet ==
  ASSUME type \in DOMAIN Types, NEW f \in DOMAIN row.fields, NEW v
  PROVE  get(f, inverse(v)) = DOMAIN Field(f) \ get(f, v)
<1>1. \A i \in DOMAIN Field(f) : Field(f)[i] \in Positions
  BY FieldFacts
<1> QED
  BY <1>1 DEF get, inverse

LEMMA CleanFacts ==
  ASSUME type \in DOMAIN Types, NEW w, w \subseteq Positions
  PROVE  /\ clean(w) \subseteq Positions
         /\ is_clean(clean(w))
         /\ is_clean(w) <=> clean(w) = w
         /\ FieldsOf(clean(w)) = FieldsOf(w)
<1>1. /\ row.named = Named /\ Named \subseteq Positions
      /\ row.unnamed = Positions \ Named /\ row.expected \subseteq row.unnamed
  BY RowFacts
<1>2. clean(w) \subseteq Positions
  BY <1>1 DEF clean
<1>3. is_clean(clean(w))
  BY <1>1 DEF clean, is_clean
<1>4. is_clean(w) <=> clean(w) = w
  BY <1>1 DEF clean, is_clean
<1>5. \A i \in Named : i \in clean(w) <=> i \in w
  BY <1>1 DEF clean
<1>6. FieldsOf(clean(w)) = FieldsOf(w)
  BY <1>5, SameFields
<1> QED
  BY <1>2, <1>3, <1>4, <1>6

\* Words are the same where they have a name if their fields are.
LEMMA NamedBitsAreFields ==
  ASSUME type \in DOMAIN Types, NEW v, NEW w
  PROVE  v \cap Named = w \cap Named <=> FieldsOf(v) = FieldsOf(w)
<1>1. ASSUME v \cap Named = w \cap Named
      PROVE  FieldsOf(v) = FieldsOf(w)
  <2>1. \A i \in Named : i \in v <=> i \in w
    BY <1>1
  <2> QED
    BY <2>1, SameFields
<1>2. ASSUME FieldsOf(v) = FieldsOf(w), NEW i \in Named
      PROVE  i \in v <=> i \in w
  <2>1. PICK f \in DOMAIN row.fields : i \in Range(Field(f))
    BY NamedIs
  <2>2. PICK j \in DOMAIN Field(f) : i = Field(f)[j]
    BY <2>1, RangeIs
  <2>3. get(f, v) = get(f, w)
    <3>1. FieldsOf(v)[f] = get(f, v) /\ FieldsOf(w)[f] = get(f, w)
      BY DEF FieldsOf
    <3> QED
      BY <3>1, <1>2
  <2> QED
    BY <2>2, <2>3 DEF get
<1> QED
  BY <1>1, <1>2

LEMMA EmptyIsZero ==
  ASSUME type \in DOMAIN Types, NEW w
  PROVE  is_empty(w) <=> \A f \in DOMAIN row.fields : get(f, w) = {}
<1>1. is_empty(w) <=> w \cap Named = {} \cap Named
  BY RowFacts DEF is_empty
<1>2. FieldsOf(w) = FieldsOf({}) <=>
        \A f \in DOMAIN row.fields : get(f, w) = get(f, {})
  <2>1. \A f \in DOMAIN row.fields : /\ FieldsOf(w)[f] = get(f, w)
                                     /\ FieldsOf({})[f] = get(f, {})
    BY DEF FieldsOf
  <2>2. (\A f \in DOMAIN row.fields : get(f, w) = get(f, {}))
          => FieldsOf(w) = FieldsOf({})
    BY DEF FieldsOf
  <2> QED
    BY <2>1, <2>2
<1>3. \A f : get(f, {}) = {}
  BY DEF get
<1> QED
  BY <1>1, <1>2, <1>3, NamedBitsAreFields

-----------------------------------------------------------------------------
(* Proper objects stay so. *)

LEMMA WordsFit ==
  ASSUME type \in DOMAIN Types
  PROVE  Words \subseteq SUBSET Positions
<1>1. /\ row.expected \cup row.named \subseteq Positions
      /\ row.default \subseteq Positions
  BY RowFacts
<1> HIDE DEF row
<1> QED
  BY <1>1 DEF Words

\* What StaysProper says of an object made.
Kept(w, u) ==
  /\ \A f \in DOMAIN row.enums : raw_is_valid(f, get(f, w))
  /\ "inverse" \notin u => w \cap row.unnamed \subseteq row.expected
  /\ u = {} => is_clean(w)

LEMMA StaysProperIs == StaysProper <=> (made => Kept(word, used))
  BY DEF StaysProper, Kept

LEMMA ProperKept ==
  ASSUME NEW w, IsProper(w)
  PROVE  Kept(w, {})
  BY DEF IsProper, Kept, is_clean

LEMMA DefaultProper ==
  ASSUME type \in DOMAIN Types
  PROVE  IsProper(row.default)
<1>1. WellFormed(row)
  BY TypesAssumption DEF row
<1> HIDE DEF row
<1>2. is_clean(row.default)
  BY <1>1 DEF WellFormed, is_clean
<1>3. ASSUME NEW f \in DOMAIN row.enums
      PROVE  raw_is_valid(f, get(f, row.default))
  <2>1. \E n \in row.enums[f] :
          {i \in DOMAIN row.fields[f] : row.fields[f][i] \in row.default} = Bin(n)
    BY <1>1, <1>3 DEF WellFormed
  <2> HIDE DEF Bin
  <2>2. get(f, row.default) =
          {i \in DOMAIN row.fields[f] : row.fields[f][i] \in row.default}
    BY DEF get, Field
  <2> QED
    BY <2>1, <2>2 DEF raw_is_valid
<1> QED
  BY <1>2, <1>3 DEF IsProper

\* The unnamed bits alone decide the last two parts.
LEMMA SameUnnamed ==
  ASSUME NEW v, NEW w, NEW u, Kept(w, u), v \cap row.unnamed = w \cap row.unnamed,
         \A f \in DOMAIN row.enums : raw_is_valid(f, get(f, v))
  PROVE  Kept(v, u)
  BY DEF Kept, is_clean

LEMMA SetProper ==
  ASSUME type \in DOMAIN Types, NEW f \in DOMAIN row.fields, NEW w, NEW val, NEW u,
         w \subseteq Positions, Kept(w, u),
         f \in DOMAIN row.enums => raw_is_valid(f, val)
  PROVE  Kept(SetBits(Field(f), w, val), u)
<1> DEFINE v == SetBits(Field(f), w, val)
<1>1. v \ Named = w \ Named /\ row.unnamed = Positions \ Named /\ v \subseteq Positions
  BY SetFieldOnly, RowFacts
<1>2. v \cap row.unnamed = w \cap row.unnamed
  BY <1>1
<1>3. ASSUME NEW g \in DOMAIN row.enums
      PROVE  raw_is_valid(g, get(g, v))
  <2>1. g \in DOMAIN row.fields
    BY RowFacts
  <2>2. CASE g = f
    <3>1. PICK n \in row.enums[f] : val = Bin(n)
      BY <1>3, <2>2 DEF raw_is_valid
    <3>2. Bin(n) \subseteq DOMAIN Field(f)
      BY <1>3, <2>2, TypesAssumption DEF WellFormed, Field, row
    <3>3. get(f, v) = val
      BY <3>1, <3>2, SetGet
    <3> QED
      BY <1>3, <2>2, <3>3
  <2>3. CASE g # f
    <3>1. get(g, v) = get(g, w)
      BY <2>1, <2>3, SetGet
    <3> QED
      BY <1>3, <3>1 DEF Kept
  <2> QED
    BY <2>2, <2>3
<1> HIDE DEF v
<1> QED
  BY <1>2, <1>3, SameUnnamed DEF v

LEMMA CopyProper ==
  ASSUME type \in DOMAIN Types, NEW f \in DOMAIN row.fields, NEW w, NEW src, NEW u,
         w \subseteq Positions, Kept(w, u), IsProper(src)
  PROVE  Kept(CopyBits(Field(f), w, src), u)
<1> DEFINE v == CopyBits(Field(f), w, src)
<1>1. v \ Named = w \ Named /\ row.unnamed = Positions \ Named /\ v \subseteq Positions
  BY CopyFieldOnly, RowFacts
<1>2. v \cap row.unnamed = w \cap row.unnamed
  BY <1>1
<1>3. ASSUME NEW g \in DOMAIN row.enums
      PROVE  raw_is_valid(g, get(g, v))
  <2>1. g \in DOMAIN row.fields
    BY RowFacts
  <2>2. get(g, v) = get(g, src) \/ get(g, v) = get(g, w)
    BY <2>1, CopyGet
  <2> QED
    BY <1>3, <2>2 DEF IsProper, Kept
<1> HIDE DEF v
<1> QED
  BY <1>2, <1>3, SameUnnamed DEF v

\* Cleaning puts the unnamed bits right, whatever has been done to them.
LEMMA CleanProper ==
  ASSUME type \in DOMAIN Types, NEW w, NEW u, w \subseteq Positions, Kept(w, u)
  PROVE  Kept(clean(w), {})
<1>1. is_clean(clean(w)) /\ FieldsOf(clean(w)) = FieldsOf(w)
  BY CleanFacts
<1>2. \A f \in DOMAIN row.fields : /\ FieldsOf(w)[f] = get(f, w)
                                   /\ FieldsOf(clean(w))[f] = get(f, clean(w))
  BY DEF FieldsOf
<1>3. \A f \in DOMAIN row.enums : get(f, clean(w)) = get(f, w)
  BY <1>1, <1>2, RowFacts
<1>4. \A f \in DOMAIN row.enums : raw_is_valid(f, get(f, clean(w)))
  BY <1>3 DEF Kept
<1>5. IsProper(clean(w))
  BY <1>1, <1>4 DEF IsProper
<1> QED
  BY <1>5, ProperKept

\* The set functions, where no field is an enumerator: a difference may clear an
\* unnamed bit, and an inverse sets those that were clear.
LEMMA SetFunctionsKeep ==
  ASSUME type \in DOMAIN Types, row.flags, NEW v, NEW w, NEW u,
         Kept(v, u), IsProper(w)
  PROVE  /\ Kept(v \cup w, u) /\ Kept(v \cap w, u)
         /\ Kept(v \ w, u \cup {"difference"})
         /\ Kept(inverse(v), u \cup {"inverse"})
<1>1. DOMAIN row.enums = {}
  BY RowFacts
<1>2. w \cap row.unnamed = row.expected
  BY DEF IsProper, is_clean
<1>3. /\ "inverse" \notin u => v \cap row.unnamed \subseteq row.expected
      /\ u = {} => v \cap row.unnamed = row.expected
  BY DEF Kept, is_clean
<1>4. Kept(v \cup w, u)
  BY <1>1, <1>2, <1>3 DEF Kept, is_clean
<1>5. Kept(v \cap w, u)
  BY <1>1, <1>2, <1>3 DEF Kept, is_clean
<1>6. Kept(v \ w, u \cup {"difference"})
  BY <1>1, <1>3 DEF Kept
<1>7. Kept(inverse(v), u \cup {"inverse"})
  BY <1>1 DEF Kept
<1> QED
  BY <1>4, <1>5, <1>6, <1>7

-----------------------------------------------------------------------------
(* The invariant: objects and arguments are words, atomic calls are only     *)
(* made on types that have them, and what is said to be proper is.           *)

Ops == {"union", "intersection", "difference"}

\* What a call of that name does to the word.
Effect(op, v, w) ==
  CASE op = "union" -> v \cup w
    [] op = "intersection" -> v \cap w
    [] op = "difference" -> v \ w

CallTypes ==
  {Idle}
    \cup [step : {"called"}, op : Ops, from : SUBSET Positions]
    \cup [step : {"loop"}, op : Ops, from : SUBSET Positions, old : SUBSET Positions]
    \cup [step : {"done"}, old : SUBSET Positions]

TypesInv ==
  /\ type \in DOMAIN Types
  /\ word \in SUBSET Positions
  /\ calls \in [Threads -> CallTypes]
  /\ made \in BOOLEAN

IInv ==
  /\ TypesInv
  /\ \A th \in Threads : calls[th] # Idle => row.flags
  /\ made => Kept(word, used)

\* What a thread in a call has to go on with.
LEMMA InACall ==
  ASSUME IInv, NEW th \in Threads
  PROVE  /\ calls[th].step = "called" =>
              /\ calls[th] = [step |-> "called", op |-> calls[th].op,
                              from |-> calls[th].from]
              /\ calls[th].op \in Ops /\ calls[th].from \subseteq Positions
         /\ calls[th].step = "loop" =>
              /\ calls[th] = [step |-> "loop", op |-> calls[th].op,
                              from |-> calls[th].from, old |-> calls[th].old]
              /\ calls[th].op \in Ops /\ calls[th].from \subseteq Positions
              /\ calls[th].old \subseteq Positions
         /\ calls[th].step = "done" =>
              /\ calls[th] = [step |-> "done", old |-> calls[th].old]
              /\ calls[th].old \subseteq Positions
         /\ calls[th].step # "idle" => row.flags
<1>1. calls[th] \in CallTypes
  BY DEF IInv, TypesInv
<1>2. calls[th].step # "idle" => calls[th] # Idle
  BY DEF Idle
<1>3. calls[th].step # "idle" => row.flags
  BY <1>2 DEF IInv
<1> HIDE DEF Positions
<1> QED
  BY <1>1, <1>3 DEF CallTypes, Idle

\* The set functions the histories name after a call.
UsedAfter(op) == used \cup ({op} \cap {"difference"})

\* A call that takes effect leaves a word, and what is kept of a proper one.
LEMMA EffectInv ==
  ASSUME IInv, NEW op \in Ops, NEW w \in SUBSET Positions, row.flags,
         NEW v, v = Effect(op, word, w)
  PROVE  /\ v \in SUBSET Positions
         /\ made /\ IsProper(w) => Kept(v, UsedAfter(op))
<1>1. v \in SUBSET Positions
  BY DEF Ops, IInv, TypesInv, Effect
<1>2. ASSUME made, IsProper(w)
      PROVE  Kept(v, UsedAfter(op))
  <2>1. Kept(word, used) /\ type \in DOMAIN Types
    BY <1>2 DEF IInv, TypesInv
  <2>2. /\ Kept(word \cup w, used) /\ Kept(word \cap w, used)
        /\ Kept(word \ w, used \cup {"difference"})
    BY <1>2, <2>1, SetFunctionsKeep
  <2>3. CASE op \in {"union", "intersection"}
    <3>1. v = word \cup w \/ v = word \cap w
      BY <2>3 DEF Effect
    <3>2. UsedAfter(op) = used
      BY <2>3 DEF UsedAfter
    <3> QED
      BY <2>2, <3>1, <3>2
  <2>4. CASE op = "difference"
    <3>1. v = word \ w
      BY <2>4 DEF Effect
    <3>2. UsedAfter(op) = used \cup {"difference"}
      BY <2>4 DEF UsedAfter
    <3> QED
      BY <2>2, <3>1, <3>2
  <2> QED
    BY <2>3, <2>4 DEF Ops
<1> QED
  BY <1>1, <1>2

\* Both forms of an atomic call have the effect its name says.
LEMMA AtomicEffects ==
  ASSUME NEW w, w \subseteq Positions, NEW c, c.op \in Ops
  PROVE  /\ NewValue(c, w) = Effect(c.op, w, c.from)
         /\ w \ inverse(c.from) = w \cap c.from
         /\ \A v : difference(w, v) = w \ v
<1>1. w \cap inverse(c.from) = w \ c.from /\ w \ inverse(c.from) = w \cap c.from
  BY DEF inverse
<1>2. \A v : difference(w, v) = w \ v
  BY DEF inverse, difference
<1> QED
  BY <1>1, <1>2 DEF NewValue, Ops, Effect

THEOREM InitIInv == Init => IInv
<1> SUFFICES ASSUME Init
             PROVE  IInv
  OBVIOUS
<1>1. /\ type \in DOMAIN Types /\ word \in Words /\ used = {}
      /\ made = (word = row.default \/ IsProper(word))
  BY DEF Init
<1>2. calls = [th \in Threads |-> Idle]
  BY DEF Init
<1>3. word \in SUBSET Positions
  BY <1>1, WordsFit
<1>4. calls \in [Threads -> CallTypes] /\ \A th \in Threads : calls[th] = Idle
  BY <1>2 DEF CallTypes
<1>5. made \in BOOLEAN
  BY <1>1
<1>6. made => IsProper(word)
  BY <1>1, DefaultProper
<1>7. made => Kept(word, used)
  BY <1>1, <1>6, ProperKept
<1> QED
  BY <1>1, <1>3, <1>4, <1>5, <1>7 DEF IInv, TypesInv

\* As long as the type stays, so do the words and what is kept.
LEMMA RowStays ==
  type' = type =>
    /\ row' = row /\ Positions' = Positions /\ CallTypes' = CallTypes
    /\ Kept(word, used)' = Kept(word', used')
<1> SUFFICES ASSUME type' = type
             PROVE  /\ row' = row /\ Positions' = Positions
                    /\ CallTypes' = CallTypes
                    /\ Kept(word, used)' = Kept(word', used')
  OBVIOUS
<1>1. row' = row
  BY DEF row
<1>2. Positions' = Positions
  BY <1>1 DEF Positions
<1>3. CallTypes' = CallTypes
  BY <1>2 DEF CallTypes
<1>4. Kept(word, used)' = Kept(word', used')
  BY <1>1 DEF Kept, is_clean, raw_is_valid, Field, get
<1> QED
  BY <1>1, <1>2, <1>3, <1>4

\* The invariant after a step, from the parts a step has to answer for.
LEMMA InvAfter ==
  ASSUME IInv, type' = type, word' \in SUBSET Positions,
         calls' \in [Threads -> CallTypes],
         \A th \in Threads : calls'[th] # Idle => row.flags,
         made' \in BOOLEAN, made' => Kept(word', used')
  PROVE  IInv'
<1>1. /\ row' = row /\ Positions' = Positions /\ CallTypes' = CallTypes
      /\ Kept(word, used)' = Kept(word', used')
  BY RowStays
<1>2. type' \in DOMAIN Types
  BY DEF IInv, TypesInv
<1>3. TypesInv'
  BY <1>1, <1>2 DEF TypesInv
<1>4. (\A th \in Threads : calls[th] # Idle => row.flags)'
  BY <1>1
<1>5. (made => Kept(word, used))'
  BY <1>1
<1> QED
  BY <1>3, <1>4, <1>5 DEF IInv

-----------------------------------------------------------------------------
(* Each step keeps the invariant. *)

\* Calls while no atomic call is in progress leave the other calls as they are.
LEMMA AloneInv ==
  ASSUME IInv, Alone, word' \in SUBSET Positions,
         made' \in BOOLEAN, made' => Kept(word', used')
  PROVE  IInv'
<1>1. type' = type /\ calls' = calls
  BY DEF Alone
<1>2. calls' \in [Threads -> CallTypes]
  BY <1>1 DEF IInv, TypesInv
<1>3. \A th \in Threads : calls'[th] # Idle => row.flags
  BY <1>1 DEF IInv
<1> QED
  BY <1>1, <1>2, <1>3, InvAfter

LEMMA set_field_Inv == IInv /\ set_field => IInv'
<1> SUFFICES ASSUME IInv, set_field
             PROVE  IInv'
  OBVIOUS
<1>0. PICK f \in DOMAIN row.fields \ row.readonly : \E val \in Values(f) :
        /\ word' = set(f, word, val)
        /\ made' = (made /\ (f \in DOMAIN row.enums => raw_is_valid(f, val)))
  BY DEF set_field
<1>1. PICK val \in Values(f) :
        /\ word' = set(f, word, val)
        /\ made' = (made /\ (f \in DOMAIN row.enums => raw_is_valid(f, val)))
  BY <1>0
<1>2. Alone /\ used' = used
  BY DEF set_field
<1>3. type \in DOMAIN Types /\ word \subseteq Positions
  BY DEF IInv, TypesInv
<1>4. word' = SetBits(Field(f), word, val)
  BY <1>1, <1>3, FunctionsAgree
<1>5. word' \in SUBSET Positions
  BY <1>3, <1>4, SetFieldOnly
<1>6. made' \in BOOLEAN
  BY <1>1
<1>7. ASSUME made'
      PROVE  Kept(word', used')
  <2>1. made /\ (f \in DOMAIN row.enums => raw_is_valid(f, val))
    BY <1>1, <1>7
  <2>2. Kept(word, used)
    BY <2>1 DEF IInv
  <2>3. Kept(SetBits(Field(f), word, val), used)
    BY <2>1, <2>2, <1>3, SetProper
  <2> QED
    BY <1>2, <1>4, <2>3
<1> QED
  BY <1>2, <1>5, <1>6, <1>7, AloneInv

LEMMA copy_field_Inv == IInv /\ copy_field => IInv'
<1> SUFFICES ASSUME IInv, copy_field
             PROVE  IInv'
  OBVIOUS
<1>1. PICK f \in DOMAIN row.fields \ row.readonly, src \in Words :
        /\ word' = copy(f, word, src)
        /\ made' = (made /\ IsProper(src))
  BY DEF copy_field
<1>2. Alone /\ used' = used
  BY DEF copy_field
<1>3. type \in DOMAIN Types /\ word \subseteq Positions
  BY DEF IInv, TypesInv
<1>4. word' = CopyBits(Field(f), word, src)
  BY <1>1, <1>3, FunctionsAgree
<1>5. word' \in SUBSET Positions
  BY <1>3, <1>4, CopyFieldOnly
<1>6. made' \in BOOLEAN
  BY <1>1
<1>7. ASSUME made'
      PROVE  Kept(word', used')
  <2>1. made /\ IsProper(src)
    BY <1>1, <1>7
  <2>2. Kept(word, used)
    BY <2>1 DEF IInv
  <2>3. Kept(CopyBits(Field(f), word, src), used)
    BY <2>1, <2>2, <1>3, CopyProper
  <2> QED
    BY <1>2, <1>4, <2>3
<1> QED
  BY <1>2, <1>5, <1>6, <1>7, AloneInv

LEMMA init_object_Inv == IInv /\ init_object => IInv'
<1> SUFFICES ASSUME IInv, init_object
             PROVE  IInv'
  OBVIOUS
<1>1. Alone /\ word' = row.default /\ made' = TRUE /\ used' = {}
  BY DEF init_object
<1>2. type \in DOMAIN Types
  BY DEF IInv, TypesInv
<1>3. word' \in SUBSET Positions
  BY <1>1, <1>2, RowFacts
<1>4. Kept(word', used')
  BY <1>1, <1>2, DefaultProper, ProperKept
<1> QED
  BY <1>1, <1>3, <1>4, AloneInv

LEMMA cast_Inv == IInv /\ cast => IInv'
<1> SUFFICES ASSUME IInv, cast
             PROVE  IInv'
  OBVIOUS
<1>1. PICK w \in Words : word' = w /\ made' = IsProper(w)
  BY DEF cast
<1>2. Alone /\ used' = {}
  BY DEF cast
<1>3. type \in DOMAIN Types
  BY DEF IInv, TypesInv
<1>4. word' \in SUBSET Positions
  BY <1>1, <1>3, WordsFit
<1>5. made' \in BOOLEAN
  BY <1>1 DEF IsProper
<1>6. made' => Kept(word', used')
  BY <1>1, <1>2, ProperKept
<1> QED
  BY <1>2, <1>4, <1>5, <1>6, AloneInv

LEMMA clean_object_Inv == IInv /\ clean_object => IInv'
<1> SUFFICES ASSUME IInv, clean_object
             PROVE  IInv'
  OBVIOUS
<1>1. Alone /\ word' = clean(word) /\ made' = made /\ used' = {}
  BY DEF clean_object
<1>2. type \in DOMAIN Types /\ word \subseteq Positions /\ made \in BOOLEAN
  BY DEF IInv, TypesInv
<1>3. word' \in SUBSET Positions
  BY <1>1, <1>2, CleanFacts
<1>4. ASSUME made'
      PROVE  Kept(word', used')
  <2>1. Kept(word, used)
    BY <1>1, <1>4 DEF IInv
  <2>2. Kept(clean(word), {})
    BY <1>2, <2>1, CleanProper
  <2> QED
    BY <1>1, <2>2
<1> QED
  BY <1>1, <1>2, <1>3, <1>4, AloneInv

\* What a set function leaves, in the terms of EffectInv.
LEMMA SetFunctionsAre ==
  ASSUME IInv, set_functions
  PROVE  /\ Alone /\ row.flags
         /\ \E op \in Ops, w \in Words :
              /\ word' = Effect(op, word, w)
              /\ last' = [op |-> op, from |-> w]
              /\ made' = (made /\ IsProper(w))
              /\ used' = UsedAfter(op)
<1>1. Alone /\ row.flags
  BY DEF set_functions
<1>2. word \subseteq Positions
  BY DEF IInv, TypesInv
<1>3. PICK w \in Words :
        /\ \/ /\ word' = word \cup w
              /\ last' = [op |-> "union", from |-> w]
              /\ used' = used
           \/ /\ word' = word \cap w
              /\ last' = [op |-> "intersection", from |-> w]
              /\ used' = used
           \/ /\ word' = difference(word, w)
              /\ last' = [op |-> "difference", from |-> w]
              /\ used' = used \cup {"difference"}
        /\ made' = (made /\ IsProper(w))
  BY DEF set_functions
<1>4. difference(word, w) = word \ w
  BY <1>2 DEF difference, inverse
<1>5. ASSUME NEW op \in Ops, word' = Effect(op, word, w),
             last' = [op |-> op, from |-> w], used' = UsedAfter(op)
      PROVE  \E o \in Ops, x \in Words :
               /\ word' = Effect(o, word, x)
               /\ last' = [op |-> o, from |-> x]
               /\ made' = (made /\ IsProper(x))
               /\ used' = UsedAfter(o)
  BY <1>3, <1>5
<1>6. CASE /\ word' = word \cup w
           /\ last' = [op |-> "union", from |-> w]
           /\ used' = used
  <2>1. "union" \in Ops /\ UsedAfter("union") = used
    BY DEF Ops, UsedAfter
  <2>2. word' = Effect("union", word, w)
    BY <1>6 DEF Effect
  <2> QED
    BY <1>1, <1>5, <1>6, <2>1, <2>2
<1>7. CASE /\ word' = word \cap w
           /\ last' = [op |-> "intersection", from |-> w]
           /\ used' = used
  <2>1. "intersection" \in Ops /\ UsedAfter("intersection") = used
    BY DEF Ops, UsedAfter
  <2>2. word' = Effect("intersection", word, w)
    BY <1>7 DEF Effect
  <2> QED
    BY <1>1, <1>5, <1>7, <2>1, <2>2
<1>8. CASE /\ word' = difference(word, w)
           /\ last' = [op |-> "difference", from |-> w]
           /\ used' = used \cup {"difference"}
  <2>1. "difference" \in Ops /\ UsedAfter("difference") = used \cup {"difference"}
    BY DEF Ops, UsedAfter
  <2>2. word' = Effect("difference", word, w)
    BY <1>4, <1>8 DEF Effect
  <2> QED
    BY <1>1, <1>5, <1>8, <2>1, <2>2
<1> QED
  BY <1>3, <1>6, <1>7, <1>8

LEMMA set_functions_Inv == IInv /\ set_functions => IInv'
<1> SUFFICES ASSUME IInv, set_functions
             PROVE  IInv'
  OBVIOUS
<1>1. Alone /\ row.flags
  BY SetFunctionsAre
<1>2. PICK op \in Ops, w \in Words :
        /\ word' = Effect(op, word, w)
        /\ made' = (made /\ IsProper(w)) /\ used' = UsedAfter(op)
  BY SetFunctionsAre
<1>3. w \in SUBSET Positions
  BY WordsFit DEF IInv, TypesInv
<1>4. /\ word' \in SUBSET Positions
      /\ made /\ IsProper(w) => Kept(word', UsedAfter(op))
  BY <1>1, <1>2, <1>3, EffectInv
<1>5. made' \in BOOLEAN /\ (made' => Kept(word', used'))
  BY <1>2, <1>4
<1> QED
  BY <1>1, <1>4, <1>5, AloneInv

LEMMA invert_Inv == IInv /\ invert => IInv'
<1> SUFFICES ASSUME IInv, invert
             PROVE  IInv'
  OBVIOUS
<1>1. /\ Alone /\ row.flags /\ word' = inverse(word)
      /\ made' = made /\ used' = used \cup {"inverse"}
  BY DEF invert
<1>2. word' \in SUBSET Positions
  BY <1>1 DEF inverse
<1>3. type \in DOMAIN Types /\ made \in BOOLEAN
  BY DEF IInv, TypesInv
<1>4. ASSUME made'
      PROVE  Kept(word', used')
  <2>1. Kept(word, used)
    BY <1>1, <1>4 DEF IInv
  <2>2. Kept(inverse(word), used \cup {"inverse"})
    BY <1>1, <1>3, <2>1, DefaultProper, SetFunctionsKeep
  <2> QED
    BY <1>1, <2>2
<1> QED
  BY <1>1, <1>2, <1>3, <1>4, AloneInv

\* A step of an atomic call changes its thread's call and no other.
LEMMA AtomicInv ==
  ASSUME IInv, NEW th \in Threads, NEW c \in CallTypes, type' = type, row.flags,
         calls' = [calls EXCEPT ![th] = c], word' \in SUBSET Positions,
         made' \in BOOLEAN, made' => Kept(word', used')
  PROVE  IInv'
<1>1. calls \in [Threads -> CallTypes]
  BY DEF IInv, TypesInv
<1>2. calls' \in [Threads -> CallTypes]
  BY <1>1
<1> QED
  BY <1>2, InvAfter

\* The same, if it leaves the word alone.
LEMMA AtomicKeeps ==
  ASSUME IInv, NEW th \in Threads, NEW c \in CallTypes, row.flags,
         calls' = [calls EXCEPT ![th] = c], UNCHANGED <<type, word, made, used>>
  PROVE  IInv'
<1>1. word' \in SUBSET Positions /\ made' \in BOOLEAN
  BY DEF IInv, TypesInv
<1>2. made' => Kept(word', used')
  BY DEF IInv
<1> QED
  BY <1>1, <1>2, AtomicInv

LEMMA CallTypesAre ==
  ASSUME NEW op \in Ops, NEW from \in SUBSET Positions, NEW old \in SUBSET Positions
  PROVE  /\ Idle \in CallTypes
         /\ [step |-> "called", op |-> op, from |-> from] \in CallTypes
         /\ [step |-> "loop", op |-> op, from |-> from, old |-> old] \in CallTypes
         /\ [step |-> "done", old |-> old] \in CallTypes
<1> HIDE DEF Positions, Ops
<1> QED
  BY DEF CallTypes

LEMMA atomic_call_Inv ==
  ASSUME IInv, NEW th \in Threads, atomic_call(th)
  PROVE  IInv'
<1>1. PICK op \in Ops, w \in Words :
        calls' = [calls EXCEPT ![th] = [step |-> "called", op |-> op, from |-> w]]
  BY DEF atomic_call, Ops
<1>2. row.flags /\ UNCHANGED <<type, word, made, used>>
  BY DEF atomic_call
<1>3. w \in SUBSET Positions
  BY WordsFit DEF IInv, TypesInv
<1>4. [step |-> "called", op |-> op, from |-> w] \in CallTypes
  BY <1>3, CallTypesAre
<1> QED
  BY <1>1, <1>2, <1>4, AtomicKeeps

\* The call takes effect on the object, and has the value it replaced.
LEMMA ldset_ldclr_Is ==
  ASSUME IInv, NEW th \in Threads, ldset_ldclr(th)
  PROVE  /\ calls[th].step = "called"
         /\ word' = Effect(calls[th].op, word, calls[th].from)
         /\ calls' = [calls EXCEPT ![th] = [step |-> "done", old |-> word]]
         /\ Remember(calls[th])
         /\ UNCHANGED <<type, lse, last, left>>
<1>1. calls[th].step = "called"
  BY DEF ldset_ldclr
<1>2. calls[th].op \in Ops /\ word \subseteq Positions
  BY <1>1, InACall DEF IInv, TypesInv
<1>3. word \ inverse(calls[th].from) = word \cap calls[th].from
  BY <1>2, AtomicEffects
<1>4. word' = Effect(calls[th].op, word, calls[th].from)
  BY <1>2, <1>3 DEF ldset_ldclr, Effect, Ops
<1> QED
  BY <1>1, <1>4 DEF ldset_ldclr

LEMMA compare_exchange_Is ==
  ASSUME IInv, NEW th \in Threads, compare_exchange(th)
  PROVE  /\ calls[th].step = "loop"
         /\ word' = Effect(calls[th].op, word, calls[th].from)
         /\ calls' = [calls EXCEPT ![th] = [step |-> "done", old |-> word]]
         /\ Remember(calls[th])
         /\ UNCHANGED <<type, lse, last, left>>
<1>1. calls[th].step = "loop" /\ calls[th].old = word
  BY DEF compare_exchange
<1>2. calls[th].op \in Ops /\ word \subseteq Positions
  BY <1>1, InACall DEF IInv, TypesInv
<1>3. NewValue(calls[th], word) = Effect(calls[th].op, word, calls[th].from)
  BY <1>2, AtomicEffects
<1> QED
  BY <1>1, <1>3 DEF compare_exchange

LEMMA TakesEffectInv ==
  ASSUME IInv, NEW th \in Threads, calls[th].step \in {"called", "loop"},
         word' = Effect(calls[th].op, word, calls[th].from),
         calls' = [calls EXCEPT ![th] = [step |-> "done", old |-> word]],
         Remember(calls[th]), type' = type
  PROVE  IInv'
<1>1. /\ calls[th].op \in Ops /\ calls[th].from \in SUBSET Positions
      /\ row.flags /\ word \in SUBSET Positions
  BY InACall DEF IInv, TypesInv
<1>2. /\ word' \in SUBSET Positions
      /\ made /\ IsProper(calls[th].from) => Kept(word', UsedAfter(calls[th].op))
  BY <1>1, EffectInv
<1>3. made' \in BOOLEAN /\ (made' => Kept(word', used'))
  BY <1>2 DEF Remember, UsedAfter
<1>4. [step |-> "done", old |-> word] \in CallTypes
  BY <1>1, CallTypesAre
<1> QED
  BY <1>1, <1>2, <1>3, <1>4, AtomicInv

\* What the steps that leave the word alone do to the call.
LEMMA load_Is ==
  ASSUME IInv, NEW th \in Threads, load(th)
  PROVE  /\ calls[th].step = "called"
         /\ calls' = [calls EXCEPT ![th] =
                        [step |-> "loop", op |-> calls[th].op,
                         from |-> calls[th].from, old |-> word]]
         /\ UNCHANGED <<type, word, last, made, used>>
<1>1. calls \in [Threads -> CallTypes]
  BY DEF IInv, TypesInv
<1> QED
  BY <1>1 DEF load

LEMMA compare_exchange_fails_Is ==
  ASSUME IInv, NEW th \in Threads, compare_exchange_fails(th)
  PROVE  /\ calls[th].step = "loop"
         /\ calls' = [calls EXCEPT ![th] =
                        [step |-> "loop", op |-> calls[th].op,
                         from |-> calls[th].from, old |-> word]]
         /\ UNCHANGED <<type, word, last, made, used>>
<1>1. calls[th].step = "loop" /\ UNCHANGED <<type, word, last, made, used>>
  BY DEF compare_exchange_fails
<1>2. calls[th] = [step |-> "loop", op |-> calls[th].op,
                   from |-> calls[th].from, old |-> calls[th].old]
  BY <1>1, InACall
<1>3. [calls[th] EXCEPT !.old = word] =
        [step |-> "loop", op |-> calls[th].op, from |-> calls[th].from, old |-> word]
  BY <1>2
<1>4. calls \in [Threads -> CallTypes]
  BY DEF IInv, TypesInv
<1>5. calls' = [calls EXCEPT ![th] = [calls[th] EXCEPT !.old = word]]
  BY <1>4 DEF compare_exchange_fails
<1> QED
  BY <1>1, <1>3, <1>5

LEMMA LoopInv ==
  ASSUME IInv, NEW th \in Threads, calls[th].step \in {"called", "loop"},
         calls' = [calls EXCEPT ![th] =
                     [step |-> "loop", op |-> calls[th].op,
                      from |-> calls[th].from, old |-> word]],
         UNCHANGED <<type, word, made, used>>
  PROVE  IInv'
<1>1. /\ calls[th].op \in Ops /\ calls[th].from \in SUBSET Positions
      /\ row.flags /\ word \in SUBSET Positions
  BY InACall DEF IInv, TypesInv
<1>2. [step |-> "loop", op |-> calls[th].op,
       from |-> calls[th].from, old |-> word] \in CallTypes
  BY <1>1, CallTypesAre
<1> QED
  BY <1>1, <1>2, AtomicKeeps

LEMMA return_Inv ==
  ASSUME IInv, NEW th \in Threads, return(th)
  PROVE  IInv'
<1>1. /\ calls[th].step = "done" /\ UNCHANGED <<type, word, made, used>>
      /\ calls' = [calls EXCEPT ![th] = Idle]
  BY DEF return
<1>2. row.flags
  BY <1>1, InACall
<1>3. Idle \in CallTypes
  BY DEF CallTypes
<1> QED
  BY <1>1, <1>2, <1>3, AtomicKeeps

LEMMA AtomicStepInv ==
  ASSUME IInv, NEW th \in Threads, AtomicStep(th)
  PROVE  IInv'
<1>1. CASE ldset_ldclr(th)
  BY <1>1, ldset_ldclr_Is, TakesEffectInv
<1>2. CASE compare_exchange(th)
  BY <1>2, compare_exchange_Is, TakesEffectInv
<1>3. CASE load(th)
  BY <1>3, load_Is, LoopInv
<1>4. CASE compare_exchange_fails(th)
  BY <1>4, compare_exchange_fails_Is, LoopInv
<1>5. CASE return(th)
  BY <1>5, return_Inv
<1> QED
  BY <1>1, <1>2, <1>3, <1>4, <1>5 DEF AtomicStep

LEMMA StutterInv == IInv /\ UNCHANGED vars => IInv'
<1> SUFFICES ASSUME IInv, UNCHANGED vars
             PROVE  IInv'
  OBVIOUS
<1>1. UNCHANGED <<type, word, calls, made, used>>
  BY DEF vars
<1>2. word' \in SUBSET Positions /\ made' \in BOOLEAN /\ calls' \in [Threads -> CallTypes]
  BY <1>1 DEF IInv, TypesInv
<1>3. (made' => Kept(word', used')) /\ \A th \in Threads : calls'[th] # Idle => row.flags
  BY <1>1 DEF IInv
<1> QED
  BY <1>1, <1>2, <1>3, InvAfter

THEOREM NextIInv == IInv /\ [Next]_vars => IInv'
<1>1. IInv /\ (set_field \/ copy_field \/ init_object \/ cast) => IInv'
  BY set_field_Inv, copy_field_Inv, init_object_Inv, cast_Inv
<1>2. IInv /\ (clean_object \/ set_functions \/ invert) => IInv'
  BY clean_object_Inv, set_functions_Inv, invert_Inv
<1>3. ASSUME IInv, NEW th \in Threads, atomic_call(th) \/ AtomicStep(th)
      PROVE  IInv'
  BY <1>3, atomic_call_Inv, AtomicStepInv
<1> QED
  BY <1>1, <1>2, <1>3, StutterInv DEF Next

THEOREM SpecIInv == Spec => []IInv
  BY InitIInv, NextIInv, PTL DEF Spec

-----------------------------------------------------------------------------
(* What follows. *)

LEMMA IInvAgrees == IInv => WordAgreesWithFields
<1> SUFFICES ASSUME IInv
             PROVE  WordAgreesWithFields
  OBVIOUS
<1>1. type \in DOMAIN Types /\ word \subseteq Positions
  BY DEF IInv, TypesInv
<1>2. /\ is_clean(clean(word)) /\ (is_clean(word) <=> clean(word) = word)
      /\ FieldsOf(clean(word)) = FieldsOf(word)
  BY <1>1, CleanFacts
<1>3. ASSUME NEW w
      PROVE  is_equal(word, w) <=> FieldsOf(word) = FieldsOf(w)
  <2>1. row.named = Named
    BY <1>1, RowFacts
  <2>2. is_equal(word, w) <=> word \cap Named = w \cap Named
    BY <2>1 DEF is_equal
  <2> QED
    BY <1>1, <2>2, NamedBitsAreFields
<1>4. is_empty(word) <=> \A f \in DOMAIN row.fields : get(f, word) = {}
  BY <1>1, EmptyIsZero
<1> QED
  BY <1>2, <1>3, <1>4 DEF WordAgreesWithFields

\* The functions of the whole word agree with those of its fields: the masks of
\* _clean, _is_clean, _is_equal and _is_empty take every field for what it is.
THEOREM WholeWordIsItsFields == Spec => []WordAgreesWithFields
  BY SpecIInv, IInvAgrees, PTL

\* No sequence of calls given enumerators and proper objects, by one thread or by
\* threads that share the object, leaves a field that _raw_cast would trap on, or
\* sets an unnamed bit without an inverse, or clears one without either.
THEOREM ObjectsStayProper == Spec => []StaysProper
<1>1. IInv => StaysProper
  BY StaysProperIs DEF IInv
<1> QED
  BY SpecIInv, <1>1, PTL

-----------------------------------------------------------------------------
(* The refinement: what FieldRecord's variables stand for. *)

Shape == [f \in DOMAIN row.fields |-> DOMAIN Field(f)]
CallAs(c) ==
  [call |-> IF c.step \in {"called", "loop"}
            THEN [op |-> c.op, from |-> FieldsOf(c.from)]
            ELSE NoCall,
   replaced |-> IF c.step = "done" THEN FieldsOf(c.old) ELSE <<>>]
CallsAs == [th \in Threads |-> CallAs(calls[th])]

RecordVars == <<Shape, FieldsOf(word), word \ Named, CallOf(last), CallsAs>>

\* With the same type, the same words and calls stand for the same.
LEMMA SameRow ==
  type' = type =>
    /\ row' = row /\ Named' = Named /\ Shape' = Shape
    /\ FieldsOf(word)' = FieldsOf(word')
    /\ CallOf(last)' = CallOf(last')
    /\ \A th \in Threads : CallAs(calls[th])' = CallAs(calls'[th])
<1> SUFFICES ASSUME type' = type
             PROVE  /\ row' = row /\ Named' = Named /\ Shape' = Shape
                    /\ FieldsOf(word)' = FieldsOf(word')
                    /\ CallOf(last)' = CallOf(last')
                    /\ \A th \in Threads : CallAs(calls[th])' = CallAs(calls'[th])
  OBVIOUS
<1>1. row' = row
  BY DEF row
<1>2. Named' = Named /\ Shape' = Shape
  BY <1>1 DEF Named, Shape, Field
<1>3. FieldsOf(word)' = FieldsOf(word')
  BY <1>1 DEF FieldsOf, Field, get
<1>4. CallOf(last)' = CallOf(last')
  BY <1>1 DEF CallOf, FieldsOf, Field, get
<1>5. \A th \in Threads : CallAs(calls[th])' = CallAs(calls'[th])
  BY <1>1 DEF CallAs, FieldsOf, Field, get, NoCall
<1> QED
  BY <1>1, <1>2, <1>3, <1>4, <1>5

LEMMA CallsAsIs ==
  ASSUME type' = type
  PROVE  CallsAs' = [th \in Threads |-> CallAs(calls'[th])]
  BY SameRow DEF CallsAs

\* What each thread's call stands for.
LEMMA IdleAs == CallAs(Idle) = AsRecord!Idle
  BY DEF CallAs, Idle, AsRecord!Idle, AsRecord!NoCall, AsRecord!NoRecord, NoCall

LEMMA CalledAs ==
  ASSUME NEW op, NEW from
  PROVE  CallAs([step |-> "called", op |-> op, from |-> from]) =
           [call |-> [op |-> op, from |-> FieldsOf(from)], replaced |-> <<>>]
  BY DEF CallAs

LEMMA LoopAs ==
  ASSUME NEW op, NEW from, NEW old
  PROVE  CallAs([step |-> "loop", op |-> op, from |-> from, old |-> old]) =
           [call |-> [op |-> op, from |-> FieldsOf(from)], replaced |-> <<>>]
  BY DEF CallAs

LEMMA DoneAs ==
  ASSUME NEW old
  PROVE  CallAs([step |-> "done", old |-> old]) =
           [AsRecord!Idle EXCEPT !.replaced = FieldsOf(old)]
  BY DEF CallAs, AsRecord!Idle, AsRecord!NoCall, AsRecord!NoRecord, NoCall

LEMMA CallOfIs ==
  ASSUME NEW op, NEW f, NEW w
  PROVE  /\ CallOf(NoCall) = NoCall
         /\ CallOf([op |-> op]) = [op |-> op]
         /\ CallOf([op |-> op, from |-> w]) = [op |-> op, from |-> FieldsOf(w)]
         /\ CallOf([op |-> op, field |-> f, value |-> w]) =
              [op |-> op, field |-> f, value |-> w]
         /\ CallOf([op |-> op, field |-> f, from |-> w]) =
              [op |-> op, field |-> f, from |-> FieldsOf(w)]
  BY DEF CallOf, NoCall

\* What FieldRecord makes of each call.
LEMMA AfterIs ==
  ASSUME NEW old, NEW f, NEW w
  PROVE  /\ AsRecord!After([op |-> "set", field |-> f, value |-> w], old) =
              [old EXCEPT ![f] = w \cap Shape[f]]
         /\ AsRecord!After([op |-> "copy", field |-> f, from |-> w], old) =
              [old EXCEPT ![f] = w[f]]
         /\ AsRecord!After([op |-> "assign", from |-> w], old) = w
         /\ AsRecord!After([op |-> "clean"], old) = old
         /\ AsRecord!After([op |-> "inverse"], old) =
              [g \in DOMAIN Shape |-> Shape[g] \ old[g]]
         /\ \A op \in Ops :
              AsRecord!After([op |-> op, from |-> w], old) =
                AsRecord!Combine(op, old, w)
  BY DEF AsRecord!After, Shape, Ops

\* A set function on words combines their fields.
LEMMA EffectCombines ==
  ASSUME type \in DOMAIN Types, NEW op \in Ops, NEW v, NEW w
  PROVE  FieldsOf(Effect(op, v, w)) =
           AsRecord!Combine(op, FieldsOf(v), FieldsOf(w))
<1>1. ASSUME NEW f \in DOMAIN row.fields
      PROVE  get(f, Effect(op, v, w)) =
               CASE op = "union" -> FieldsOf(v)[f] \cup FieldsOf(w)[f]
                 [] op = "intersection" -> FieldsOf(v)[f] \cap FieldsOf(w)[f]
                 [] op = "difference" -> FieldsOf(v)[f] \ FieldsOf(w)[f]
  <2>1. FieldsOf(v)[f] = get(f, v) /\ FieldsOf(w)[f] = get(f, w)
    BY DEF FieldsOf
  <2>2. CASE op = "union"
    <3>1. \A i : i \in Effect(op, v, w) <=> i \in v \/ i \in w
      BY <2>2 DEF Effect
    <3>2. get(f, Effect(op, v, w)) = get(f, v) \cup get(f, w)
      BY <3>1 DEF get
    <3> QED
      BY <2>1, <2>2, <3>1, <3>2
  <2>3. CASE op = "intersection"
    <3>1. \A i : i \in Effect(op, v, w) <=> i \in v /\ i \in w
      BY <2>3 DEF Effect
    <3>2. get(f, Effect(op, v, w)) = get(f, v) \cap get(f, w)
      BY <3>1 DEF get
    <3> QED
      BY <2>1, <2>3, <3>1, <3>2
  <2>4. CASE op = "difference"
    <3>1. \A i : i \in Effect(op, v, w) <=> i \in v /\ i \notin w
      BY <2>4 DEF Effect
    <3>2. get(f, Effect(op, v, w)) = get(f, v) \ get(f, w)
      BY <3>1 DEF get
    <3> QED
      BY <2>1, <2>4, <3>1, <3>2
  <2> QED
    BY <2>2, <2>3, <2>4 DEF Ops
<1>2. DOMAIN Shape = DOMAIN row.fields
  BY DEF Shape
<1> DEFINE mix(f) == CASE op = "union" -> FieldsOf(v)[f] \cup FieldsOf(w)[f]
                       [] op = "intersection" -> FieldsOf(v)[f] \cap FieldsOf(w)[f]
                       [] op = "difference" -> FieldsOf(v)[f] \ FieldsOf(w)[f]
<1>3. AsRecord!Combine(op, FieldsOf(v), FieldsOf(w)) = [f \in DOMAIN Shape |-> mix(f)]
  BY DEF AsRecord!Combine, Shape
<1>4. \A f \in DOMAIN row.fields : get(f, Effect(op, v, w)) = mix(f)
  BY <1>1
<1> HIDE DEF mix
<1> QED
  BY <1>2, <1>3, <1>4 DEF FieldsOf

-----------------------------------------------------------------------------
(* Each step is one of FieldRecord's, or changes nothing of the record. *)

LEMMA AloneMaps ==
  ASSUME IInv, Alone, NEW c, CallOf(last') = c, c # NoCall,
         FieldsOf(word') = AsRecord!After(c, FieldsOf(word)),
         c.op \in {"set", "copy"} => word' \ Named = word \ Named
  PROVE  AsRecord!Alone
<1>1. type' = type /\ calls' = calls
  BY DEF Alone
<1>2. /\ Shape' = Shape /\ Named' = Named
      /\ FieldsOf(word)' = FieldsOf(word') /\ CallOf(last)' = c
  BY <1>1, SameRow
<1>3. CallsAs' = CallsAs
  BY <1>1, CallsAsIs DEF CallsAs
<1>4. \A th \in Threads : CallsAs[th] = AsRecord!Idle
  <2>1. \A th \in Threads : CallsAs[th] = CallAs(calls[th])
    BY DEF CallsAs
  <2>2. \A th \in Threads : calls[th] = Idle
    BY DEF Alone
  <2> QED
    BY <2>1, <2>2, IdleAs
<1>5. c # AsRecord!NoCall
  BY DEF NoCall, AsRecord!NoCall
<1>6. FieldsOf(word)' = AsRecord!After(CallOf(last)', FieldsOf(word))
  BY <1>2
<1>7. CallOf(last)'.op \in {"set", "copy"} => (word \ Named)' = word \ Named
  BY <1>2
<1>8. AsRecord!Alone <=>
        /\ \A th \in Threads : CallsAs[th] = AsRecord!Idle
        /\ CallOf(last)' # AsRecord!NoCall
        /\ FieldsOf(word)' = AsRecord!After(CallOf(last)', FieldsOf(word))
        /\ CallOf(last)'.op \in {"set", "copy"} => (word \ Named)' = word \ Named
        /\ UNCHANGED <<Shape, CallsAs>>
  BY DEF AsRecord!Alone, Shape, CallsAs, CallAs, Named
<1> QED
  BY <1>2, <1>3, <1>4, <1>5, <1>6, <1>7, <1>8

LEMMA set_field_Maps == IInv /\ set_field => AsRecord!Alone
<1> SUFFICES ASSUME IInv, set_field
             PROVE  AsRecord!Alone
  OBVIOUS
<1>1. PICK f \in DOMAIN row.fields \ row.readonly : \E val \in Values(f) :
        /\ word' = set(f, word, val)
        /\ last' = [op |-> "set", field |-> f, value |-> val]
  BY DEF set_field
<1>2. PICK val \in Values(f) :
        /\ word' = set(f, word, val)
        /\ last' = [op |-> "set", field |-> f, value |-> val]
  BY <1>1
<1>3. Alone /\ type \in DOMAIN Types /\ word \subseteq Positions
  BY DEF set_field, IInv, TypesInv
<1>8. word' = SetBits(Field(f), word, val)
  BY <1>2, <1>3, FunctionsAgree
<1> DEFINE c == [op |-> "set", field |-> f, value |-> val]
<1>4. CallOf(last') = c /\ c # NoCall
  BY <1>2, CallOfIs DEF NoCall
<1>5. word' \ Named = word \ Named
  <2>1. SetBits(Field(f), word, val) \ Named = word \ Named
    BY <1>3, SetFieldOnly
  <2> QED
    BY <1>8, <2>1
<1>6. FieldsOf(word') = [FieldsOf(word) EXCEPT ![f] = val \cap Shape[f]]
  <2>1. /\ get(f, word') = val \cap DOMAIN Field(f)
        /\ \A g \in DOMAIN row.fields \ {f} : get(g, word') = get(g, word)
    BY <1>8, <1>3, SetGet
  <2>2. Shape[f] = DOMAIN Field(f)
    BY DEF Shape
  <2> QED
    BY <2>1, <2>2 DEF FieldsOf
<1>7. AsRecord!After(c, FieldsOf(word)) = [FieldsOf(word) EXCEPT ![f] = val \cap Shape[f]]
  BY DEF AsRecord!After, Shape
<1> HIDE DEF c
<1> QED
  BY <1>3, <1>4, <1>5, <1>6, <1>7, AloneMaps

LEMMA copy_field_Maps == IInv /\ copy_field => AsRecord!Alone
<1> SUFFICES ASSUME IInv, copy_field
             PROVE  AsRecord!Alone
  OBVIOUS
<1>1. PICK f \in DOMAIN row.fields \ row.readonly, src \in Words :
        /\ word' = copy(f, word, src)
        /\ last' = [op |-> "copy", field |-> f, from |-> src]
  BY DEF copy_field
<1>2. Alone /\ type \in DOMAIN Types /\ word \subseteq Positions
  BY DEF copy_field, IInv, TypesInv
<1>7. word' = CopyBits(Field(f), word, src)
  BY <1>1, <1>2, FunctionsAgree
<1> DEFINE c == [op |-> "copy", field |-> f, from |-> FieldsOf(src)]
<1>3. CallOf(last') = c /\ c # NoCall
  BY <1>1, CallOfIs DEF NoCall
<1>4. word' \ Named = word \ Named
  BY <1>7, <1>2, CopyFieldOnly
<1>5. FieldsOf(word') = [FieldsOf(word) EXCEPT ![f] = FieldsOf(src)[f]]
  <2>1. /\ get(f, word') = get(f, src)
        /\ \A g \in DOMAIN row.fields \ {f} : get(g, word') = get(g, word)
    BY <1>7, <1>2, CopyGet
  <2> QED
    BY <2>1 DEF FieldsOf
<1>6. AsRecord!After(c, FieldsOf(word)) = [FieldsOf(word) EXCEPT ![f] = FieldsOf(src)[f]]
  BY DEF AsRecord!After
<1> HIDE DEF c
<1> QED
  BY <1>2, <1>3, <1>4, <1>5, <1>6, AloneMaps

LEMMA init_object_Maps == IInv /\ init_object => AsRecord!Alone
<1> SUFFICES ASSUME IInv, init_object
             PROVE  AsRecord!Alone
  OBVIOUS
<1>1. word' = row.default /\ last' = [op |-> "assign", from |-> row.default]
  BY DEF init_object
<1>2. Alone
  BY DEF init_object
<1> DEFINE c == [op |-> "assign", from |-> FieldsOf(row.default)]
<1>3. CallOf(last') = c /\ c # NoCall /\ c.op \notin {"set", "copy"}
  BY <1>1, CallOfIs DEF NoCall
<1>4. AsRecord!After(c, FieldsOf(word)) = FieldsOf(row.default)
  BY AfterIs
<1> HIDE DEF c
<1> QED
  BY <1>1, <1>2, <1>3, <1>4, AloneMaps

LEMMA cast_Maps == IInv /\ cast => AsRecord!Alone
<1> SUFFICES ASSUME IInv, cast
             PROVE  AsRecord!Alone
  OBVIOUS
<1>1. PICK w \in Words : word' = w /\ last' = [op |-> "assign", from |-> w]
  BY DEF cast
<1>2. Alone
  BY DEF cast
<1> DEFINE c == [op |-> "assign", from |-> FieldsOf(w)]
<1>3. CallOf(last') = c /\ c # NoCall /\ c.op \notin {"set", "copy"}
  BY <1>1, CallOfIs DEF NoCall
<1>4. AsRecord!After(c, FieldsOf(word)) = FieldsOf(w)
  BY AfterIs
<1> HIDE DEF c
<1> QED
  BY <1>1, <1>2, <1>3, <1>4, AloneMaps

LEMMA clean_object_Maps == IInv /\ clean_object => AsRecord!Alone
<1> SUFFICES ASSUME IInv, clean_object
             PROVE  AsRecord!Alone
  OBVIOUS
<1>1. Alone /\ word' = clean(word) /\ last' = [op |-> "clean"]
  BY DEF clean_object
<1>2. FieldsOf(word') = FieldsOf(word)
  BY <1>1, CleanFacts DEF IInv, TypesInv
<1> DEFINE c == [op |-> "clean"]
<1>3. CallOf(last') = c /\ c # NoCall /\ c.op \notin {"set", "copy"}
  BY <1>1, CallOfIs DEF NoCall
<1>4. AsRecord!After(c, FieldsOf(word)) = FieldsOf(word)
  BY AfterIs
<1> HIDE DEF c
<1> QED
  BY <1>1, <1>2, <1>3, <1>4, AloneMaps

LEMMA set_functions_Maps == IInv /\ set_functions => AsRecord!Alone
<1> SUFFICES ASSUME IInv, set_functions
             PROVE  AsRecord!Alone
  OBVIOUS
<1>1. Alone
  BY SetFunctionsAre
<1>2. PICK op \in Ops, w \in Words :
        word' = Effect(op, word, w) /\ last' = [op |-> op, from |-> w]
  BY SetFunctionsAre
<1> DEFINE c == [op |-> op, from |-> FieldsOf(w)]
<1>3. CallOf(last') = c /\ c # NoCall /\ c.op \notin {"set", "copy"}
  BY <1>2, CallOfIs DEF NoCall, Ops
<1>4. FieldsOf(word') = AsRecord!Combine(op, FieldsOf(word), FieldsOf(w))
  BY <1>2, EffectCombines DEF IInv, TypesInv
<1>5. AsRecord!After(c, FieldsOf(word)) =
        AsRecord!Combine(op, FieldsOf(word), FieldsOf(w))
  BY DEF AsRecord!After, Ops
<1> HIDE DEF c
<1> QED
  BY <1>1, <1>3, <1>4, <1>5, AloneMaps

LEMMA invert_Maps == IInv /\ invert => AsRecord!Alone
<1> SUFFICES ASSUME IInv, invert
             PROVE  AsRecord!Alone
  OBVIOUS
<1>1. Alone /\ word' = inverse(word) /\ last' = [op |-> "inverse"]
  BY DEF invert
<1> DEFINE c == [op |-> "inverse"]
<1>2. CallOf(last') = c /\ c # NoCall /\ c.op \notin {"set", "copy"}
  BY <1>1, CallOfIs DEF NoCall
<1>3. AsRecord!After(c, FieldsOf(word)) =
        [f \in DOMAIN Shape |-> Shape[f] \ FieldsOf(word)[f]]
  BY AfterIs
<1>4. FieldsOf(word') = [f \in DOMAIN Shape |-> Shape[f] \ FieldsOf(word)[f]]
  <2>1. DOMAIN Shape = DOMAIN row.fields
        /\ \A f \in DOMAIN row.fields : Shape[f] = DOMAIN Field(f)
    BY DEF Shape
  <2>2. \A f \in DOMAIN row.fields : FieldsOf(word)[f] = get(f, word)
    BY DEF FieldsOf
  <2>3. \A f \in DOMAIN row.fields :
          get(f, word') = DOMAIN Field(f) \ get(f, word)
    BY <1>1, InverseGet DEF IInv, TypesInv
  <2>4. \A f \in DOMAIN row.fields : get(f, word') = Shape[f] \ FieldsOf(word)[f]
    BY <2>1, <2>2, <2>3
  <2> QED
    BY <2>1, <2>4 DEF FieldsOf
<1> HIDE DEF c
<1> QED
  BY <1>1, <1>2, <1>3, <1>4, AloneMaps

\* A step of an atomic call changes what its thread's call stands for.
LEMMA CallsAsExcept ==
  ASSUME IInv, NEW th \in Threads, NEW c, calls' = [calls EXCEPT ![th] = c],
         type' = type
  PROVE  CallsAs' = [CallsAs EXCEPT ![th] = CallAs(c)]
<1>1. DOMAIN calls = Threads
  BY DEF IInv, TypesInv
<1>2. CallsAs' = [t \in Threads |-> CallAs(calls'[t])]
  BY CallsAsIs
<1>3. \A t \in Threads : calls'[t] = IF t = th THEN c ELSE calls[t]
  BY <1>1
<1>4. \A t \in Threads : CallAs(calls'[t]) = IF t = th THEN CallAs(c) ELSE CallAs(calls[t])
  BY <1>3
<1>5. CallsAs = [t \in Threads |-> CallAs(calls[t])]
  BY DEF CallsAs
<1> HIDE DEF CallsAs, CallAs
<1> QED
  BY <1>2, <1>4, <1>5

LEMMA CallsAsAt ==
  ASSUME NEW th \in Threads
  PROVE  CallsAs[th] = CallAs(calls[th])
  BY DEF CallsAs

\* What a thread has called stands for the call, and until it takes effect for
\* nothing else.
LEMMA StandsFor ==
  ASSUME IInv, NEW th \in Threads, calls[th].step \in {"called", "loop"}
  PROVE  CallAs(calls[th]) =
           [call |-> [op |-> calls[th].op, from |-> FieldsOf(calls[th].from)],
            replaced |-> <<>>]
<1>1. CASE calls[th].step = "called"
  <2>1. calls[th] = [step |-> "called", op |-> calls[th].op, from |-> calls[th].from]
    BY <1>1, InACall
  <2> QED
    BY <1>1 DEF CallAs
<1>2. CASE calls[th].step = "loop"
  BY <1>2 DEF CallAs
<1> QED
  BY <1>1, <1>2

LEMMA atomic_call_Maps ==
  ASSUME IInv, NEW th \in Threads, atomic_call(th)
  PROVE  AsRecord!Call(th)
<1>1. PICK op \in Ops, w \in Words :
        calls' = [calls EXCEPT ![th] = [step |-> "called", op |-> op, from |-> w]]
  BY DEF atomic_call, Ops
<1>2. calls[th] = Idle /\ UNCHANGED <<type, word>> /\ last' = NoCall
  BY DEF atomic_call
<1> DEFINE c == [op |-> op, from |-> FieldsOf(w)]
<1>3. CallAs([step |-> "called", op |-> op, from |-> w]) =
        [call |-> c, replaced |-> <<>>]
  BY CalledAs
<1>4. c # AsRecord!NoCall
  BY DEF AsRecord!NoCall, Ops
<1>5. [AsRecord!Idle EXCEPT !.call = c] = [call |-> c, replaced |-> <<>>]
  BY DEF AsRecord!Idle, AsRecord!NoRecord
<1> HIDE DEF c
<1>6. CallsAs' = [CallsAs EXCEPT ![th] = [call |-> c, replaced |-> <<>>]]
  BY <1>1, <1>2, <1>3, CallsAsExcept
<1>7. DOMAIN CallsAs = Threads
  BY DEF CallsAs
<1>8. CallsAs'[th] = [call |-> c, replaced |-> <<>>]
  BY <1>6, <1>7
<1>9. CallsAs'[th].call = c
  BY <1>8
<1>10. CallsAs[th] = AsRecord!Idle
  BY <1>2, CallsAsAt, IdleAs
<1>11. /\ Shape' = Shape /\ FieldsOf(word)' = FieldsOf(word)
       /\ (word \ Named)' = word \ Named /\ CallOf(last)' = AsRecord!NoCall
  BY <1>2, SameRow, CallOfIs DEF AsRecord!NoCall, NoCall
<1>12. CallsAs' = [CallsAs EXCEPT ![th] = [AsRecord!Idle EXCEPT !.call = CallsAs'[th].call]]
  BY <1>5, <1>6, <1>9
<1>13. AsRecord!Call(th) <=>
         /\ CallsAs[th] = AsRecord!Idle
         /\ CallsAs'[th].call # AsRecord!NoCall
         /\ CallsAs' = [CallsAs EXCEPT ![th] = [AsRecord!Idle EXCEPT !.call = CallsAs'[th].call]]
         /\ CallOf(last)' = AsRecord!NoCall
         /\ UNCHANGED <<Shape, FieldsOf(word), word \ Named>>
  BY DEF AsRecord!Call, Shape, CallsAs, CallAs, Named
<1> QED
  BY <1>4, <1>9, <1>10, <1>11, <1>12, <1>13

LEMMA TakeEffectMaps ==
  ASSUME IInv, NEW th \in Threads, calls[th].step \in {"called", "loop"},
         word' = Effect(calls[th].op, word, calls[th].from),
         calls' = [calls EXCEPT ![th] = [step |-> "done", old |-> word]],
         UNCHANGED <<type, last>>
  PROVE  AsRecord!TakeEffect(th)
<1> DEFINE op == calls[th].op
           from == FieldsOf(calls[th].from)
<1>1. op \in Ops /\ type \in DOMAIN Types
  BY InACall DEF IInv, TypesInv
<1>2. CallsAs[th] = [call |-> [op |-> op, from |-> from], replaced |-> <<>>]
  BY StandsFor, CallsAsAt
<1>3. FieldsOf(word') = AsRecord!Combine(op, FieldsOf(word), from)
  BY <1>1, EffectCombines
<1>4. CallsAs' = [CallsAs EXCEPT ![th] = CallAs([step |-> "done", old |-> word])]
  BY CallsAsExcept
<1>5. CallsAs' = [CallsAs EXCEPT ![th] = [AsRecord!Idle EXCEPT !.replaced = FieldsOf(word)]]
  BY <1>4, DoneAs
<1>6. /\ Shape' = Shape /\ CallOf(last)' = CallOf(last)
      /\ FieldsOf(word)' = FieldsOf(word')
  BY SameRow
<1> HIDE DEF op, from
<1>7. CallsAs[th].call = [op |-> op, from |-> from]
  BY <1>2
<1>8. CallsAs[th].call # AsRecord!NoCall
  BY <1>1, <1>7 DEF AsRecord!NoCall, Ops
<1>9. CallsAs[th].call.op = op /\ CallsAs[th].call.from = from
  BY <1>7
<1>10. FieldsOf(word)' =
         AsRecord!Combine(CallsAs[th].call.op, FieldsOf(word), CallsAs[th].call.from)
  BY <1>3, <1>6, <1>9
<1>11. AsRecord!TakeEffect(th) <=>
         /\ CallsAs[th].call # AsRecord!NoCall
         /\ FieldsOf(word)' =
              AsRecord!Combine(CallsAs[th].call.op, FieldsOf(word), CallsAs[th].call.from)
         /\ CallsAs' = [CallsAs EXCEPT ![th] =
                          [AsRecord!Idle EXCEPT !.replaced = FieldsOf(word)]]
         /\ UNCHANGED <<Shape, CallOf(last)>>
  BY DEF AsRecord!TakeEffect, Shape, CallsAs, CallAs
<1> QED
  BY <1>5, <1>6, <1>8, <1>10, <1>11

LEMMA return_Maps ==
  ASSUME IInv, NEW th \in Threads, return(th)
  PROVE  AsRecord!Return(th)
<1>1. /\ calls[th].step = "done" /\ calls' = [calls EXCEPT ![th] = Idle]
      /\ UNCHANGED <<type, word, last>>
  BY DEF return
<1>2. CallsAs[th].replaced = FieldsOf(calls[th].old)
  <2>1. CallAs(calls[th]).replaced = FieldsOf(calls[th].old)
    BY <1>1 DEF CallAs
  <2> QED
    BY <2>1, CallsAsAt
<1>3. FieldsOf(calls[th].old) # AsRecord!NoRecord
  <2>1. \E f : f \in DOMAIN row.fields
    BY RowFacts DEF IInv, TypesInv
  <2>2. DOMAIN FieldsOf(calls[th].old) = DOMAIN row.fields
    BY DEF FieldsOf
  <2>3. DOMAIN AsRecord!NoRecord = {}
    BY DEF AsRecord!NoRecord
  <2> QED
    BY <2>1, <2>2, <2>3
<1>4. CallsAs' = [CallsAs EXCEPT ![th] = AsRecord!Idle]
  <2>1. CallsAs' = [CallsAs EXCEPT ![th] = CallAs(Idle)]
    BY <1>1, CallsAsExcept
  <2> QED
    BY <2>1, IdleAs
<1>5. /\ Shape' = Shape /\ FieldsOf(word)' = FieldsOf(word)
      /\ (word \ Named)' = word \ Named /\ CallOf(last)' = CallOf(last)
  BY <1>1, SameRow
<1>6. AsRecord!Return(th) <=>
        /\ CallsAs[th].replaced # AsRecord!NoRecord
        /\ CallsAs' = [CallsAs EXCEPT ![th] = AsRecord!Idle]
        /\ UNCHANGED <<Shape, FieldsOf(word), word \ Named, CallOf(last)>>
  BY DEF AsRecord!Return, Shape, CallsAs, CallAs, Named
<1> QED
  BY <1>2, <1>3, <1>4, <1>5, <1>6

\* Taking the value to compare with, at first or again, is no step of the record.
LEMMA LoopMaps ==
  ASSUME IInv, NEW th \in Threads, calls[th].step \in {"called", "loop"},
         calls' = [calls EXCEPT ![th] =
                     [step |-> "loop", op |-> calls[th].op,
                      from |-> calls[th].from, old |-> word]],
         UNCHANGED <<type, word, last>>
  PROVE  UNCHANGED RecordVars
<1> DEFINE c == [step |-> "loop", op |-> calls[th].op,
                 from |-> calls[th].from, old |-> word]
<1>1. CallAs(c) = CallsAs[th]
  BY StandsFor, LoopAs, CallsAsAt
<1>2. CallsAs' = [CallsAs EXCEPT ![th] = CallAs(c)]
  BY CallsAsExcept
<1>3. DOMAIN CallsAs = Threads /\ CallsAs = [t \in Threads |-> CallsAs[t]]
  BY DEF CallsAs
<1> HIDE DEF c
<1>4. CallsAs' = CallsAs
  BY <1>1, <1>2, <1>3
<1>5. /\ Shape' = Shape /\ FieldsOf(word)' = FieldsOf(word)
      /\ (word \ Named)' = word \ Named /\ CallOf(last)' = CallOf(last)
  BY SameRow
<1> QED
  BY <1>4, <1>5 DEF RecordVars

LEMMA AtomicStepMaps ==
  ASSUME IInv, NEW th \in Threads, AtomicStep(th)
  PROVE  AsRecord!TakeEffect(th) \/ AsRecord!Return(th) \/ UNCHANGED RecordVars
<1>1. CASE ldset_ldclr(th)
  BY <1>1, ldset_ldclr_Is, TakeEffectMaps
<1>2. CASE compare_exchange(th)
  BY <1>2, compare_exchange_Is, TakeEffectMaps
<1>3. CASE load(th)
  BY <1>3, load_Is, LoopMaps
<1>4. CASE compare_exchange_fails(th)
  BY <1>4, compare_exchange_fails_Is, LoopMaps
<1>5. CASE return(th)
  BY <1>5, return_Maps
<1> QED
  BY <1>1, <1>2, <1>3, <1>4, <1>5 DEF AtomicStep

LEMMA StutterMaps == UNCHANGED vars => UNCHANGED RecordVars
<1> SUFFICES ASSUME UNCHANGED vars
             PROVE  UNCHANGED RecordVars
  OBVIOUS
<1>1. UNCHANGED <<type, word, last, calls>>
  BY DEF vars
<1>2. /\ Shape' = Shape /\ FieldsOf(word)' = FieldsOf(word)
      /\ (word \ Named)' = word \ Named /\ CallOf(last)' = CallOf(last)
  BY <1>1, SameRow
<1>3. CallsAs' = CallsAs
  BY <1>1, CallsAsIs DEF CallsAs
<1> QED
  BY <1>2, <1>3 DEF RecordVars

LEMMA NextMaps == IInv /\ [Next]_vars => [AsRecord!Next]_RecordVars
<1>1. IInv /\ (set_field \/ copy_field \/ init_object \/ cast) => AsRecord!Alone
  BY set_field_Maps, copy_field_Maps, init_object_Maps, cast_Maps
<1>2. IInv /\ (clean_object \/ set_functions \/ invert) => AsRecord!Alone
  BY clean_object_Maps, set_functions_Maps, invert_Maps
<1>3. ASSUME IInv, NEW th \in Threads, atomic_call(th) \/ AtomicStep(th)
      PROVE  \/ \E t \in Threads :
                  AsRecord!Call(t) \/ AsRecord!TakeEffect(t) \/ AsRecord!Return(t)
             \/ UNCHANGED RecordVars
  BY <1>3, atomic_call_Maps, AtomicStepMaps
<1> QED
  BY <1>1, <1>2, <1>3, StutterMaps DEF Next, AsRecord!Next

LEMMA InitMaps == Init => AsRecord!Init
<1> SUFFICES ASSUME Init
             PROVE  AsRecord!Init
  OBVIOUS
<1>1. last = NoCall /\ calls = [th \in Threads |-> Idle]
  BY DEF Init
<1>2. DOMAIN FieldsOf(word) = DOMAIN Shape
  BY DEF FieldsOf, Shape
<1>3. \A f \in DOMAIN Shape : FieldsOf(word)[f] \subseteq Shape[f]
  BY DEF FieldsOf, Shape, get
<1>4. CallOf(last) = AsRecord!NoCall
  BY <1>1, CallOfIs DEF AsRecord!NoCall, NoCall
<1>5. CallsAs = [th \in Threads |-> AsRecord!Idle]
  <2>1. \A th \in Threads : CallAs(calls[th]) = AsRecord!Idle
    BY <1>1, IdleAs
  <2> QED
    BY <2>1 DEF CallsAs
<1>6. AsRecord!Init <=>
        /\ DOMAIN FieldsOf(word) = DOMAIN Shape
        /\ \A f \in DOMAIN Shape : FieldsOf(word)[f] \subseteq Shape[f]
        /\ CallOf(last) = AsRecord!NoCall
        /\ CallsAs = [th \in Threads |-> AsRecord!Idle]
  BY DEF AsRecord!Init, Shape, CallsAs, CallAs
<1> QED
  BY <1>2, <1>3, <1>4, <1>5, <1>6

\* The accessors of every well-formed type, and the atomic functions of every
\* set of threads, with the atomic instructions or with the loop on the weak
\* compare-and-swap, implement a record of independent fields.
THEOREM AccessorsImplementRecord == Spec => ImplementsRecord
<1>1. [AsRecord!Next]_RecordVars =>
        [AsRecord!Next]_<<[f \in DOMAIN row.fields |-> DOMAIN Field(f)],
                          FieldsOf(word),
                          word \ UNION {Range(Field(f)) : f \in DOMAIN row.fields},
                          CallOf(last),
                          [th \in Threads |->
                             [call |-> IF calls[th].step \in {"called", "loop"}
                                       THEN [op |-> calls[th].op,
                                             from |-> FieldsOf(calls[th].from)]
                                       ELSE NoCall,
                              replaced |-> IF calls[th].step = "done"
                                           THEN FieldsOf(calls[th].old)
                                           ELSE <<>>]]>>
  BY DEF RecordVars, Shape, Named, CallsAs, CallAs
<1> QED
  BY <1>1, InitMaps, NextMaps, SpecIInv, PTL DEF Spec, ImplementsRecord, AsRecord!Spec
=============================================================================
