------------------------------- MODULE BitField -------------------------------
(***************************************************************************)
(* The accessors of src/src/guest_accessors.c at work on an object of one   *)
(* of the bit-field types: the functions of the type on an object that      *)
(* nobody else uses, and the atomic functions of threads that share it.     *)
(*                                                                         *)
(* The accessors of all types are made from one pattern: the definitions    *)
(* are mapped to the functions of one type, the rows of GuestTypes to those *)
(* of every type. Memory order is left out: the object is one location,     *)
(* whose values are in one order whichever order a call asks for.           *)
(***************************************************************************)
EXTENDS Integers, Functions

CONSTANTS
  Types,    \* the types by name, as in the TypeTable of GuestTypes
  Threads,  \* that share the object
  MaxCalls  \* bound: calls

\* An enumerator's bits.
Bin(n) == {i \in 0 .. 15 : (n \div 2^i) % 2 = 1}

\* A row is well formed if its fields are of different bits of the word, which
\* the functions of a field and the masks of the other functions agree on, and
\* what _init stores is proper (IsProper).
WellFormed(r) ==
  /\ DOMAIN r.fields # {}
  /\ \A f \in DOMAIN r.fields :
       /\ Range(r.fields[f]) \subseteq 0 .. (r.width - 1)
       /\ IsInjective(r.fields[f])
       /\ \A g \in DOMAIN r.fields \ {f} :
            Range(r.fields[f]) \cap Range(r.fields[g]) = {}
       /\ r.set[f] = r.fields[f]
       /\ r.cleared[f] = Range(r.fields[f]) /\ r.copied[f] = Range(r.fields[f])
  /\ r.named = UNION {Range(r.fields[f]) : f \in DOMAIN r.fields}
  /\ r.unnamed = 0 .. (r.width - 1) \ r.named
  /\ r.expected \subseteq r.unnamed /\ r.default \subseteq 0 .. (r.width - 1)
  /\ r.default \cap r.unnamed = r.expected
  /\ \A f \in DOMAIN r.enums :
       /\ f \in DOMAIN r.fields
       /\ \A n \in r.enums[f] : Bin(n) \subseteq DOMAIN r.fields[f]
       /\ \E n \in r.enums[f] :
            {i \in DOMAIN r.fields[f] : r.fields[f][i] \in r.default} = Bin(n)
  /\ r.flags => DOMAIN r.enums = {}

ASSUME TypesAssumption == \A t \in DOMAIN Types : WellFormed(Types[t])

VARIABLES
  type,  \* the name of the object's type
  lse,   \* whether the build has ldset and ldclr (__ARM_FEATURE_ATOMICS)
  word,  \* the object
  last,  \* the last call on an object no other thread uses
  calls, \* by thread, the atomic call in progress
  left,  \* calls still to be made
  made,  \* history: the object comes from calls given valid values only
  used   \* history: which of difference and inverse it has been through since

vars == <<type, lse, word, last, calls, left, made, used>>

row == Types[type]
Positions == 0 .. (row.width - 1)
Field(f) == row.fields[f]

-----------------------------------------------------------------------------
(* The functions on an object no other thread uses. *)

\* Each function of a field has shifts and masks of its own.
get(f, w) == LET field == Field(f) IN {i \in DOMAIN field : field[i] \in w}

\* Mutant: the mask of the setter takes a bit of a neighbour with it.
set_Neighbour(f, w, val) ==
  (w \ (row.cleared[f] \cup {i + 1 : i \in row.cleared[f]}))
    \cup {row.set[f][i] : i \in val \cap DOMAIN row.set[f]}

\* The value is cut to the field's width.
set(f, w, val) ==
  (w \ row.cleared[f]) \cup {row.set[f][i] : i \in val \cap DOMAIN row.set[f]}

copy(f, dst, src) == (dst \ row.copied[f]) \cup (src \cap row.copied[f])

\* Mutant: the unnamed bits are cleared.
clean_Zero(w) == w \cap row.named

clean(w) == row.expected \cup (w \cap row.named)

is_clean(w) == w \cap row.unnamed = row.expected

\* Mutant: the whole words are compared.
is_equal_WholeWord(w1, w2) == w1 = w2

is_equal(w1, w2) == w1 \cap row.named = w2 \cap row.named

is_empty(w) == w \cap row.named = {}

\* The set functions act on the whole word, whichever of its bits have a name.
inverse(w) == Positions \ w
difference(w1, w2) == w1 \cap inverse(w2)

\* The check a value has to pass before it is cast.
raw_is_valid(f, val) == \E n \in row.enums[f] : val = Bin(n)

\* An object as its users should have it: its unnamed bits as expected, and
\* enumerators in the fields for them.
IsProper(w) ==
  /\ is_clean(w)
  /\ \A f \in DOMAIN row.enums : raw_is_valid(f, get(f, w))

-----------------------------------------------------------------------------
(* What the calls are given. *)

\* Other objects: empty, full, as initialised, with all that has a name.
Words == {{}, Positions, row.default, row.expected \cup row.named}

\* Values for a field, of the field's width and wider.
Values(f) ==
  IF f \in DOMAIN row.enums
  THEN {Bin(n) : n \in row.enums[f]} \cup {Positions}
  ELSE IF DOMAIN Field(f) = {0} THEN {{}, {0}}
  ELSE {{}, {0}, DOMAIN Field(f), Positions}

NoCall == [op |-> "none"]
Idle == [step |-> "idle"]

\* The object is initialised, or cast from a word from elsewhere.
Init ==
  /\ type \in DOMAIN Types
  /\ lse \in BOOLEAN
  /\ word \in Words
  /\ last = NoCall
  /\ calls = [th \in Threads |-> Idle]
  /\ left = MaxCalls
  /\ made = (word = row.default \/ IsProper(word))
  /\ used = {}

-----------------------------------------------------------------------------
(* Calls while no atomic call is in progress: with one, they would be a data *)
(* race of the application's.                                                *)

Alone ==
  /\ left > 0
  /\ \A th \in Threads : calls[th] = Idle
  /\ left' = left - 1
  /\ UNCHANGED <<type, lse, calls>>

set_field ==
  /\ Alone
  /\ \E f \in DOMAIN row.fields \ row.readonly : \E val \in Values(f) :
       /\ word' = set(f, word, val)
       /\ last' = [op |-> "set", field |-> f, value |-> val]
       /\ made' = (made /\ (f \in DOMAIN row.enums => raw_is_valid(f, val)))
  /\ UNCHANGED used

copy_field ==
  /\ Alone
  /\ \E f \in DOMAIN row.fields \ row.readonly : \E src \in Words :
       /\ word' = copy(f, word, src)
       /\ last' = [op |-> "copy", field |-> f, from |-> src]
       /\ made' = (made /\ IsProper(src))
  /\ UNCHANGED used

\* What _init stores is valid, whatever it is.
init_object ==
  /\ Alone
  /\ word' = row.default
  /\ last' = [op |-> "assign", from |-> row.default]
  /\ made' = TRUE /\ used' = {}

\* _cast of a word from elsewhere, which may be any.
cast ==
  /\ Alone
  /\ \E w \in Words :
       /\ word' = w
       /\ last' = [op |-> "assign", from |-> w]
       /\ made' = IsProper(w)
  /\ used' = {}

clean_object ==
  /\ Alone
  /\ word' = clean(word)
  /\ last' = [op |-> "clean"]
  /\ used' = {}
  /\ UNCHANGED made

set_functions ==
  /\ Alone /\ row.flags
  /\ \E w \in Words :
       /\ \/ /\ word' = word \cup w
             /\ last' = [op |-> "union", from |-> w]
             /\ UNCHANGED used
          \/ /\ word' = word \cap w
             /\ last' = [op |-> "intersection", from |-> w]
             /\ UNCHANGED used
          \/ /\ word' = difference(word, w)
             /\ last' = [op |-> "difference", from |-> w]
             /\ used' = used \cup {"difference"}
       /\ made' = (made /\ IsProper(w))

invert ==
  /\ Alone /\ row.flags
  /\ word' = inverse(word)
  /\ last' = [op |-> "inverse"]
  /\ used' = used \cup {"inverse"}
  /\ UNCHANGED made

-----------------------------------------------------------------------------
(* Atomic calls on the shared object. *)

atomic_call(th) ==
  /\ left > 0 /\ row.flags /\ calls[th] = Idle
  /\ \E op \in {"union", "intersection", "difference"}, w \in Words :
       calls' = [calls EXCEPT ![th] = [step |-> "called", op |-> op, from |-> w]]
  /\ last' = NoCall
  /\ left' = left - 1
  /\ UNCHANGED <<type, lse, word, made, used>>

\* What a call that takes effect leaves of the histories.
Remember(c) ==
  /\ made' = (made /\ IsProper(c.from))
  /\ used' = used \cup ({c.op} \cap {"difference"})

\* The new value of the loop: the difference is an intersection with the inverse.
NewValue(c, old) ==
  CASE c.op = "union" -> old \cup c.from
    [] c.op = "intersection" -> old \cap c.from
    [] c.op = "difference" -> old \cap inverse(c.from)

\* One ldset or ldclr: the intersection is a difference with the inverse.
ldset_ldclr(th) ==
  /\ lse /\ calls[th].step = "called"
  /\ word' = (CASE calls[th].op = "union" -> word \cup calls[th].from
                [] calls[th].op = "intersection" -> word \ inverse(calls[th].from)
                [] calls[th].op = "difference" -> word \ calls[th].from)
  /\ calls' = [calls EXCEPT ![th] = [step |-> "done", old |-> word]]
  /\ Remember(calls[th])
  /\ UNCHANGED <<type, lse, last, left>>

load(th) ==
  /\ ~lse /\ calls[th].step = "called"
  /\ calls' = [calls EXCEPT ![th] = [step |-> "loop", op |-> @.op,
                                    from |-> @.from, old |-> word]]
  /\ UNCHANGED <<type, lse, word, last, left, made, used>>

\* Mutant: the new value is stored whatever the object has become.
compare_exchange_Store(th) ==
  /\ calls[th].step = "loop"
  /\ word' = NewValue(calls[th], calls[th].old)
  /\ calls' = [calls EXCEPT ![th] = [step |-> "done", old |-> @.old]]
  /\ Remember(calls[th])
  /\ UNCHANGED <<type, lse, last, left>>

compare_exchange(th) ==
  /\ calls[th].step = "loop" /\ word = calls[th].old
  /\ word' = NewValue(calls[th], calls[th].old)
  /\ calls' = [calls EXCEPT ![th] = [step |-> "done", old |-> @.old]]
  /\ Remember(calls[th])
  /\ UNCHANGED <<type, lse, last, left>>

\* Mutant: the value the comparison found is not the next one compared with.
compare_exchange_fails_Stale(th) == calls[th].step = "loop" /\ UNCHANGED vars

\* It fails if the object has changed, and may fail if it has not: it is weak.
compare_exchange_fails(th) ==
  /\ calls[th].step = "loop"
  /\ calls' = [calls EXCEPT ![th].old = word]
  /\ UNCHANGED <<type, lse, word, last, left, made, used>>

return(th) ==
  /\ calls[th].step = "done"
  /\ calls' = [calls EXCEPT ![th] = Idle]
  /\ UNCHANGED <<type, lse, word, last, left, made, used>>

\* The steps of a thread in a call; a failure that changes nothing is no step.
AtomicStep(th) ==
  \/ ldset_ldclr(th) \/ load(th) \/ compare_exchange(th)
  \/ compare_exchange_fails(th) \/ return(th)

Next ==
  \/ set_field \/ copy_field \/ init_object \/ cast \/ clean_object
  \/ set_functions \/ invert
  \/ \E th \in Threads : atomic_call(th) \/ AtomicStep(th)

Spec == Init /\ [][Next]_vars

\* Every thread runs, and a comparison that may succeed does not fail for ever.
FairSpec == Spec /\ \A th \in Threads : WF_vars(AtomicStep(th))

-----------------------------------------------------------------------------
(* Properties. *)

\* The fields of a word, and a call's other object as its fields.
FieldsOf(w) == [f \in DOMAIN row.fields |-> get(f, w)]
CallOf(c) ==
  IF "from" \in DOMAIN c THEN [c EXCEPT !.from = FieldsOf(@)] ELSE c

AsRecord == INSTANCE FieldRecord WITH
  shape  <- [f \in DOMAIN row.fields |-> DOMAIN Field(f)],
  fields <- FieldsOf(word),
  rest   <- word \ UNION {Range(Field(f)) : f \in DOMAIN row.fields},
  last   <- CallOf(last),
  calls  <- [th \in Threads |->
    [call |-> IF calls[th].step \in {"called", "loop"}
              THEN [op |-> calls[th].op, from |-> FieldsOf(calls[th].from)]
              ELSE NoCall,
     replaced |-> IF calls[th].step = "done" THEN FieldsOf(calls[th].old)
                  ELSE <<>>]]

\* Every type's accessors make its word a record of independent fields: a value
\* too wide, a neighbour, a copy or a set function reaches no other field. And
\* the atomic functions, with ldset and ldclr or with the loop on a weak
\* compare-and-swap, take effect once, between call and return, on the value
\* they return: no thread's change is lost.
ImplementsRecord == AsRecord!Spec

\* The functions of the whole word agree with those of the fields: cleaning
\* changes no field and leaves the unnamed bits as _is_clean wants them; objects
\* are equal if their fields are; one is empty if its fields are all 0.
WordAgreesWithFields ==
  /\ is_clean(clean(word)) /\ (is_clean(word) <=> clean(word) = word)
  /\ FieldsOf(clean(word)) = FieldsOf(word)
  /\ \A w \in Words : is_equal(word, w) <=> FieldsOf(word) = FieldsOf(w)
  /\ is_empty(word) <=> \A f \in DOMAIN row.fields : get(f, word) = {}

\* An object that was initialised, and since given enumerators and proper objects
\* only, has enumerators in its fields: no call cuts one to another or to none,
\* which _raw_cast would trap on. Nor does a call set an unnamed bit that should
\* be clear, but for an inverse; and until a difference, either, all unnamed bits
\* are as the hypervisor wants them. That those two change unnamed bits is the
\* code's, and not what is documented (see below); _clean puts the bits right.
StaysProper ==
  made =>
    /\ \A f \in DOMAIN row.enums : raw_is_valid(f, get(f, word))
    /\ "inverse" \notin used => word \cap row.unnamed \subseteq row.expected
    /\ used = {} => is_clean(word)

\* An atomic function returns, whatever the other threads do to the object.
AtomicCallReturns ==
  \A th \in Threads : calls[th] # Idle ~> calls[th] = Idle

-----------------------------------------------------------------------------
(* What the comments of the set functions promise beyond that. *)

\* They are said to be of the boolean fields: "invert all boolean fields"
\* (guest_types.h:585), "set difference of boolean fields" (:589). An object that
\* is proper then stays so: the unnamed bits are left alone.
SetsAreOfFields ==
  made /\ used = {} =>
    /\ IsProper(inverse(word))
    /\ \A w \in Words : IsProper(w) => IsProper(difference(word, w))
=============================================================================
