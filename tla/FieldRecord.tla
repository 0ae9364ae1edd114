------------------------------ MODULE FieldRecord ------------------------------
(***************************************************************************)
(* What a bit field promises its users: a record of independent fields, of  *)
(* which the functions change the ones they name and no other; and          *)
(* functions on a shared record that take effect at one moment between      *)
(* their call and their return, and return the record they replaced.        *)
(***************************************************************************)
EXTENDS Integers

CONSTANT Threads

VARIABLES
  shape,  \* the bits of each field's value
  fields, \* the value of each field, as the set of its ones
  rest,   \* the other bits of the memory the record is in
  last,   \* the last call on a record no other thread uses
  calls   \* by thread, the call on the shared record

\* No call, and a record no call has replaced.
NoCall == [op |-> "none"]
NoRecord == <<>>
Idle == [call |-> NoCall, replaced |-> NoRecord]

Combine(op, a, b) ==
  [f \in DOMAIN shape |->
     CASE op = "union" -> a[f] \cup b[f]
       [] op = "intersection" -> a[f] \cap b[f]
       [] op = "difference" -> a[f] \ b[f]]

\* The fields after call: set and copy are of one field, the others of all. A
\* value with more bits than the field has is cut.
After(call, old) ==
  CASE call.op = "set" ->
         [old EXCEPT ![call.field] = call.value \cap shape[call.field]]
    [] call.op = "copy" -> [old EXCEPT ![call.field] = call.from[call.field]]
    [] call.op = "assign" -> call.from
    [] call.op = "clean" -> old
    [] call.op = "inverse" -> [f \in DOMAIN shape |-> shape[f] \ old[f]]
    [] OTHER -> Combine(call.op, old, call.from)

Init ==
  /\ DOMAIN fields = DOMAIN shape
  /\ \A f \in DOMAIN shape : fields[f] \subseteq shape[f]
  /\ last = NoCall
  /\ calls = [th \in Threads |-> Idle]

\* A call while nobody else uses the record.
Alone ==
  /\ \A th \in Threads : calls[th] = Idle
  /\ last' # NoCall
  /\ fields' = After(last', fields)
  /\ last'.op \in {"set", "copy"} => rest' = rest
  /\ UNCHANGED <<shape, calls>>

Call(th) ==
  /\ calls[th] = Idle
  /\ calls'[th].call # NoCall
  /\ calls' = [calls EXCEPT ![th] = [Idle EXCEPT !.call = calls'[th].call]]
  /\ last' = NoCall
  /\ UNCHANGED <<shape, fields, rest>>

TakeEffect(th) ==
  /\ calls[th].call # NoCall
  /\ fields' = Combine(calls[th].call.op, fields, calls[th].call.from)
  /\ calls' = [calls EXCEPT ![th] = [Idle EXCEPT !.replaced = fields]]
  /\ UNCHANGED <<shape, last>>

Return(th) ==
  /\ calls[th].replaced # NoRecord
  /\ calls' = [calls EXCEPT ![th] = Idle]
  /\ UNCHANGED <<shape, fields, rest, last>>

Next == Alone \/ \E th \in Threads : Call(th) \/ TakeEffect(th) \/ Return(th)

Spec == Init /\ [][Next]_<<shape, fields, rest, last, calls>>
=============================================================================
