------------------------------ MODULE Message ------------------------------
(***************************************************************************)
(* One serialize function on both ends of a network that cuts packets      *)
(* short, lengthens them, flips their bits, or delivers them again.  The   *)
(* function visits the fields of a schema in order, a field perhaps only   *)
(* if one before it is not zero, or relative to one before it; it looks at *)
(* the stream's error when it is done, or returns as soon as there is one. *)
(*                                                                         *)
(* The sender's stream is the abstract writer, which WriteStream           *)
(* implements, and the receiver's is ReadStream, on the caller's own       *)
(* variables.                                                              *)
(***************************************************************************)
EXTENDS Tiers, Text

CONSTANTS Schemas,   \* sequences of fields: [op, size, when, after]
          Sources    \* the texts a caller has for a string

VARIABLES schema,    \* what is sent
          given,     \* the values the sending caller has, field by field
          vals,      \* the variables of the receiving caller
          next,      \* its next field, then the end
          fate,      \* what became of the packet it reads
          deliveries

VARIABLES capacity, wire, last, packet                               \* the sender's stream
VARIABLES data, bitsRead, err, returned, depth, echo, complete       \* the receiver's

ends == <<schema, given, vals, next, fate, deliveries>>
sender == <<capacity, wire, last, packet>>
receiver == <<data, bitsRead, err, returned, depth, echo, complete>>
vars == <<ends, sender, receiver>>

Byte == 0..2^ByteBits-1

W == INSTANCE WireSpec WITH Buffers <- {16}, Checked <- {}, Unchecked <- {}
R == INSTANCE ReadStream WITH Packets <- {<<>>}, Later <- {}, Widths <- {}, Spans <- {},
       Counts <- {}, Sizes <- {}, Previous <- {}, Depth <- 0, NonFinite <- {}, FloatBits <- 0

Numbers(op) == op \in {"bits", "int", "relative"}

(***************************************************************************)
(* A schema is what a serialize function can say: a field depends on, or   *)
(* is relative to, numbers it has read before it, and the number a number  *)
(* is relative to is there when it is.                                     *)
(***************************************************************************)
ASSUME SchemasAssumption ==
  \A s \in Schemas :
    /\ s \in Seq([op : {"bits", "int", "relative", "bytes", "string"},
                 size : Nat, when : Nat, after : Nat])
    /\ \A i \in DOMAIN s :
         /\ s[i].when # 0 => /\ s[i].when < i /\ Numbers(s[s[i].when].op)
                            /\ s[s[i].when].when = 0
         /\ s[i].op = "relative" => /\ s[i].after \in 1..i-1 /\ Numbers(s[s[i].after].op)
                                   /\ s[s[i].after].when \in {0, s[i].when}
         /\ s[i].op = "string" => s[i].size # 0
ASSUME SourcesAssumption == Sources \subseteq Seq(Byte)

Old(i) == IF Numbers(schema[i].op) THEN -1 ELSE <<-1>>
Present(i, values) == schema[i].when = 0 \/ values[schema[i].when] # 0
Finished == next = Len(schema) + 2

-----------------------------------------------------------------------------
(***************************************************************************)
(* What is sent for what the caller has: a string goes through CopyString. *)
(***************************************************************************)
Sent(i) == IF Present(i, given) /\ schema[i].op = "string"
             THEN CopyString(given[i], schema[i].size) ELSE given[i]
Object == [i \in DOMAIN given |-> Sent(i)]

Choices(f) == CASE f.op = "bits" -> 0..2^f.size-1
                [] f.op = "int" -> 0..f.size
                [] f.op = "relative" -> given[f.after]+1..IntRelativeMax
                [] f.op = "bytes" -> [1..f.size -> Byte]
                [] f.op = "string" -> Sources

Run(bytes) == [b \in 1..Len(bytes) * ByteBits |->
                 ToBits(bytes[((b-1) \div ByteBits) + 1], ByteBits)[((b-1) % ByteBits) + 1]]

(***************************************************************************)
(* The write method of each kind of field.                                 *)
(***************************************************************************)
Operation(f, v) ==
  CASE f.op = "bits" -> [field |-> ToBits(v, f.size), aligned |-> FALSE, bytes |-> <<>>]
    [] f.op = "int" -> [field |-> ToBits(v, BitsRequired(f.size)), aligned |-> FALSE, bytes |-> <<>>]
    [] f.op = "relative" -> [field |-> IntRelativeCode(given[f.after], v),
                             aligned |-> FALSE, bytes |-> <<>>]
    [] f.op = "bytes" -> [field |-> <<>>, aligned |-> TRUE, bytes |-> Run(v)]
    [] f.op = "string" -> LET text == CopyString(v, f.size)
                          IN  [field |-> ToBits(Len(text), BitsRequired(f.size - 1)),
                               aligned |-> TRUE, bytes |-> Run(text)]

(***************************************************************************)
(* The read method of each kind of field.                                  *)
(***************************************************************************)
Decode(f) == CASE f.op = "bits" -> R!Field(bitsRead, f.size)
               [] f.op = "int" -> R!Ranged(bitsRead, f.size)
               [] f.op = "relative" -> R!IntRelative(bitsRead, vals[f.after])
               [] f.op = "bytes" -> R!Bytes(bitsRead, f.size)
               [] f.op = "string" -> R!String(bitsRead, f.size)

-----------------------------------------------------------------------------
Init == /\ schema \in Schemas
        /\ given = <<>>
        /\ vals = [i \in DOMAIN schema |-> Old(i)]
        /\ next = Len(schema) + 2
        /\ fate = "none"
        /\ deliveries = 0
        /\ W!Init /\ R!Init

(***************************************************************************)
(* The sender writes its next field; a text that is not well formed, even  *)
(* cut, is misuse, and the panic is the end of the sender.                 *)
(***************************************************************************)
WriteField(v) ==
  LET f == schema[Len(given) + 1]
  IN  /\ last # "misuse"
      /\ IF f.op = "string" /\ ~WellFormed(CopyString(v, f.size))
           THEN W!Misuse ELSE W!Accept(Operation(f, v))
      /\ given' = Append(given, v)
      /\ UNCHANGED <<schema, vals, next, fate, deliveries, receiver>>

SkipField == /\ given' = Append(given, Old(Len(given) + 1))
             /\ UNCHANGED <<schema, vals, next, fate, deliveries, sender, receiver>>

WriteNext == /\ Len(given) < Len(schema)
             /\ IF Present(Len(given) + 1, given)
                  THEN \E v \in Choices(schema[Len(given) + 1]) : WriteField(v)
                  ELSE last # "misuse" /\ SkipField

Flush == /\ Len(given) = Len(schema) /\ last \in {"reset", "returned"}
         /\ W!Flush
         /\ UNCHANGED <<ends, receiver>>

(***************************************************************************)
(* The network hands a packet over, the first time in whatever state, and  *)
(* the caller resets its stream onto it; its variables stay as they are.   *)
(***************************************************************************)
Deliver(how, p) == /\ last = "flushed"
                   /\ Finished
                   /\ R!Reset(p)
                   /\ fate' = how
                   /\ deliveries' = deliveries + 1
                   /\ next' = 1
                   /\ UNCHANGED <<schema, given, vals, sender>>

DeliverIntact == deliveries < 2 /\ Deliver("intact", packet)

Truncate == /\ deliveries = 0
            /\ \E n \in 0..Len(packet) \div ByteBits - 1 :
                 Deliver("truncated", SubSeq(packet, 1, n * ByteBits))

Extend == /\ deliveries = 0
          /\ \E more \in [1..ByteBits -> Bit] : Deliver("extended", packet \o more)

Flip == /\ deliveries = 0
        /\ \E b \in DOMAIN packet : Deliver("flipped", [packet EXCEPT ![b] = 1 - packet[b]])

\* Mutant of Store: a variable is cleared before it is read into.
StoreCleared(i, o) == vals' = [vals EXCEPT ![i] = IF err # R!None THEN vals[i]
                                                  ELSE IF R!Accepted(o) THEN o.value
                                                  ELSE IF Numbers(schema[i].op) THEN 0 ELSE <<>>]

(***************************************************************************)
(* A field that is refused leaves its variable alone.                      *)
(***************************************************************************)
Store(i, o) == vals' = [vals EXCEPT ![i] = IF err = R!None /\ R!Accepted(o) THEN o.value ELSE vals[i]]

(***************************************************************************)
(* The receiver's next field.  Once the stream has refused, the condition  *)
(* and the number before it may be stale, and the call does nothing.       *)
(***************************************************************************)
ReadField == /\ next \in DOMAIN schema
             /\ next' = next + 1
             /\ IF Present(next, vals)
                  THEN /\ R!Serialize(Decode(schema[next])) /\ UNCHANGED complete
                       /\ Store(next, Decode(schema[next]))
                  ELSE UNCHANGED <<vals, receiver>>
             /\ UNCHANGED <<schema, given, fate, deliveries, sender>>

ReadEnd == /\ next = Len(schema) + 1
           /\ R!SerializeEnd
           /\ next' = next + 1
           /\ UNCHANGED <<schema, given, vals, fate, deliveries, sender>>

ReturnEarly == /\ err # R!None /\ ~Finished
               /\ next' = Len(schema) + 2
               /\ UNCHANGED <<schema, given, vals, fate, deliveries, sender, receiver>>

Next == \/ WriteNext
        \/ Flush
        \/ DeliverIntact \/ Truncate \/ Extend \/ Flip
        \/ ReadField \/ ReadEnd \/ ReturnEarly

Spec == Init /\ [][Next]_vars

-----------------------------------------------------------------------------
(***************************************************************************)
(* "The longest prefix of source that fits a string buffer of destSize     *)
(* bytes, terminator included, without ending inside a character"          *)
(* (CopyString): every longer prefix that fits has a NUL in it or is cut   *)
(* where a character goes on, and of well-formed text well-formed text is  *)
(* left, so the write that follows does not panic.                         *)
(***************************************************************************)
LongestThatFits ==
  \A i \in DOMAIN given : schema[i].op = "string" /\ Present(i, given) =>
    LET source == given[i]
        text   == Object[i]
    IN  /\ Len(text) < schema[i].size
        /\ text = SubSeq(source, 1, Len(text)) /\ ~HasNul(text)
        /\ WellFormed(source) => WellFormed(text)
        /\ \A n \in Len(text)+1..Len(source) :
             \/ n >= schema[i].size
             \/ HasNul(SubSeq(source, 1, n))
             \/ n < Len(source) /\ source[n+1] \in Continuation

(***************************************************************************)
(* A packet that arrives as it was sent is accepted to its end, and the    *)
(* receiver's variables are the sender's, also when the packet before it   *)
(* was refused part way or accepted with other values.                     *)
(***************************************************************************)
Arrives ==
  Finished /\ fate = "intact" =>
    /\ err = R!None /\ complete
    /\ \A i \in DOMAIN schema : Present(i, Object) => vals[i] = Object[i]

(***************************************************************************)
(* A packet that does not is told from one that does: cut short it is past *)
(* the end, whichever call finds out; with a byte too many, zero or not,   *)
(* it has trailing data; with a bit flipped it is refused, or the values   *)
(* are others: no bit of a packet is without meaning.                      *)
(***************************************************************************)
DamageShows ==
  Finished =>
    /\ fate = "truncated" => err = "past_end"
    /\ fate = "extended" => err = "trailing_data"
    /\ fate = "flipped" /\ err = R!None =>
         \E i \in DOMAIN schema : Present(i, Object) /\ vals[i] # Object[i]

(***************************************************************************)
(* An object refused part way: the variables of the fields before the one  *)
(* that is refused are the sender's, that one and all after it as they     *)
(* were ("on failure *value is left unmodified"), although the function    *)
(* goes on with what it has in them.                                       *)
(***************************************************************************)
OnlyAPrefix ==
  fate \in {"truncated", "extended"} =>
    \E k \in 1..Len(schema)+1 : \A i \in DOMAIN schema :
      vals[i] = IF i < k /\ Present(i, Object) THEN Object[i] ELSE Old(i)
=============================================================================
