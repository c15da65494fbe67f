------------------------------ MODULE WireFormat ------------------------------
(***************************************************************************)
(* The bytes of a message on their way into a command:                       *)
(* SingleProducer::publish copies them into the slot's raw_bytes (cut at the *)
(* array's length) and the unmarshaller runs parse_command over              *)
(* raw_bytes[..len].  Slots are used again and again; this is one of them.   *)
(*                                                                          *)
(* A u64 is Width little-endian bytes; both numbers are small for TLC (the   *)
(* code has Width = 8, Base = 256, MaxLen = 256).                            *)
(***************************************************************************)
EXTENDS Integers, Sequences, SequencesExt

CONSTANTS
  Base,      \* the values of a byte, 256
  Width,     \* bytes of a u64 and of a symbol, 8
  MaxLen,    \* length of raw_bytes, 256
  Sent,      \* bound: the byte strings a client may publish
  Null

Byte   == 0..Base-1
Symbol == [1..Width -> Byte]

\* The values of so many bytes.
Power[n \in 0..Width] == IF n = 0 THEN 1 ELSE Base * Power[n - 1]

Word == 0..Power[Width]-1

Sides      == <<"BUY", "SELL">>
OrderTypes == <<"LIMIT", "MARKET">>
TimesInForce == <<"GTC", "IOC", "FOK">>

\* enum Command.
Command ==
  [kind: {"Place"}, client_id: Word, client_order_id: Word, symbol: Symbol,
   side: ToSet(Sides), order_type: ToSet(OrderTypes), price: Word \cup {Null},
   quantity: Word, time_in_force: ToSet(TimesInForce)]
  \cup [kind: {"Cancel"}, client_id: Word, client_order_id: Word]
  \cup [kind: {"Modify"}, client_id: Word, client_order_id: Word,
        new_price: Word \cup {Null}, new_qty: Word \cup {Null}]

\* The array holds every message a client may want to send, and a byte every tag.
ASSUME WireFormatAssumption ==
  /\ Base \in Nat /\ Base > 3
  /\ Width \in Nat \ {0}
  /\ MaxLen \in Nat /\ MaxLen >= 5 * Width + 5
  /\ Sent \subseteq Seq(Byte)
  /\ Null \notin Word /\ Null \notin Command

VARIABLES
  rawBytes,  \* slot.raw_bytes
  len,       \* slot.len
  command,   \* slot.command: Null for None
  sent,      \* history: the client's bytes for the message in the slot
  pc         \* "claimed": the producer's to write; "written"; "parsed"

vars == <<rawBytes, len, command, sent, pc>>

-----------------------------------------------------------------------------
(***************************************************************************)
(* parse_command.  A reader takes the buffer and an offset and gives the     *)
(* value and the offset after it, or Err, which the ? of its caller passes   *)
(* on.                                                                     *)
(***************************************************************************)
Err       == [ok |-> FALSE]
Ok(v, to) == [ok |-> TRUE, value |-> v, off |-> to]

\* Mutant of FromLe: u64::from_be_bytes.
FromBe(bytes) ==
  LET value[n \in 0..Width] == IF n = 0 THEN 0 ELSE bytes[n] + Base * value[n - 1]
  IN value[Width]

\* u64::from_le_bytes, by what the last n bytes are worth.
FromLe(bytes) ==
  LET value[n \in 0..Width] == IF n = 0 THEN 0 ELSE bytes[Width + 1 - n] + Base * value[n - 1]
  IN value[Width]

ReadBytes(buf, off, n) ==
  IF off + n > Len(buf) THEN Err ELSE Ok(SubSeq(buf, off + 1, off + n), off + n)

ReadU64(buf, off) ==
  LET r == ReadBytes(buf, off, Width) IN IF r.ok THEN Ok(FromLe(r.value), r.off) ELSE Err

ReadSymbol8(buf, off) == ReadBytes(buf, off, Width)

\* One byte that counts through the names.
ReadEnum(buf, off, names) ==
  LET r == ReadBytes(buf, off, 1)
  IN IF r.ok /\ r.value[1] < Len(names) THEN Ok(names[r.value[1] + 1], r.off) ELSE Err

ReadOption(buf, off) ==
  LET flag == ReadBytes(buf, off, 1)
  IN CASE flag.ok /\ flag.value[1] = 0 -> Ok(Null, flag.off)
       [] flag.ok /\ flag.value[1] = 1 -> ReadU64(buf, flag.off)
       [] OTHER -> Err

\* The ? after each read: the next one begins where it ended, if it went well.
ParsePlace(buf) ==
  LET clientId      == ReadU64(buf, 1)
      clientOrderId == ReadU64(buf, clientId.off)
      symbol        == ReadSymbol8(buf, clientOrderId.off)
      side          == ReadEnum(buf, symbol.off, Sides)
      orderType     == ReadEnum(buf, side.off, OrderTypes)
      price         == ReadOption(buf, orderType.off)
      quantity      == ReadU64(buf, price.off)
      timeInForce   == ReadEnum(buf, quantity.off, TimesInForce)
  IN IF /\ clientId.ok /\ clientOrderId.ok /\ symbol.ok /\ side.ok
        /\ orderType.ok /\ price.ok /\ quantity.ok /\ timeInForce.ok
     THEN Ok([kind |-> "Place", client_id |-> clientId.value,
              client_order_id |-> clientOrderId.value, symbol |-> symbol.value,
              side |-> side.value, order_type |-> orderType.value, price |-> price.value,
              quantity |-> quantity.value, time_in_force |-> timeInForce.value],
             timeInForce.off)
     ELSE Err

ParseCancel(buf) ==
  LET clientId      == ReadU64(buf, 1)
      clientOrderId == ReadU64(buf, clientId.off)
  IN IF clientId.ok /\ clientOrderId.ok
     THEN Ok([kind |-> "Cancel", client_id |-> clientId.value,
              client_order_id |-> clientOrderId.value], clientOrderId.off)
     ELSE Err

ParseModify(buf) ==
  LET clientId      == ReadU64(buf, 1)
      clientOrderId == ReadU64(buf, clientId.off)
      newPrice      == ReadOption(buf, clientOrderId.off)
      newQty        == ReadOption(buf, newPrice.off)
  IN IF clientId.ok /\ clientOrderId.ok /\ newPrice.ok /\ newQty.ok
     THEN Ok([kind |-> "Modify", client_id |-> clientId.value,
              client_order_id |-> clientOrderId.value, new_price |-> newPrice.value,
              new_qty |-> newQty.value], newQty.off)
     ELSE Err

ParseCommand(buf) ==
  IF buf = <<>> THEN Err
  ELSE CASE buf[1] = 1 -> ParsePlace(buf)
         [] buf[1] = 2 -> ParseCancel(buf)
         [] buf[1] = 3 -> ParseModify(buf)
         [] OTHER      -> Err

-----------------------------------------------------------------------------
(***************************************************************************)
(* A client's encoder.                                                     *)
(***************************************************************************)
\* to_le_bytes, by what is left of the word after n bytes.
ToLe(word) ==
  LET rest[n \in 0..Width] == IF n = 0 THEN word ELSE rest[n - 1] \div Base
  IN [i \in 1..Width |-> rest[i - 1] % Base]

ByteOf(name, names) == <<(CHOOSE i \in DOMAIN names : names[i] = name) - 1>>

OptionBytes(word) == IF word = Null THEN <<0>> ELSE <<1>> \o ToLe(word)

Encode(c) ==
  CASE c.kind = "Place" ->
         <<1>> \o ToLe(c.client_id) \o ToLe(c.client_order_id) \o c.symbol
               \o ByteOf(c.side, Sides) \o ByteOf(c.order_type, OrderTypes)
               \o OptionBytes(c.price) \o ToLe(c.quantity)
               \o ByteOf(c.time_in_force, TimesInForce)
    [] c.kind = "Cancel" -> <<2>> \o ToLe(c.client_id) \o ToLe(c.client_order_id)
    [] c.kind = "Modify" ->
         <<3>> \o ToLe(c.client_id) \o ToLe(c.client_order_id)
               \o OptionBytes(c.new_price) \o OptionBytes(c.new_qty)

-----------------------------------------------------------------------------
\* A slot of a new ring holds nothing.
Init ==
  /\ rawBytes = <<>>
  /\ len = 0
  /\ command = Null
  /\ sent = <<>>
  /\ pc = "claimed"

\* Mutant of Publish: len is the length of the client's bytes.
PublishUncut(raw) ==
  /\ pc # "written"
  /\ len' = Len(raw)
  /\ rawBytes' = [i \in 1..MaxLen |-> IF i <= Len(raw) THEN raw[i] ELSE 0]
  /\ command' = Null
  /\ sent' = raw
  /\ pc' = "written"

\* SingleProducer::publish, once the slot is its own: on the first lap or when
\* the threads behind are done with the message of the last one.  The bytes
\* beyond len are zero whatever the slot held before.
Publish(raw) ==
  /\ pc # "written"
  /\ len' = IF Len(raw) < MaxLen THEN Len(raw) ELSE MaxLen
  /\ rawBytes' = [i \in 1..MaxLen |-> IF i <= len' THEN raw[i] ELSE 0]
  /\ command' = Null
  /\ sent' = raw
  /\ pc' = "written"

\* Mutant of Unmarshal: parse_command sees all of raw_bytes.
UnmarshalWholeSlot ==
  /\ pc = "written"
  /\ LET result == ParseCommand(rawBytes)
     IN command' = IF result.ok THEN result.value ELSE Null
  /\ pc' = "parsed"
  /\ UNCHANGED <<rawBytes, len, sent>>

\* The unmarshaller's turn with the slot.
Unmarshal ==
  /\ pc = "written"
  /\ LET result == ParseCommand(SubSeq(rawBytes, 1, len))
     IN command' = IF result.ok THEN result.value ELSE Null
  /\ pc' = "parsed"
  /\ UNCHANGED <<rawBytes, len, sent>>

Next == (\E raw \in Sent : Publish(raw)) \/ Unmarshal

Spec == Init /\ [][Next]_vars

-----------------------------------------------------------------------------
\* The slot has its length, and what comes out of it is a Command.
TypeOK ==
  /\ rawBytes \in [1..MaxLen -> Byte] \cup {<<>>}
  /\ len \in 0..Len(rawBytes)
  /\ command \in Command \cup {Null}
  /\ sent \in Seq(Byte)
  /\ pc \in {"claimed", "written", "parsed"}

(***************************************************************************)
(* The format, README.md:105-109, without a cursor: what may stand at each    *)
(* place of a message, for each of the forms a message can have.             *)
(***************************************************************************)
AnyBytes(n) == [i \in 1..n |-> Byte]

OptionForms == {<<{0}>>, <<{1}>> \o AnyBytes(Width)}

Forms ==
  {<<{2}>> \o AnyBytes(2 * Width)}
  \cup {<<{3}>> \o AnyBytes(2 * Width) \o price \o qty : price, qty \in OptionForms}
  \cup {<<{1}>> \o AnyBytes(3 * Width) \o <<{0, 1}, {0, 1}>> \o price \o AnyBytes(Width)
              \o <<{0, 1, 2}>> : price \in OptionForms}

HasForm(bytes, form) ==
  Len(bytes) >= Len(form) /\ \A i \in DOMAIN form : bytes[i] \in form[i]

\* A message becomes a command exactly when it has one of the forms: one that
\* is cut anywhere, or has an impossible byte anywhere, never does (the zeros
\* behind a short message and the bytes of an earlier one are not taken for the
\* rest of it), and bytes behind a complete message, kept or cut off by the
\* slot, do no harm.
AcceptsTheFormat ==
  pc = "parsed" => (command # Null <=> \E form \in Forms : HasForm(sent, form))

\* And it is the command the client encoded: encoding it again gives the bytes
\* that were sent.
DecodesWhatWasSent ==
  pc = "parsed" /\ command # Null => IsPrefix(Encode(command), sent)

=============================================================================
