----------------------------- MODULE MCWireFormat -----------------------------
(***************************************************************************)
(* What the clients send: encoded commands; each of them cut at every        *)
(* length, with more bytes behind it (up to and beyond the end of the slot)  *)
(* and with every other value of every byte.                                 *)
(***************************************************************************)
EXTENDS WireFormat

\* A word with two different bytes, the largest and the smallest.
Lopsided == Base + 2
Largest  == Base^Width - 1

Places ==
  {[kind |-> "Place", client_id |-> Lopsided, client_order_id |-> 3,
    symbol |-> [i \in 1..Width |-> i % Base], side |-> side, order_type |-> ot, price |-> price,
    quantity |-> Largest, time_in_force |-> tif] :
     side \in ToSet(Sides), ot \in ToSet(OrderTypes), price \in {Null, Lopsided},
     tif \in ToSet(TimesInForce)}

Cancels == {[kind |-> "Cancel", client_id |-> 1, client_order_id |-> Lopsided]}

Modifies ==
  {[kind |-> "Modify", client_id |-> Largest, client_order_id |-> 0, new_price |-> price,
    new_qty |-> qty] : price \in {Null, Lopsided}, qty \in {Null, 1}}

Encoded == {Encode(c) : c \in Places \cup Cancels \cup Modifies}

Cut(bytes)      == {SubSeq(bytes, 1, n) : n \in 0..Len(bytes)-1}
Extended(bytes) == {bytes \o [i \in 1..n |-> b] : n \in {1, MaxLen + 1 - Len(bytes)}, b \in {0, 1}}
Altered(bytes)  == {[bytes EXCEPT ![i] = b] : i \in DOMAIN bytes, b \in Byte}

MCSent == Encoded \cup UNION {Cut(m) \cup Extended(m) \cup Altered(m) : m \in Encoded}

=============================================================================
