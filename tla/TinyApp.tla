------------------------------ MODULE TinyApp ------------------------------
(***************************************************************************)
(* lib/tinyapp.c: a sender serialises items into a packet, and the         *)
(* receiver takes the packet apart.  A node knows the items by the         *)
(* enumerators of tinyapp.h, a gateway by the names in the tables of       *)
(* tinyapp.c, which are compiled for a coordinator only.  Either may be    *)
(* the sender; no program under src/ is.  Bytes are numbers below 256.     *)
(*                                                                         *)
(* A packet that has no room for an item stops the program by its assert,  *)
(* so an item is added only where it fits.                                 *)
(***************************************************************************)
EXTENDS Integers, Sequences

CONSTANTS
    SIZE,        \* size of the packet buffer
    Names,       \* names of the items sent, <<profile tag, item tag>>
    Values,      \* values of 1, 2 and 4 bytes
    Strings      \* byte strings

ASSUME TinyAppConstants ==
    /\ SIZE \in 1 .. 255
    /\ Values \in [{1, 2, 4} -> SUBSET Nat]
    /\ Strings \subseteq Seq(0 .. 255)

VARIABLES
    sender,      \* "node" or "gateway"
    packet,      \* the bytes from packet_start to packet_ptr
    current,     \* the profile last selected in it
    reported,    \* what has been serialised, by name, and as it is to arrive
    phase,       \* "encoding" or "decoding"
    rest,        \* what tinyapp_deserialise has not consumed
    profile,     \* its profile
    items        \* the callbacks it has made: profile, item and bytes of each

appvars == <<sender, packet, current, reported, phase, rest, profile, items>>

----------------------------------------------------------------------------
(* The tables: profiles, and the items of each, in the order of their      *)
(* identifiers, which count from 0.  The order of tinyapp_profile_t is     *)
(* that of tinyapp_profile_tags.                                           *)

Parties == {"node", "gateway"}

tinyapp_profile_tags == <<"status", "info", "generic", "env", "hvac", "energy", "ha">>

tinyapp_profile_items ==
    << <<"battery", "runtime", "coord_rssi">>,
       <<"type", "name", "update_rate">>,
       <<"ana0", "ana1", "ana2", "ana3", "ana4", "ana5", "ana6", "ana7",
         "digin", "digout", "floattest", "doubletest">>,
       <<"temperature", "rh", "visible_lux", "uv_lux", "ir_lux", "ph", "level",
         "wind_speed_avg", "wind_speed_gust", "wind_direction", "rainfall",
         "pressure", "spl_rms", "spl_peak">>,
       <<"temperature", "target", "heat_demand", "cool_demand", "flow_temp",
         "return_temp", "fan_speed", "burner_power">>,
       <<>>,
       <<>> >>

\* The enumerators of tinyapp.h, each under the name of its item.
item_enums ==
    << <<"battery", "runtime", "coord_rssi">>,
       <<"type", "name", "update_rate">>,
       <<"ana0", "ana1", "ana2", "ana3", "ana4", "ana5", "ana6", "ana7",
         "digin", "digout", "floattest", "doubletest">>,
       <<"temperature", "rh", "visible_lux", "uv_lux", "ir_lux", "ph", "level",
         "wind_speed_avg", "wind_speed_gust", "wind_direction", "rainfall",
         "pressure", "spl_rms", "spl_peak">>,
       <<"temperature", "target", "heat_demand", "cool_demand", "fan_speed",
         "flow_temp", "return_temp", "burner_power">>,
       <<>>,
       <<>> >>

\* What a party goes by.
ItemTable(party) == IF party = "node" THEN item_enums ELSE tinyapp_profile_items

\* The first entry that matches, -1 without one.
Index(table, tag) ==
    LET at == {n \in DOMAIN table : table[n] = tag}
    IN  IF at = {} THEN -1 ELSE (CHOOSE n \in at : \A m \in at : n <= m) - 1

tinyapp_get_profile_id(tag) == Index(tinyapp_profile_tags, tag)

tinyapp_get_profile_tag(p) ==
    IF p < Len(tinyapp_profile_tags) THEN tinyapp_profile_tags[p + 1] ELSE "NULL"

\* A gateway calls this function; a node's compiler does the same by the
\* enumerators.
tinyapp_get_item_id(party, p, tag) ==
    IF p < Len(tinyapp_profile_tags) THEN Index(ItemTable(party)[p + 1], tag) ELSE -1

\* A table ends with a NULL entry.  The code does not check the item against it
\* (it has a FIXME); RoundTrip shows that nothing sent is beyond it.
tinyapp_get_item_info(party, p, item) ==
    IF p < Len(tinyapp_profile_tags) /\ item < Len(ItemTable(party)[p + 1])
    THEN ItemTable(party)[p + 1][item + 1] ELSE "NULL"

\* What is sent has a profile and an identifier in it.
ASSUME NamesKnown ==
    \A name \in Names :
        /\ name = <<name[1], name[2]>>
        /\ tinyapp_get_profile_id(name[1]) # -1
        /\ \A party \in Parties :
              tinyapp_get_item_id(party, tinyapp_get_profile_id(name[1]), name[2]) # -1

----------------------------------------------------------------------------
(* Serialising. *)

TINYAPP_ITEM_ID_PROFILE == 63

ID_RANGE == 64       \* TINYAPP_ITEM_ID_MASK + 1

\* TINYAPP_LENGTH_1, _2 and _4 by the length, and TINYAPP_LENGTH_VAR.
LengthCode == [n \in {1, 2, 4} |-> CASE n = 1 -> 0 [] n = 2 -> 1 [] n = 4 -> 2]

LENGTH_VAR == 3

Header(code, id) == code * ID_RANGE + id

\* An integer in n bytes, little-endian.
Bytes(value, n) == [i \in 1 .. n |-> (value \div 256^(i - 1)) % 256]

Put(bytes) ==
    /\ Len(packet) + Len(bytes) <= SIZE
    /\ packet' = packet \o bytes

Id(name) == tinyapp_get_item_id(sender, current, name[2])

\* The sender reports an item of the current profile, which should reach the
\* receiver's callback as call.
Report(name, bytes) ==
    /\ tinyapp_get_profile_id(name[1]) = current
    /\ reported' = Append(reported, [name |-> name,
                                     call |-> [profile |-> current, item |-> Id(name), bytes |-> bytes]])
    /\ UNCHANGED <<sender, current>>

\* tinyapp_init
AppInit ==
    /\ sender \in Parties
    /\ packet = <<0>> /\ current = 0 /\ reported = <<>>
    /\ phase = "encoding"
    /\ rest = <<>> /\ profile = 0 /\ items = <<>>

\* tinyapp_serialise8, 16 and 32.
SerialiseInt(name, n, value) ==
    /\ phase = "encoding"
    /\ Report(name, Bytes(value, n))
    /\ Put(<<Header(LengthCode[n], Id(name))>> \o Bytes(value, n))
    /\ UNCHANGED <<phase, rest, profile, items>>

\* Faulty variant: the length is left out.
SerialiseStringBare(name, str) ==
    /\ phase = "encoding"
    /\ Report(name, str)
    /\ Put(<<Header(LENGTH_VAR, Id(name))>> \o str)
    /\ UNCHANGED <<phase, rest, profile, items>>

SerialiseString(name, str) ==
    /\ phase = "encoding"
    /\ Report(name, str)
    /\ Put(<<Header(LENGTH_VAR, Id(name)), Len(str)>> \o str)
    /\ UNCHANGED <<phase, rest, profile, items>>

\* A profile is selected with an item of one byte.
SelectProfile(tag) ==
    LET id == tinyapp_get_profile_id(tag)
    IN  /\ phase = "encoding"
        /\ current' = id /\ id # current
        /\ Put(<<Header(LengthCode[1], TINYAPP_ITEM_ID_PROFILE), id>>)
        /\ UNCHANGED <<sender, reported, phase, rest, profile, items>>

----------------------------------------------------------------------------
(* Deserialising. *)

\* tinyapp_deserialise skips the flags and starts with profile 0.
Deserialise ==
    /\ phase = "encoding" /\ phase' = "decoding"
    /\ rest' = Tail(packet)
    /\ profile' = 0 /\ items' = <<>>
    /\ UNCHANGED <<sender, packet, current, reported>>

\* Where the data of the next item starts, and its length.
Start(r) == IF r[1] \div ID_RANGE = LENGTH_VAR THEN 3 ELSE 2

Length(r) ==
    IF r[1] \div ID_RANGE = LENGTH_VAR THEN r[2]
    ELSE CHOOSE n \in {1, 2, 4} : LengthCode[n] = r[1] \div ID_RANGE

\* Faulty variant: a profile lasts for one item.
NextItemOnce ==
    LET id   == rest[1] % ID_RANGE
        data == SubSeq(rest, Start(rest), Start(rest) + Length(rest) - 1)
        call == [profile |-> profile, item |-> id, bytes |-> data]
    IN  /\ phase = "decoding" /\ rest # <<>>
        /\ IF id = TINYAPP_ITEM_ID_PROFILE
           THEN profile' = data[1] /\ UNCHANGED items
           ELSE items' = Append(items, call) /\ profile' = 0
        /\ rest' = SubSeq(rest, Start(rest) + Length(rest), Len(rest))
        /\ UNCHANGED <<sender, packet, current, reported, phase>>

\* One turn of the loop.
NextItem ==
    LET id   == rest[1] % ID_RANGE
        data == SubSeq(rest, Start(rest), Start(rest) + Length(rest) - 1)
        call == [profile |-> profile, item |-> id, bytes |-> data]
    IN  /\ phase = "decoding" /\ rest # <<>>
        /\ IF id = TINYAPP_ITEM_ID_PROFILE
           THEN profile' = data[1] /\ UNCHANGED items
           ELSE items' = Append(items, call) /\ UNCHANGED profile
        /\ rest' = SubSeq(rest, Start(rest) + Length(rest), Len(rest))
        /\ UNCHANGED <<sender, packet, current, reported, phase>>

----------------------------------------------------------------------------
Serialise ==
    \/ \E name \in Names, n \in {1, 2, 4} : \E value \in Values[n] : SerialiseInt(name, n, value)
    \/ \E name \in Names, str \in Strings : SerialiseString(name, str)
    \/ \E name \in Names : SelectProfile(name[1])

\* The next packet is started, by the same party or the other one.
NextPacket ==
    /\ phase = "decoding" /\ rest = <<>>
    /\ sender' \in Parties
    /\ packet' = <<0>> /\ current' = 0 /\ reported' = <<>>
    /\ phase' = "encoding"
    /\ profile' = 0 /\ items' = <<>> /\ UNCHANGED rest

AppNext == Serialise \/ Deserialise \/ NextItem \/ NextPacket

AppSpec == AppInit /\ [][AppNext]_appvars

----------------------------------------------------------------------------
\* The decoder stays inside a packet that was serialised: what it takes for the
\* next item, header and length included, is all there, whatever items, strings
\* of length 0 and profiles were put together (tinyapp_deserialise has no other
\* check than its loop condition; of other packets this says nothing).
StaysInside ==
    phase = "decoding" /\ rest # <<>> =>
        Start(rest) - 1 <= Len(rest) /\ Start(rest) + Length(rest) - 1 <= Len(rest)

\* The other party's name for an item it is given.
Receiver == IF sender = "node" THEN "gateway" ELSE "node"

NameOf(call) ==
    <<tinyapp_get_profile_tag(call.profile), tinyapp_get_item_info(Receiver, call.profile, call.item)>>

\* The items that tinyapp.h and tinyapp.c number differently.
Misnamed == {<<"hvac", "fan_speed">>, <<"hvac", "flow_temp">>, <<"hvac", "return_temp">>}

\* The receiver is given what was sent, in order: profile, identifier and every
\* byte of each item, however items, strings and profile selections follow each
\* other (tinyapp_deserialise).  It also knows each by the sender's name, but
\* for the three that the enumerators and the tables number differently.
RoundTrip ==
    phase = "decoding" =>
        /\ Len(items) <= Len(reported)
        /\ \A i \in 1 .. Len(items) :
              /\ items[i] = reported[i].call
              /\ reported[i].name \notin Misnamed => NameOf(items[i]) = reported[i].name
        /\ rest = <<>> => Len(items) = Len(reported)
=============================================================================
