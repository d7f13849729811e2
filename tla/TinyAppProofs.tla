--------------------------- MODULE TinyAppProofs ---------------------------
(***************************************************************************)
(* Proofs about lib/tinyapp.c, for packets of any size, items of any       *)
(* length and any choice of the names that are reported: what has been     *)
(* serialised is read back, item by item, and nothing beyond it is.        *)
(***************************************************************************)
EXTENDS TinyApp, SequenceTheorems, WellFoundedInduction, TLAPS

\* A set of numbers with a member has a least one.
LEMMA LeastNumber ==
    ASSUME NEW T \in SUBSET Nat, T # {}
    PROVE  \E n \in T : \A m \in T : n <= m
<1> DEFINE R == OpToRel(<, Nat)
<1>1. IsWellFoundedOn(R, Nat)
  BY NatLessThanWellFounded, Zenon
<1>2. \A x, y \in Nat : <<x, y>> \in R <=> x < y
  BY Zenon DEF OpToRel
<1> HIDE DEF R
<1>3. PICK x \in T : \A y \in T : ~(<<y, x>> \in R)
  BY <1>1, WFMin, Zenon
<1>4. \A y \in T : y \in Nat /\ x \in Nat /\ ~(y < x)
  BY <1>2, <1>3, Zenon
<1>5. \A y \in T : x <= y
  BY <1>4
<1>. QED
  BY <1>5, Zenon

\* A tag that is found is found where it is.
LEMMA IndexFinds ==
    ASSUME NEW table, NEW k \in Nat, DOMAIN table = 1 .. k, NEW tag, Index(table, tag) # -1
    PROVE  Index(table, tag) \in 0 .. k - 1 /\ table[Index(table, tag) + 1] = tag
<1> DEFINE at == {n \in DOMAIN table : table[n] = tag}
           first == CHOOSE n \in at : \A m \in at : n <= m
<1>1. at # {} /\ Index(table, tag) = first - 1
  BY Zenon DEF Index
<1>2. at \in SUBSET Nat
  OBVIOUS
<1>3. \E n \in at : \A m \in at : n <= m
  BY <1>1, <1>2, LeastNumber, Zenon
<1>4. first \in at
  BY <1>3, Zenon
<1> HIDE DEF first
<1>. QED
  BY <1>1, <1>4

\* The lengths of the tables.
LEMMA Tables ==
    /\ Len(tinyapp_profile_tags) = 7 /\ DOMAIN tinyapp_profile_tags = 1 .. 7
    /\ \A party \in Parties, p \in 1 .. 7 :
          /\ DOMAIN ItemTable(party)[p] = 1 .. Len(ItemTable(party)[p])
          /\ Len(ItemTable(party)[p]) \in 0 .. 14
<1>1. Len(tinyapp_profile_tags) = 7 /\ DOMAIN tinyapp_profile_tags = 1 .. 7
  BY DEF tinyapp_profile_tags
<1>2. ASSUME NEW p \in 1 .. 7
      PROVE  /\ DOMAIN tinyapp_profile_items[p] = 1 .. Len(tinyapp_profile_items[p])
             /\ Len(tinyapp_profile_items[p]) \in 0 .. 14
  BY DEF tinyapp_profile_items
<1>3. ASSUME NEW p \in 1 .. 7
      PROVE  /\ DOMAIN item_enums[p] = 1 .. Len(item_enums[p])
             /\ Len(item_enums[p]) \in 0 .. 14
  BY DEF item_enums
<1>. QED
  BY <1>1, <1>2, <1>3, Zenon DEF ItemTable

\* 256 to the powers that Bytes divides by.
LEMMA Power ==
    ASSUME NEW i \in 1 .. 4
    PROVE  256^(i - 1) \in Nat \ {0}
<1>1. 256^0 = 1 /\ 256^1 = 256 /\ 256^2 = 65536 /\ 256^3 = 16777216
  OBVIOUS
<1> DEFINE k == i - 1
<1>2. k = 0 \/ k = 1 \/ k = 2 \/ k = 3
  OBVIOUS
<1> HIDE DEF k
<1>3. 256^k = 1 \/ 256^k = 256 \/ 256^k = 65536 \/ 256^k = 16777216
  <2>1. CASE k = 0
    BY <1>1, <2>1
  <2>2. CASE k = 1
    BY <1>1, <2>2
  <2>3. CASE k = 2
    BY <1>1, <2>3
  <2>4. CASE k = 3
    BY <1>1, <2>4
  <2>. QED
    BY <1>2, <2>1, <2>2, <2>3, <2>4
<1>. QED
  BY <1>3 DEF k

\* The bytes of an integer.
LEMMA BytesType ==
    ASSUME NEW value \in Nat, NEW n \in {1, 2, 4}
    PROVE  Bytes(value, n) \in Seq(Nat) /\ Len(Bytes(value, n)) = n
<1>1. ASSUME NEW i \in 1 .. n PROVE (value \div 256^(i - 1)) % 256 \in Nat
  <2>1. 256^(i - 1) \in Nat \ {0}
    <3>1. i \in 1 .. 4
      OBVIOUS
    <3>. QED
      BY <3>1, Power, Zenon
  <2>2. ASSUME NEW d \in Nat \ {0} PROVE (value \div d) % 256 \in Nat
    OBVIOUS
  <2>. QED
    BY <2>1, <2>2, Zenon
<1>2. Bytes(value, n) \in [1 .. n -> Nat]
  BY <1>1, Zenon DEF Bytes
<1>. QED
  BY <1>2

\* The identifiers a party has for a name.
Numbered(party, name, p, id) ==
    p = tinyapp_get_profile_id(name[1]) /\ id = tinyapp_get_item_id(party, p, name[2])

\* Identifiers under which its table has the name.
InTable(party, name, p, id) ==
    /\ p \in 0 .. 6 /\ tinyapp_profile_tags[p + 1] = name[1]
    /\ id \in 0 .. 13 /\ id < Len(ItemTable(party)[p + 1])
    /\ ItemTable(party)[p + 1][id + 1] = name[2]

\* Whatever is sent has identifiers in the tables, none of them the profile
\* selector's, and they lead back to it in the sender's own table.
LEMMA NameFound ==
    ASSUME NEW name \in Names, NEW party \in Parties, NEW p, NEW id, Numbered(party, name, p, id)
    PROVE  InTable(party, name, p, id)
<1> USE DEF Numbered
<1> DEFINE table == ItemTable(party)[p + 1]
           k == Len(table)
<1>1. p \in 0 .. 6 /\ tinyapp_profile_tags[p + 1] = name[1]
  <2>1. Index(tinyapp_profile_tags, name[1]) # -1 /\ p = Index(tinyapp_profile_tags, name[1])
    BY NamesKnown, Zenon DEF tinyapp_get_profile_id
  <2>2. DOMAIN tinyapp_profile_tags = 1 .. 7 /\ 7 \in Nat
    BY Tables, Zenon
  <2> DEFINE q == Index(tinyapp_profile_tags, name[1])
  <2>3. q \in 0 .. 7 - 1 /\ tinyapp_profile_tags[q + 1] = name[1]
    BY ONLY <2>1, <2>2, IndexFinds, Zenon
  <2> HIDE DEF q
  <2>4. p = q
    BY <2>1, Zenon DEF q
  <2>. QED
    BY <2>3, <2>4
<1>2. p + 1 \in 1 .. 7
  BY <1>1
<1>3. DOMAIN table = 1 .. k /\ k \in 0 .. 14
  BY <1>2, Tables, Zenon
<1>4. id = Index(table, name[2]) /\ id # -1
  <2>1. p < Len(tinyapp_profile_tags)
    BY <1>1, Tables
  <2>. QED
    BY <2>1, NamesKnown, Zenon DEF tinyapp_get_item_id
<1> HIDE DEF table, k
<1>5. id \in 0 .. k - 1 /\ table[id + 1] = name[2]
  <2> DEFINE q == Index(table, name[2])
  <2>1. q # -1 /\ k \in Nat
    BY <1>3, <1>4
  <2>2. q \in 0 .. k - 1 /\ table[q + 1] = name[2]
    BY ONLY <1>3, <2>1, IndexFinds, Zenon
  <2> HIDE DEF q
  <2>3. id = q
    BY <1>4, Zenon DEF q
  <2>. QED
    BY <2>2, <2>3, Zenon
<1>6. id \in 0 .. 13 /\ id < k
  BY ONLY <1>3, <1>5
<1>. QED
  BY <1>1, <1>5, <1>6, Zenon DEF table, k, InTable

\* The names that the two tables have in different places.
Swapped == {"fan_speed", "flow_temp", "return_temp"}

\* The tables of either party are equally long, and differ in these alone.
LEMMA TablesAgree ==
    ASSUME NEW q \in 1 .. 7
    PROVE  /\ Len(item_enums[q]) = Len(tinyapp_profile_items[q])
           /\ \A k \in 1 .. Len(item_enums[q]) :
                 \/ item_enums[q][k] = tinyapp_profile_items[q][k]
                 \/ /\ tinyapp_profile_tags[q] = "hvac"
                    /\ item_enums[q][k] \in Swapped /\ tinyapp_profile_items[q][k] \in Swapped
<1>1. CASE q # 5
  <2>1. item_enums[q] = tinyapp_profile_items[q]
    BY <1>1 DEF item_enums, tinyapp_profile_items
  <2>. QED
    BY <2>1, Zenon
<1>2. CASE q = 5
  <2> DEFINE a == item_enums[5]
             b == tinyapp_profile_items[5]
  <2>1. /\ a = <<"temperature", "target", "heat_demand", "cool_demand", "fan_speed",
                  "flow_temp", "return_temp", "burner_power">>
        /\ b = <<"temperature", "target", "heat_demand", "cool_demand", "flow_temp",
                  "return_temp", "fan_speed", "burner_power">>
    BY DEF item_enums, tinyapp_profile_items
  <2>2. tinyapp_profile_tags[5] = "hvac"
    BY DEF tinyapp_profile_tags
  <2> HIDE DEF a, b
  <2>3. Len(a) = 8 /\ Len(b) = 8
    BY <2>1
  <2>4. \A k \in 1 .. 8 : a[k] = b[k] \/ (a[k] \in Swapped /\ b[k] \in Swapped)
    BY <2>1 DEF Swapped
  <2>. QED
    BY <1>2, <2>2, <2>3, <2>4, Zenon DEF a, b
<1>. QED
  BY <1>1, <1>2, Zenon

\* A party has the name for identifiers it is given.
NamedBy(party, name, p, id) ==
    <<tinyapp_get_profile_tag(p), tinyapp_get_item_info(party, p, id)>> = name

\* What is not one of these has the same name at either end.
LEMMA NamesAgree ==
    ASSUME NEW name \in Names, name \notin Misnamed,
           NEW party \in Parties, NEW other \in Parties,
           NEW p, NEW id, Numbered(party, name, p, id)
    PROVE  NamedBy(other, name, p, id)
<1> DEFINE q == p + 1
           k == id + 1
<1>1. /\ p \in 0 .. 6 /\ tinyapp_profile_tags[q] = name[1]
      /\ id \in 0 .. 13 /\ id < Len(ItemTable(party)[q]) /\ ItemTable(party)[q][k] = name[2]
  <2>1. InTable(party, name, p, id)
    BY NameFound, Zenon
  <2>. QED
    BY <2>1, Zenon DEF InTable
<1>2. q \in 1 .. 7
  BY <1>1
<1>3. /\ Len(item_enums[q]) = Len(tinyapp_profile_items[q])
      /\ \A j \in 1 .. Len(item_enums[q]) :
            \/ item_enums[q][j] = tinyapp_profile_items[q][j]
            \/ /\ tinyapp_profile_tags[q] = "hvac"
               /\ item_enums[q][j] \in Swapped /\ tinyapp_profile_items[q][j] \in Swapped
  BY <1>2, TablesAgree, Zenon
<1>4. Len(ItemTable(party)[q]) = Len(item_enums[q]) /\ Len(ItemTable(other)[q]) = Len(item_enums[q])
  BY <1>3, Zenon DEF ItemTable
<1>5. k \in 1 .. Len(item_enums[q])
  <2>1. Len(ItemTable(party)[q]) \in 0 .. 14
    BY <1>2, Tables, Zenon
  <2>. QED
    BY <1>1, <1>4, <2>1
<1>6. name = <<name[1], name[2]>>
  BY NamesKnown, Zenon
<1>7. ~(name[1] = "hvac" /\ name[2] \in Swapped)
  BY <1>6, Zenon DEF Swapped, Misnamed
<1>8. ItemTable(other)[q][k] = name[2]
  BY <1>1, <1>3, <1>5, <1>7, Zenon DEF ItemTable
<1>9. p < Len(tinyapp_profile_tags) /\ id < Len(ItemTable(other)[q])
  <2>1. p < 7
    BY <1>1
  <2>. QED
    BY <1>1, <1>4, <2>1, Tables, Zenon
<1>10. tinyapp_get_item_info(other, p, id) = name[2]
  BY <1>8, <1>9, Zenon DEF tinyapp_get_item_info
<1>11. tinyapp_get_profile_tag(p) = name[1]
  BY <1>1, <1>9, Zenon DEF tinyapp_get_profile_tag
<1>. QED
  BY <1>6, <1>10, <1>11, Zenon DEF NamedBy

\* A header holds both of its parts.
LEMMA HeaderParts ==
    ASSUME NEW code \in 0 .. 3, NEW id \in 0 .. 63
    PROVE  /\ Header(code, id) \in Nat
           /\ Header(code, id) \div ID_RANGE = code /\ Header(code, id) % ID_RANGE = id
  BY DEF Header, ID_RANGE

\* The code of a length is that of no other.
LEMMA Lengths ==
    /\ \A n \in {1, 2, 4} : LengthCode[n] \in 0 .. 2
    /\ \A n, m \in {1, 2, 4} : LengthCode[n] = LengthCode[m] => n = m
  BY DEF LengthCode

----------------------------------------------------------------------------
(* How a packet is framed.  A mark is a place in it where an item starts,  *)
(* or its end, with the profile and the number of items before it.         *)

Marks == [at : Nat, profile : Nat, count : Nat]

FirstMark == [at |-> 2, profile |-> 0, count |-> 0]

EndMark(b, R, p) == [at |-> Len(b) + 1, profile |-> p, count |-> Len(R)]

\* Byte i of b is the header of item id, whose data is the bytes from .. to.
Item(b, i, id, from, to) ==
    \/ \E n \in {1, 2, 4} : b[i] = Header(LengthCode[n], id) /\ from = i + 1 /\ to = i + n
    \/ b[i] = Header(LENGTH_VAR, id) /\ from = i + 2 /\ b[i + 1] = to - from + 1

\* The item at m leads to y: it selects y's profile, or is the next of the
\* reported items.
Reads(b, R, m, y) ==
    \E id \in 0 .. 63, from \in Nat, to \in Nat :
        /\ m.at \in 1 .. Len(b) /\ from <= to + 1 /\ to <= Len(b)
        /\ Item(b, m.at, id, from, to)
        /\ y.at = to + 1
        /\ \/ /\ id = TINYAPP_ITEM_ID_PROFILE /\ from <= to
              /\ y.profile = b[from] /\ y.count = m.count
           \/ /\ id # TINYAPP_ITEM_ID_PROFILE
              /\ y.profile = m.profile /\ y.count = m.count + 1 /\ y.count <= Len(R)
              /\ R[y.count].call = [profile |-> m.profile, item |-> id, bytes |-> SubSeq(b, from, to)]

\* The marks F lead from the first one to the end of the packet.
Framed(b, R, p, F) ==
    /\ F \subseteq Marks /\ FirstMark \in F
    /\ \A m \in F : m = EndMark(b, R, p) \/ \E y \in F : Reads(b, R, m, y)

Calls == [profile : Nat, item : Nat, bytes : Seq(Nat)]

Reports == [name : Names, call : Calls]

\* The identifiers are the sender's.
Labelled(party, r) == Numbered(party, r.name, r.call.profile, r.call.item)

PacketInv ==
    /\ sender \in Parties
    /\ packet \in Seq(Nat) /\ Len(packet) \in 1 .. SIZE
    /\ reported \in Seq(Reports) /\ \A i \in 1 .. Len(reported) : Labelled(sender, reported[i])
    /\ current \in 0 .. 6

\* The callbacks are those of the first n items.
Passed(R, n, calls) ==
    calls \in Seq(Calls) /\ Len(calls) = n /\ \A i \in 1 .. n : calls[i] = R[i].call

\* The decoder is at a mark and has passed on the items before it.
AtMark(m) ==
    /\ rest = SubSeq(packet, m.at, Len(packet))
    /\ profile = m.profile
    /\ m.count <= Len(reported) /\ Passed(reported, m.count, items)

AppInv ==
    /\ PacketInv
    /\ \E F \in SUBSET Marks :
          /\ Framed(packet, reported, current, F)
          /\ phase = "decoding" => \E m \in F : AtMark(m)

----------------------------------------------------------------------------
(* What is added to a packet leaves what is there. *)

\* t starts with s.
Begins(s, t) == Len(s) <= Len(t) /\ \A i \in 1 .. Len(s) : t[i] = s[i]

\* q is the part of s from m to n.
IsPart(q, s, m, n) ==
    /\ q \in Seq(Nat)
    /\ Len(q) = IF m <= n THEN n - m + 1 ELSE 0
    /\ \A i \in 1 .. n - m + 1 : q[i] = s[m + i - 1]

\* What SubSeq takes of a packet.
LEMMA PartTaken ==
    ASSUME NEW s, NEW m \in Int, NEW n \in Int, \A i \in m .. n : s[i] \in Nat
    PROVE  IsPart(SubSeq(s, m, n), s, m, n)
  BY SubSeqProperties DEF IsPart

\* A part of s is the same part of what starts with s.
LEMMA SubSeqBegins ==
    ASSUME NEW S, NEW s \in Seq(S), NEW t \in Seq(S), Begins(s, t),
           NEW from \in Nat \ {0}, NEW to \in 0 .. Len(s)
    PROVE  SubSeq(t, from, to) = SubSeq(s, from, to)
<1>1. \A i \in from .. to : s[i] \in S /\ t[i] \in S /\ s[i] = t[i]
  BY DEF Begins
<1>2. /\ SubSeq(s, from, to) \in Seq(S) /\ SubSeq(t, from, to) \in Seq(S)
      /\ Len(SubSeq(s, from, to)) = IF from <= to THEN to - from + 1 ELSE 0
      /\ Len(SubSeq(t, from, to)) = IF from <= to THEN to - from + 1 ELSE 0
      /\ \A i \in 1 .. to - from + 1 : SubSeq(s, from, to)[i] = s[from + i - 1]
      /\ \A i \in 1 .. to - from + 1 : SubSeq(t, from, to)[i] = t[from + i - 1]
  <2>1. from \in Int /\ to \in Int
    OBVIOUS
  <2>. QED
    BY <1>1, <2>1, SubSeqProperties
<1>3. CASE from <= to
  <2>1. ASSUME NEW i \in 1 .. to - from + 1
        PROVE  SubSeq(s, from, to)[i] = SubSeq(t, from, to)[i]
    <3>1. from + i - 1 \in from .. to
      OBVIOUS
    <3>2. s[from + i - 1] = t[from + i - 1]
      BY <1>1, <3>1, Zenon
    <3>. QED
      BY <1>2, <3>2, Zenon
  <2>. QED
    BY <1>2, <1>3, <2>1, SeqEqual, Zenon
<1>4. CASE to < from
  BY <1>4, SubSeqEmpty
<1>. QED
  BY <1>3, <1>4

\* An item that is read is still read when more has been added to the packet.
LEMMA ReadsLasts ==
    ASSUME NEW b \in Seq(Nat), NEW c \in Seq(Nat), Begins(b, c),
           NEW R \in Seq(Reports), NEW Q \in Seq(Reports), Begins(R, Q),
           NEW m \in Marks, NEW y \in Marks, Reads(b, R, m, y)
    PROVE  Reads(c, Q, m, y)
<1>1. PICK id \in 0 .. 63, from \in Nat, to \in Nat :
        /\ m.at \in 1 .. Len(b) /\ from <= to + 1 /\ to <= Len(b)
        /\ Item(b, m.at, id, from, to)
        /\ y.at = to + 1
        /\ \/ /\ id = TINYAPP_ITEM_ID_PROFILE /\ from <= to
              /\ y.profile = b[from] /\ y.count = m.count
           \/ /\ id # TINYAPP_ITEM_ID_PROFILE
              /\ y.profile = m.profile /\ y.count = m.count + 1 /\ y.count <= Len(R)
              /\ R[y.count].call = [profile |-> m.profile, item |-> id, bytes |-> SubSeq(b, from, to)]
  BY Zenon DEF Reads
<1>2. m.at \in Nat /\ m.count \in Nat /\ y.count \in Nat /\ Len(b) \in Nat /\ Len(c) \in Nat
      /\ Len(R) \in Nat /\ Len(Q) \in Nat
  BY DEF Marks
<1>3. Len(b) <= Len(c) /\ Len(R) <= Len(Q)
  BY Zenon DEF Begins
<1> DEFINE i == m.at
           k == Len(b)
<1>9. i \in 1 .. k /\ from <= to + 1 /\ to <= k /\ Item(b, i, id, from, to) /\ k \in Nat
  BY <1>1, <1>2, Zenon
<1>10. \A j \in 1 .. k : c[j] = b[j]
  BY SMTT(30) DEF Begins
<1> HIDE DEF i, k
<1>4. from >= i + 1 /\ Item(c, i, id, from, to)
  <2>1. c[i] = b[i]
    BY <1>9, <1>10, Zenon
  <2>2. CASE \E n \in {1, 2, 4} : b[i] = Header(LengthCode[n], id) /\ from = i + 1 /\ to = i + n
    BY <1>9, <2>1, <2>2 DEF Item
  <2>3. CASE b[i] = Header(LENGTH_VAR, id) /\ from = i + 2 /\ b[i + 1] = to - from + 1
    <3>1. i + 1 \in 1 .. k
      BY <1>9, <2>3
    <3>2. c[i + 1] = b[i + 1]
      BY <1>10, <3>1, Zenon
    <3>. QED
      BY <1>9, <2>1, <2>3, <3>2 DEF Item
  <2>. QED
    BY <1>9, <2>2, <2>3, Zenon DEF Item
<1>5. SubSeq(c, from, to) = SubSeq(b, from, to)
  <2>1. from \in Nat \ {0} /\ to \in 0 .. k
    BY <1>9, <1>4
  <2>. QED
    BY <2>1, SubSeqBegins, ZenonT(30) DEF k
<1>6. from <= to => c[from] = b[from]
  <2>1. from <= to => from \in 1 .. k
    BY <1>9, <1>4
  <2>. QED
    BY <1>10, <2>1, Zenon
<1>7. y.count = m.count + 1 /\ y.count <= Len(R) => y.count <= Len(Q) /\ Q[y.count] = R[y.count]
  <2>1. y.count = m.count + 1 /\ y.count <= Len(R) => y.count \in 1 .. Len(R)
    BY <1>2
  <2>. QED
    BY <1>2, <1>3, <2>1 DEF Begins
<1>8. i \in 1 .. Len(c) /\ to <= Len(c)
  <2>1. k <= Len(c) /\ Len(c) \in Nat
    BY <1>2, <1>3, Zenon DEF k
  <2>. QED
    BY <1>9, <2>1
<1>. QED
  BY <1>1, <1>4, <1>5, <1>6, <1>7, <1>8, Zenon DEF Reads, i

\* Every header is a number.
LEMMA HeaderNat ==
    ASSUME NEW id \in 0 .. 63
    PROVE  /\ \A n \in {1, 2, 4} : Header(LengthCode[n], id) \in Nat
           /\ Header(LENGTH_VAR, id) \in Nat
<1>1. LENGTH_VAR \in 0 .. 3 /\ \A n \in {1, 2, 4} : LengthCode[n] \in 0 .. 3
  BY DEF LENGTH_VAR, LengthCode
<1>. QED
  BY <1>1, HeaderParts, Zenon

\* With an item read at the old end that leads to the new one, the packet is
\* framed again.
LEMMA FrameGrows ==
    ASSUME NEW b \in Seq(Nat), NEW c \in Seq(Nat), Begins(b, c),
           NEW R \in Seq(Reports), NEW Q \in Seq(Reports), Begins(R, Q),
           NEW p \in Nat, NEW q \in Nat,
           NEW F \in SUBSET Marks, Framed(b, R, p, F),
           Reads(c, Q, EndMark(b, R, p), EndMark(c, Q, q))
    PROVE  \E G \in SUBSET Marks : Framed(c, Q, q, G)
<1> DEFINE e == EndMark(c, Q, q)
           G == F \cup {e}
<1>1. e \in Marks
  <2>1. Len(c) + 1 \in Nat /\ Len(Q) \in Nat
    OBVIOUS
  <2>. QED
    BY <2>1, Zenon DEF EndMark, Marks
<1> HIDE DEF e
<1>2. ASSUME NEW m \in F PROVE \E y \in G : Reads(c, Q, m, y)
  <2>1. CASE m = EndMark(b, R, p)
    BY <2>1, Zenon DEF e
  <2>2. CASE \E y \in F : Reads(b, R, m, y)
    <3>1. PICK y \in F : Reads(b, R, m, y)
      BY <2>2, Zenon
    <3>2. m \in Marks /\ y \in Marks
      BY Zenon
    <3>3. Reads(c, Q, m, y)
      BY <3>1, <3>2, ReadsLasts, Zenon
    <3>. QED
      BY <3>3, Zenon
  <2>. QED
    BY <2>1, <2>2, Zenon DEF Framed
<1>3. G \in SUBSET Marks /\ FirstMark \in G
  BY <1>1, Zenon DEF Framed
<1>4. \A m \in G : m = e \/ \E y \in G : Reads(c, Q, m, y)
  BY <1>2, Zenon
<1> HIDE DEF G
<1>5. Framed(c, Q, q, G)
  BY <1>3, <1>4, Zenon DEF Framed, e
<1>. QED
  BY <1>3, <1>5, Zenon

\* c is b with a header x and data d added.
WithAdded(c, b, x, d) ==
    /\ c \in Seq(Nat) /\ Len(c) = Len(b) + Len(x) + Len(d)
    /\ Begins(b, c)
    /\ \A i \in 1 .. Len(x) : c[Len(b) + i] = x[i]
    /\ SubSeq(c, Len(b) + Len(x) + 1, Len(b) + Len(x) + Len(d)) = d

\* So it is when the two are copied behind b.
LEMMA Added ==
    ASSUME NEW b \in Seq(Nat), NEW x \in Seq(Nat), NEW d \in Seq(Nat)
    PROVE  WithAdded(b \o (x \o d), b, x, d)
<1> DEFINE xd == x \o d
           c == b \o xd
           j == Len(b)
           k == Len(x)
           l == Len(d)
<1>1. /\ xd \in Seq(Nat) /\ Len(xd) = k + l /\ j \in Nat /\ k \in Nat /\ l \in Nat
      /\ \A i \in 1 .. k + l : xd[i] = IF i <= k THEN x[i] ELSE d[i - k]
  BY ConcatProperties
<1> HIDE DEF xd
<1>2. /\ c \in Seq(Nat) /\ Len(c) = j + Len(xd)
      /\ \A i \in 1 .. j + Len(xd) : c[i] = IF i <= j THEN b[i] ELSE xd[i - j]
  <2>1. xd \in Seq(Nat)
    BY <1>1, Zenon
  <2>. QED
    BY ONLY <2>1, b \in Seq(Nat), ConcatProperties, Zenon
<1> HIDE DEF c, j, k, l
<1>3. Len(c) = j + k + l
  BY <1>1, <1>2
<1>4. \A i \in 1 .. j : c[i] = b[i]
  BY <1>1, <1>2
<1>5. ASSUME NEW i \in 1 .. k + l PROVE c[j + i] = xd[i]
  <2>1. j + i \in 1 .. j + (k + l) /\ ~(j + i <= j) /\ (j + i) - j = i
    BY <1>1
  <2>. QED
    BY <1>1, <1>2, <2>1, Zenon
<1>6. ASSUME NEW i \in 1 .. k PROVE c[j + i] = x[i]
  <2>1. i \in 1 .. k + l /\ i <= k
    BY <1>1
  <2>2. c[j + i] = xd[i]
    BY <1>5, <2>1, Zenon
  <2>3. xd[i] = x[i]
    BY <1>1, <2>1, Zenon
  <2>. QED
    BY <2>2, <2>3, Zenon
<1> DEFINE from == j + k + 1
           to == j + k + l
           s == SubSeq(c, from, to)
<1>7. s = d
  <2>1. from \in Int /\ to \in Int /\ \A i \in from .. to : c[i] \in Nat
    <3>1. \A i \in from .. to : i \in 1 .. Len(c)
      BY <1>1, <1>3
    <3>. QED
      <4>1. c \in Seq(Nat) /\ from \in Int /\ to \in Int
        BY <1>1, <1>2
      <4>. QED
        BY ONLY <3>1, <4>1, SMTT(30)
  <2>2. /\ s \in Seq(Nat)
        /\ Len(s) = IF from <= to THEN to - from + 1 ELSE 0
        /\ \A i \in 1 .. to - from + 1 : s[i] = c[from + i - 1]
    <3>1. IsPart(s, c, from, to)
      BY <2>1, PartTaken, Zenon
    <3>. QED
      BY <3>1, Zenon DEF IsPart
  <2>3. Len(s) = l /\ to - from + 1 = l
    BY <1>1, <2>2
  <2>4. ASSUME NEW i \in 1 .. l PROVE s[i] = d[i]
    <3>1. from + i - 1 = j + (k + i) /\ k + i \in 1 .. k + l /\ ~(k + i <= k) /\ (k + i) - k = i
      BY <1>1
    <3>2. xd[k + i] = d[i]
      BY <1>1, <3>1, Zenon
    <3>3. c[j + (k + i)] = xd[k + i]
      BY <1>5, <3>1, Zenon
    <3>4. s[i] = c[from + i - 1]
      BY <2>2, <2>3, Zenon
    <3>. QED
      BY <3>1, <3>2, <3>3, <3>4, Zenon
  <2> HIDE DEF s
  <2>. QED
    BY <2>2, <2>3, <2>4, SeqEqual, SMTT(30) DEF l
<1>8. Begins(b, c)
  BY <1>1, <1>3, <1>4 DEF Begins, j
<1>. QED
  BY <1>2, <1>3, <1>6, <1>7, <1>8, Zenon DEF WithAdded, c, xd, j, k, l

\* What is reported next is the last of the reports.
LEMMA Appended ==
    ASSUME NEW R \in Seq(Reports), NEW r \in Reports
    PROVE  LET Q == Append(R, r)
           IN  Q \in Seq(Reports) /\ Begins(R, Q) /\ Len(Q) = Len(R) + 1 /\ Q[Len(Q)] = r
<1> DEFINE Q == Append(R, r)
<1>1. /\ Q \in Seq(Reports) /\ Len(Q) = Len(R) + 1 /\ Len(R) \in Nat
      /\ \A i \in 1 .. Len(R) : Q[i] = R[i]
      /\ Q[Len(R) + 1] = r
  BY AppendProperties
<1> HIDE DEF Q
<1>2. Begins(R, Q)
  BY <1>1 DEF Begins
<1>. QED
  BY <1>1, <1>2, Zenon DEF Q

\* The packet c is b with an item of the name added, d behind its header x, and
\* read there as the application reported it.
WithItem(b, x, d, R, p, id, name) ==
    LET c == b \o (x \o d)
        Q == Append(R, [name |-> name, call |-> [profile |-> p, item |-> id, bytes |-> d]])
    IN  /\ c \in Seq(Nat) /\ Len(c) = Len(b) + Len(x \o d)
        /\ Q \in Seq(Reports)
        /\ Begins(b, c) /\ Begins(R, Q)
        /\ Reads(c, Q, EndMark(b, R, p), EndMark(c, Q, p))

\* The item that has been added is read there.
LEMMA ItemRead ==
    ASSUME NEW b \in Seq(Nat), NEW x, NEW d \in Seq(Nat),
           NEW R \in Seq(Reports), NEW p \in Nat,
           NEW name \in Names, NEW party \in Parties, NEW id, Numbered(party, name, p, id),
           \/ \E n \in {1, 2, 4} : x = <<Header(LengthCode[n], id)>> /\ Len(d) = n
           \/ x = <<Header(LENGTH_VAR, id), Len(d)>>
    PROVE  WithItem(b, x, d, R, p, id, name)
<1> DEFINE call == [profile |-> p, item |-> id, bytes |-> d]
           r == [name |-> name, call |-> call]
           c == b \o (x \o d)
           Q == Append(R, r)
           j == Len(b)
           k == Len(x)
           l == Len(d)
           m == EndMark(b, R, p)
           y == EndMark(c, Q, p)
<1>1. id \in 0 .. 13
  BY NameFound, Zenon DEF InTable
<1>14. id \in 0 .. 63 /\ id # TINYAPP_ITEM_ID_PROFILE
  <2>1. \A i \in 0 .. 13 : i \in 0 .. 63 /\ i # 63
    OBVIOUS
  <2>. QED
    BY ONLY <1>1, <2>1, Zenon DEF TINYAPP_ITEM_ID_PROFILE
<1>2. x \in Seq(Nat) /\ k \in 1 .. 2 /\ j \in Nat /\ l \in Nat
  <2>1. CASE \E n \in {1, 2, 4} : x = <<Header(LengthCode[n], id)>> /\ Len(d) = n
    <3>1. PICK n \in {1, 2, 4} : x = <<Header(LengthCode[n], id)>>
      BY <2>1, Zenon
    <3>2. Header(LengthCode[n], id) \in Nat
      BY <1>14, HeaderNat, Zenon
    <3>. QED
      BY <3>1, <3>2
  <2>2. CASE x = <<Header(LENGTH_VAR, id), Len(d)>>
    <3>1. Header(LENGTH_VAR, id) \in Nat
      BY <1>14, HeaderNat, Zenon
    <3>2. Len(d) \in Nat
      OBVIOUS
    <3>. QED
      BY <2>2, <3>1, <3>2
  <2>. QED
    BY <2>1, <2>2, Zenon
<1>3. /\ c \in Seq(Nat) /\ Len(c) = j + k + l /\ Begins(b, c)
      /\ \A i \in 1 .. k : c[j + i] = x[i]
      /\ SubSeq(c, j + k + 1, j + k + l) = d
  <2>1. WithAdded(c, b, x, d)
    BY <1>2, Added, Zenon
  <2>. QED
    BY <2>1, Zenon DEF WithAdded
<1>4. Len(c) = Len(b) + Len(x \o d)
  BY <1>2, <1>3
<1>5. r \in Reports
  <2>1. id \in Nat
    BY ONLY <1>14
  <2>2. call \in Calls
    BY <2>1, Zenon DEF Calls
  <2> HIDE DEF call
  <2>. QED
    BY <2>2, Zenon DEF Reports
<1>17. r.call = call
  BY Zenon
<1> HIDE DEF r
<1>6. Q \in Seq(Reports) /\ Begins(R, Q) /\ Len(Q) = Len(R) + 1 /\ Q[Len(Q)] = r
  BY <1>5, Appended, Zenon
<1> DEFINE h == Len(R)
<1>7. m.at = j + 1 /\ m.profile = p /\ m.count = h
  BY Zenon DEF EndMark
<1>8. y.at = Len(c) + 1 /\ y.profile = p /\ y.count = Len(Q)
  BY Zenon DEF EndMark
<1>9. h \in Nat
  OBVIOUS
<1> HIDE DEF c, Q, j, k, l, m, y, h
<1> DEFINE from == j + k + 1
           to == j + k + l
<1>10. Item(c, j + 1, id, from, to)
  <2>1. c[j + 1] = x[1]
    BY <1>2, <1>3
  <2>2. CASE \E n \in {1, 2, 4} : x = <<Header(LengthCode[n], id)>> /\ Len(d) = n
    <3>1. PICK n \in {1, 2, 4} : x = <<Header(LengthCode[n], id)>> /\ l = n
      BY <2>2, Zenon DEF l
    <3>2. x[1] = Header(LengthCode[n], id) /\ k = 1
      BY <3>1, Zenon DEF k
    <3>3. from = (j + 1) + 1 /\ to = (j + 1) + n
      BY <1>2, <3>1, <3>2, Zenon
    <3>. QED
      BY <2>1, <3>2, <3>3, Zenon DEF Item
  <2>3. CASE x = <<Header(LENGTH_VAR, id), Len(d)>>
    <3>1. x[1] = Header(LENGTH_VAR, id) /\ x[2] = l /\ k = 2
      BY <2>3, Zenon DEF k, l
    <3>2. c[j + 2] = x[2]
      BY <1>3, <3>1
    <3>3. from = (j + 1) + 2 /\ (j + 1) + 1 = j + 2 /\ l = to - from + 1
      BY <1>2, <3>1
    <3>4. c[(j + 1) + 1] = to - from + 1
      BY <3>1, <3>2, <3>3, Zenon
    <3>. QED
      BY <2>1, <3>1, <3>3, <3>4, Zenon DEF Item
  <2>. QED
    BY <2>2, <2>3, Zenon
<1>11. /\ from \in Nat /\ to \in Nat /\ m.at \in 1 .. Len(c) /\ from <= to + 1 /\ to <= Len(c)
       /\ y.at = to + 1
  BY <1>2, <1>3, <1>7, <1>8
<1>12. y.count = m.count + 1 /\ y.count <= Len(Q) /\ Q[y.count] = r
  BY <1>6, <1>7, <1>8, <1>9 DEF h
<1>13. r.call = [profile |-> m.profile, item |-> id, bytes |-> SubSeq(c, from, to)]
  BY <1>3, <1>7, <1>17, Zenon
<1>15. Item(c, m.at, id, from, to) /\ y.profile = m.profile
  BY <1>7, <1>8, <1>10, Zenon
<1> HIDE DEF from, to
<1>16. Reads(c, Q, m, y)
  BY <1>11, <1>12, <1>13, <1>14, <1>15, Zenon DEF Reads
<1>. QED
  BY <1>3, <1>4, <1>6, <1>16, Zenon DEF WithItem, c, Q, m, y, r, call

\* A profile that has been selected is read there.
LEMMA ProfileRead ==
    ASSUME NEW b \in Seq(Nat), NEW R \in Seq(Reports), NEW p \in Nat, NEW q \in Nat
    PROVE  LET c == b \o <<Header(LengthCode[1], TINYAPP_ITEM_ID_PROFILE), q>>
           IN  /\ c \in Seq(Nat) /\ Len(c) = Len(b) + 2
               /\ Begins(b, c) /\ Begins(R, R)
               /\ Reads(c, R, EndMark(b, R, p), EndMark(c, R, q))
<1> DEFINE id == TINYAPP_ITEM_ID_PROFILE
           x == <<Header(LengthCode[1], id), q>>
           c == b \o x
           j == Len(b)
           m == EndMark(b, R, p)
           y == EndMark(c, R, q)
<1>1. id \in 0 .. 63
  BY DEF TINYAPP_ITEM_ID_PROFILE
<1>2. x \in Seq(Nat) /\ Len(x) = 2 /\ x[1] = Header(LengthCode[1], id) /\ x[2] = q
  <2>1. Header(LengthCode[1], id) \in Nat
    BY <1>1, HeaderNat, Zenon
  <2>. QED
    BY <2>1
<1> HIDE DEF x
<1>3. /\ c \in Seq(Nat) /\ Len(c) = j + 2 /\ j \in Nat
      /\ \A i \in 1 .. j + 2 : c[i] = IF i <= j THEN b[i] ELSE x[i - j]
  <2>1. x \in Seq(Nat)
    BY <1>2, Zenon
  <2>2. /\ c \in Seq(Nat) /\ Len(c) = j + Len(x)
        /\ \A i \in 1 .. j + Len(x) : c[i] = IF i <= j THEN b[i] ELSE x[i - j]
    BY ONLY <2>1, b \in Seq(Nat), ConcatProperties, Zenon
  <2>. QED
    BY <1>2, <2>2
<1>4. m.at = j + 1 /\ m.count = Len(R) /\ y.at = Len(c) + 1 /\ y.profile = q /\ y.count = Len(R)
  BY Zenon DEF EndMark
<1>5. Len(R) \in Nat
  OBVIOUS
<1>6. Begins(R, R)
  BY <1>5 DEF Begins
<1> HIDE DEF c, j, m, y, id
<1>7. c[j + 1] = x[1] /\ c[j + 2] = x[2]
  <2>1. /\ j + 1 \in 1 .. j + 2 /\ ~(j + 1 <= j) /\ (j + 1) - j = 1
        /\ j + 2 \in 1 .. j + 2 /\ ~(j + 2 <= j) /\ (j + 2) - j = 2
    BY <1>3
  <2>. QED
    BY <1>3, <2>1, Zenon
<1>8. Begins(b, c)
  BY <1>3 DEF Begins, j
<1> DEFINE from == j + 2
<1>9. Item(c, m.at, id, from, from)
  <2>1. c[m.at] = Header(LengthCode[1], id)
    BY <1>2, <1>4, <1>7, Zenon
  <2>2. from = m.at + 1
    BY <1>3, <1>4
  <2>. QED
    BY <2>1, <2>2, Zenon DEF Item
<1>10. /\ from \in Nat /\ m.at \in 1 .. Len(c) /\ from <= from + 1 /\ from <= Len(c) /\ from <= from
       /\ y.at = from + 1
  BY <1>3, <1>4
<1>11. y.profile = c[from] /\ y.count = m.count
  BY <1>2, <1>4, <1>7, Zenon
<1> HIDE DEF from
<1>12. Reads(c, R, m, y)
  BY <1>1, <1>9, <1>10, <1>11, Zenon DEF Reads, id
<1>. QED
  BY <1>3, <1>6, <1>8, <1>12, Zenon DEF c, x, m, y, id, j

----------------------------------------------------------------------------
(* What the decoder finds at a mark. *)

\* A part of what is left is a part of the packet.
LEMMA PartOfRest ==
    ASSUME NEW b \in Seq(Nat), NEW i \in 1 .. Len(b), NEW r, r = SubSeq(b, i, Len(b)),
           NEW u \in Nat \ {0}, NEW v \in Nat, v <= Len(b) - i + 1
    PROVE  /\ Len(r) = Len(b) - i + 1
           /\ \A j \in 1 .. Len(b) - i + 1 : r[j] = b[i + j - 1]
           /\ SubSeq(r, u, v) = SubSeq(b, i + u - 1, i + v - 1)
<1> DEFINE k == Len(b)
           s == SubSeq(r, u, v)
           t == SubSeq(b, i + u - 1, i + v - 1)
<1>1. k \in Nat /\ i \in 1 .. k /\ \A j \in 1 .. k : b[j] \in Nat
  OBVIOUS
<1>2. /\ Len(r) = k - i + 1
      /\ \A j \in 1 .. k - i + 1 : r[j] = b[i + j - 1]
  <2>1. \A j \in i .. k : b[j] \in Nat
    BY <1>1
  <2>2. i \in Int /\ k \in Int /\ i <= k
    BY <1>1
  <2>3. /\ Len(SubSeq(b, i, k)) = IF i <= k THEN k - i + 1 ELSE 0
        /\ \A j \in 1 .. k - i + 1 : SubSeq(b, i, k)[j] = b[i + j - 1]
    <3>1. IsPart(SubSeq(b, i, k), b, i, k)
      BY <2>1, <2>2, PartTaken, Zenon
    <3>. QED
      BY <3>1, Zenon DEF IsPart
  <2>. QED
    BY <2>2, <2>3, Zenon
<1> HIDE DEF k
<1>3. \A j \in 1 .. k - i + 1 : r[j] \in Nat
  <2>1. ASSUME NEW j \in 1 .. k - i + 1 PROVE i + j - 1 \in 1 .. k
    BY <1>1
  <2>. QED
    BY <1>1, <1>2, <2>1, Zenon
<1>4. v <= k - i + 1 /\ u \in Int /\ v \in Int /\ i + u - 1 \in Int /\ i + v - 1 \in Int
  BY <1>1 DEF k
<1>5. /\ s \in Seq(Nat)
      /\ Len(s) = IF u <= v THEN v - u + 1 ELSE 0
      /\ \A j \in 1 .. v - u + 1 : s[j] = r[u + j - 1]
  <2>1. \A j \in u .. v : r[j] \in Nat
    BY <1>1, <1>3, <1>4
  <2>. QED
    <3>1. IsPart(s, r, u, v)
      BY <1>4, <2>1, PartTaken, Zenon
    <3>. QED
      BY <3>1, Zenon DEF IsPart
<1>6. /\ t \in Seq(Nat)
      /\ Len(t) = IF i + u - 1 <= i + v - 1 THEN (i + v - 1) - (i + u - 1) + 1 ELSE 0
      /\ \A j \in 1 .. (i + v - 1) - (i + u - 1) + 1 : t[j] = b[(i + u - 1) + j - 1]
  <2>1. \A j \in i + u - 1 .. i + v - 1 : j \in 1 .. k
    BY <1>1, <1>4
  <2>2. \A j \in i + u - 1 .. i + v - 1 : b[j] \in Nat
    BY <1>1, <2>1, Zenon
  <2>. QED
    <3>1. IsPart(t, b, i + u - 1, i + v - 1)
      BY <1>4, <2>2, PartTaken, Zenon
    <3>. QED
      BY <3>1, Zenon DEF IsPart
<1>7. CASE u <= v
  <2> HIDE DEF s, t
  <2>1. Len(s) = v - u + 1 /\ Len(t) = v - u + 1
    BY <1>1, <1>4, <1>5, <1>6, <1>7
  <2>2. ASSUME NEW j \in 1 .. v - u + 1 PROVE s[j] = t[j]
    <3>1. /\ u + j - 1 \in 1 .. k - i + 1 /\ i + (u + j - 1) - 1 = (i + u - 1) + j - 1
          /\ j \in 1 .. (i + v - 1) - (i + u - 1) + 1
      BY <1>1, <1>4
    <3>2. s[j] = r[u + j - 1] /\ r[u + j - 1] = b[i + (u + j - 1) - 1]
      BY <1>2, <1>5, <3>1, Zenon
    <3>3. t[j] = b[(i + u - 1) + j - 1]
      BY <1>6, <3>1, Zenon
    <3>. QED
      BY <3>1, <3>2, <3>3, Zenon
  <2>3. s = t
    BY <1>5, <1>6, <2>1, <2>2, SeqEqual, SMTT(30)
  <2>. QED
    BY <1>2, <2>3, Zenon DEF k, s, t
<1>8. CASE v < u
  <2>1. s = <<>> /\ t = <<>>
    <3>1. i + v - 1 < i + u - 1
      BY <1>1, <1>4, <1>8
    <3>. QED
      BY <1>4, <1>8, <3>1, SubSeqEmpty, Zenon
  <2>. QED
    BY <1>2, <2>1, Zenon DEF k
<1>. QED
  BY <1>7, <1>8

\* An item starts packet b's rest r, at byte i.
ItemAt(b, i, r, id, from, to) ==
    /\ b \in Seq(Nat) /\ i \in 1 .. Len(b) /\ r = SubSeq(b, i, Len(b))
    /\ id \in 0 .. 63 /\ from \in Nat /\ to \in Nat
    /\ from <= to + 1 /\ to <= Len(b) /\ Item(b, i, id, from, to)

\* tinyapp_deserialise finds it there.
Found(b, i, r, id, from, to) ==
    /\ Len(r) = Len(b) - i + 1
    /\ r[1] % ID_RANGE = id
    /\ from > i
    /\ Start(r) = from - i + 1 /\ Length(r) = to - from + 1
    /\ SubSeq(r, Start(r), Start(r) + Length(r) - 1) = SubSeq(b, from, to)
    /\ SubSeq(r, Start(r) + Length(r), Len(r)) = SubSeq(b, to + 1, Len(b))

\* The decoder finds the item that the mark is followed by.
LEMMA Decodes ==
    ASSUME NEW b, NEW i, NEW r, NEW id, NEW from, NEW to, ItemAt(b, i, r, id, from, to)
    PROVE  Found(b, i, r, id, from, to)
<1> DEFINE k == Len(b)
<1>0. /\ b \in Seq(Nat) /\ i \in 1 .. Len(b) /\ r = SubSeq(b, i, Len(b))
      /\ id \in 0 .. 63 /\ from \in Nat /\ to \in Nat /\ Item(b, i, id, from, to)
  BY Zenon DEF ItemAt
<1>1. k \in Nat /\ i \in 1 .. k /\ from <= to + 1 /\ to <= k
  BY <1>0 DEF ItemAt
<1> USE <1>0
<1>2. Len(r) = k - i + 1 /\ \A j \in 1 .. k - i + 1 : r[j] = b[i + j - 1]
  <2>1. 1 \in Nat \ {0} /\ 0 \in Nat /\ 0 <= Len(b) - i + 1
    BY <1>1
  <2>. QED
    BY <2>1, PartOfRest, SMTT(30)
<1> HIDE DEF k
<1>3. r[1] = b[i]
  <2>1. 1 \in 1 .. k - i + 1 /\ i + 1 - 1 = i
    BY <1>1
  <2>. QED
    BY <1>2, <2>1, Zenon
<1>4. r[1] % ID_RANGE = id /\ from > i /\ Start(r) = from - i + 1 /\ Length(r) = to - from + 1
  <2>1. CASE \E n \in {1, 2, 4} : b[i] = Header(LengthCode[n], id) /\ from = i + 1 /\ to = i + n
    <3>1. PICK n \in {1, 2, 4} : b[i] = Header(LengthCode[n], id) /\ from = i + 1 /\ to = i + n
      BY <2>1, Zenon
    <3>2. LengthCode[n] \in 0 .. 3 /\ LengthCode[n] # LENGTH_VAR
      BY DEF LengthCode, LENGTH_VAR
    <3>3. r[1] \div ID_RANGE = LengthCode[n] /\ r[1] % ID_RANGE = id
      BY <1>3, <3>1, <3>2, HeaderParts, Zenon
    <3>4. (CHOOSE q \in {1, 2, 4} : LengthCode[q] = LengthCode[n]) = n
      BY Lengths, Zenon
    <3>5. Start(r) = 2 /\ Length(r) = n
      BY <3>2, <3>3, <3>4, Zenon DEF Start, Length
    <3>. QED
      BY <1>1, <3>1, <3>3, <3>5
  <2>2. CASE b[i] = Header(LENGTH_VAR, id) /\ from = i + 2 /\ b[i + 1] = to - from + 1
    <3>1. LENGTH_VAR \in 0 .. 3
      BY DEF LENGTH_VAR
    <3>2. r[1] \div ID_RANGE = LENGTH_VAR /\ r[1] % ID_RANGE = id
      BY <1>3, <2>2, <3>1, HeaderParts, Zenon
    <3>3. 2 \in 1 .. k - i + 1 /\ i + 2 - 1 = i + 1
      BY <1>1, <2>2
    <3>4. r[2] = b[i + 1]
      BY <1>2, <3>3, Zenon
    <3>5. Start(r) = 3 /\ Length(r) = to - from + 1
      BY <2>2, <3>2, <3>4, Zenon DEF Start, Length
    <3>. QED
      BY <1>1, <2>2, <3>2, <3>5
  <2>. QED
    BY <2>1, <2>2, Zenon DEF Item
<1> DEFINE u == from - i + 1
           v == to - i + 1
<1>5. /\ u \in Nat \ {0} /\ v \in Nat /\ v <= k - i + 1 /\ i + u - 1 = from /\ i + v - 1 = to
      /\ u + (to - from + 1) - 1 = v /\ u + (to - from + 1) = v + 1
  <2>1. k \in Nat /\ i \in Nat \ {0} /\ i <= k /\ from > i /\ from <= to + 1 /\ to <= k
    BY <1>1, <1>4
  <2>. QED
    BY ONLY <2>1, from \in Nat, to \in Nat
<1>6. SubSeq(r, u, v) = SubSeq(b, from, to)
  <2>1. SubSeq(r, u, v) = SubSeq(b, i + u - 1, i + v - 1)
    BY <1>5, PartOfRest DEF k
  <2>. QED
    BY <1>5, <2>1, Zenon
<1>7. SubSeq(r, v + 1, k - i + 1) = SubSeq(b, to + 1, k)
  <2> DEFINE w == k - i + 1
             z == v + 1
  <2>1. z \in Nat \ {0} /\ w \in Nat /\ w <= k - i + 1 /\ i + z - 1 = to + 1 /\ i + w - 1 = k
    BY <1>1, <1>5
  <2> HIDE DEF w, z
  <2>2. SubSeq(r, z, w) = SubSeq(b, i + z - 1, i + w - 1)
    BY ONLY <1>0, <2>1, PartOfRest DEF k
  <2>. QED
    BY <2>1, <2>2, Zenon DEF w, z
<1>8. Start(r) = u /\ Start(r) + Length(r) - 1 = v /\ Start(r) + Length(r) = v + 1
  BY <1>4, <1>5, Zenon
<1> HIDE DEF u, v
<1>. QED
  BY <1>2, <1>4, <1>6, <1>7, <1>8, Zenon DEF k, Found

----------------------------------------------------------------------------
(* The invariant, action by action. *)

\* A packet of which only the flags are written.
LEMMA EmptyFramed ==
    /\ <<0>> \in Seq(Nat) /\ Len(<<0>>) \in 1 .. SIZE /\ <<>> \in Seq(Reports)
    /\ \E F \in SUBSET Marks : Framed(<<0>>, <<>>, 0, F)
<1>1. FirstMark \in Marks /\ FirstMark = EndMark(<<0>>, <<>>, 0)
  BY DEF FirstMark, Marks, EndMark
<1> DEFINE F == {FirstMark}
<1>2. F \in SUBSET Marks /\ Framed(<<0>>, <<>>, 0, F)
  BY <1>1, Zenon DEF Framed
<1>3. <<0>> \in Seq(Nat) /\ Len(<<0>>) \in 1 .. SIZE /\ <<>> \in Seq(Reports)
  BY TinyAppConstants
<1>. QED
  BY <1>2, <1>3, Zenon

\* An item of the current profile is added, its header before it.
LEMMA ReportStep ==
    ASSUME AppInv, NEW name \in Names, NEW x, NEW d \in Seq(Nat),
           \/ \E n \in {1, 2, 4} : x = <<Header(LengthCode[n], Id(name))>> /\ Len(d) = n
           \/ x = <<Header(LENGTH_VAR, Id(name)), Len(d)>>,
           Report(name, d), Put(x \o d), phase = "encoding", phase' = phase
    PROVE  AppInv'
<1> DEFINE b == packet
           R == reported
           p == current
           c == b \o (x \o d)
           r == [name |-> name, call |-> [profile |-> p, item |-> Id(name), bytes |-> d]]
           Q == Append(R, r)
<1>1. b \in Seq(Nat) /\ Len(b) \in 1 .. SIZE /\ R \in Seq(Reports) /\ p \in 0 .. 6 /\ p \in Nat
  BY DEF AppInv, PacketInv
<1>9. sender \in Parties /\ \A i \in 1 .. Len(R) : Labelled(sender, R[i])
  BY Zenon DEF AppInv, PacketInv
<1>2. PICK F \in SUBSET Marks : Framed(b, R, p, F)
  BY Zenon DEF AppInv
<1>3. /\ packet' = c /\ reported' = Q /\ current' = p /\ sender' = sender
      /\ tinyapp_get_profile_id(name[1]) = p /\ Id(name) = tinyapp_get_item_id(sender, p, name[2])
      /\ Len(b) + Len(x \o d) <= SIZE
  BY Zenon DEF Report, Put, Id
<1>4. /\ c \in Seq(Nat) /\ Len(c) = Len(b) + Len(x \o d) /\ Q \in Seq(Reports)
      /\ Begins(b, c) /\ Begins(R, Q)
      /\ Reads(c, Q, EndMark(b, R, p), EndMark(c, Q, p))
  <2> DEFINE id == Id(name)
  <2>1. /\ Numbered(sender, name, p, id)
        /\ \/ \E n \in {1, 2, 4} : x = <<Header(LengthCode[n], id)>> /\ Len(d) = n
           \/ x = <<Header(LENGTH_VAR, id), Len(d)>>
    BY <1>3, Zenon DEF Numbered
  <2>2. b \in Seq(Nat) /\ R \in Seq(Reports) /\ p \in Nat
    BY <1>1, <1>3, Zenon
  <2> HIDE DEF id, b, R, p
  <2>3. WithItem(b, x, d, R, p, id, name)
    BY ONLY <1>9, <2>1, <2>2, name \in Names, d \in Seq(Nat), ItemRead, Zenon
  <2>. QED
    BY <2>3, Zenon DEF WithItem, id
<1>10. Labelled(sender, r)
  BY <1>3, Zenon DEF Labelled, Numbered
<1>11. r \in Reports
  <2>1. Id(name) \in 0 .. 13
    BY <1>3, <1>9, NameFound, Zenon DEF Numbered, InTable
  <2>2. Id(name) \in Nat
    BY <2>1
  <2> DEFINE call == [profile |-> p, item |-> Id(name), bytes |-> d]
  <2>3. call \in Calls
    BY <1>1, <2>2, Zenon DEF Calls
  <2> HIDE DEF call
  <2>. QED
    BY <2>3, Zenon DEF Reports, call
<1> HIDE DEF b, R, p, c, Q, r
<1>12. \A i \in 1 .. Len(Q) : Labelled(sender, Q[i])
  <2>1. /\ Len(Q) = Len(R) + 1 /\ Len(R) \in Nat
        /\ \A i \in 1 .. Len(R) : Q[i] = R[i]
        /\ Q[Len(R) + 1] = r
    BY <1>1, <1>11, AppendProperties DEF Q
  <2>2. \A i \in 1 .. Len(Q) : i \in 1 .. Len(R) \/ i = Len(R) + 1
    BY <2>1
  <2>. QED
    BY <1>9, <1>10, <2>1, <2>2, Zenon
<1>5. \E G \in SUBSET Marks : Framed(c, Q, p, G)
  BY ONLY <1>1, <1>2, <1>4, FrameGrows, Zenon
<1>6. Len(c) \in 1 .. SIZE
  <2>1. Len(c) \in Nat /\ Len(b) \in Nat /\ Len(b) <= Len(c) /\ SIZE \in Nat
    BY <1>1, <1>4, TinyAppConstants DEF Begins
  <2>. QED
    BY <1>1, <1>3, <1>4, <2>1
<1>7. PacketInv'
  BY <1>1, <1>3, <1>4, <1>6, <1>9, <1>12, Zenon DEF PacketInv
<1>8. phase' # "decoding"
  BY Zenon
<1>. QED
  BY <1>3, <1>5, <1>7, <1>8, Zenon DEF AppInv

\* tinyapp_serialise8, 16 and 32 keep the invariant.
LEMMA SerialiseIntInv ==
    ASSUME AppInv, NEW name \in Names, NEW n \in {1, 2, 4}, NEW value \in Values[n],
           SerialiseInt(name, n, value)
    PROVE  AppInv'
<1> DEFINE d == Bytes(value, n)
           x == <<Header(LengthCode[n], Id(name))>>
<1>1. value \in Nat
  BY TinyAppConstants, Zenon
<1>2. d \in Seq(Nat) /\ Len(d) = n
  BY <1>1, BytesType, Zenon
<1>3. Report(name, d) /\ Put(x \o d) /\ phase = "encoding" /\ phase' = phase
  BY Zenon DEF SerialiseInt
<1>4. \E i \in {1, 2, 4} : x = <<Header(LengthCode[i], Id(name))>> /\ Len(d) = i
  BY <1>2, Zenon
<1> HIDE DEF d, x
<1>. QED
  BY <1>2, <1>3, <1>4, ReportStep, Zenon

\* The strings keep it: their length is in the byte after the header.
LEMMA SerialiseStringInv ==
    ASSUME AppInv, NEW name \in Names, NEW str \in Strings, SerialiseString(name, str)
    PROVE  AppInv'
<1> DEFINE x == <<Header(LENGTH_VAR, Id(name)), Len(str)>>
<1>1. str \in Seq(Nat)
  <2>1. str \in Seq(0 .. 255)
    BY TinyAppConstants, Zenon
  <2> DEFINE B == 0 .. 255
  <2>2. B \subseteq Nat
    OBVIOUS
  <2> HIDE DEF B
  <2>. QED
    BY <2>1, <2>2, SeqMonotonic, Zenon DEF B
<1>2. Report(name, str) /\ Put(x \o str) /\ phase = "encoding" /\ phase' = phase
  BY Zenon DEF SerialiseString
<1>3. x = <<Header(LENGTH_VAR, Id(name)), Len(str)>>
  BY Zenon
<1> HIDE DEF x
<1>. QED
  BY <1>1, <1>2, <1>3, ReportStep, Zenon

\* The selection of a profile keeps it.
LEMMA SelectProfileInv ==
    ASSUME AppInv, NEW name \in Names, SelectProfile(name[1])
    PROVE  AppInv'
<1> DEFINE b == packet
           R == reported
           p == current
           q == tinyapp_get_profile_id(name[1])
           c == b \o <<Header(LengthCode[1], TINYAPP_ITEM_ID_PROFILE), q>>
<1>1. b \in Seq(Nat) /\ Len(b) \in 1 .. SIZE /\ R \in Seq(Reports) /\ p \in Nat
  BY DEF AppInv, PacketInv
<1>2. PICK F \in SUBSET Marks : Framed(b, R, p, F)
  BY Zenon DEF AppInv
<1>3. /\ packet' = c /\ Len(b) + 2 <= SIZE /\ current' = q /\ reported' = R /\ phase' # "decoding"
      /\ sender' = sender
  BY Zenon DEF SelectProfile, Put
<1>9. sender \in Parties /\ \A i \in 1 .. Len(R) : Labelled(sender, R[i])
  BY Zenon DEF AppInv, PacketInv
<1>4. q \in 0 .. 6 /\ q \in Nat
  <2>1. q \in 0 .. 6
    BY <1>9, NameFound, Zenon DEF Numbered, InTable
  <2>. QED
    BY <2>1
<1>5. /\ c \in Seq(Nat) /\ Len(c) = Len(b) + 2 /\ Begins(b, c) /\ Begins(R, R)
      /\ Reads(c, R, EndMark(b, R, p), EndMark(c, R, q))
  BY ONLY <1>1, <1>4, ProfileRead, Zenon
<1> HIDE DEF b, R, p, q, c
<1>6. \E G \in SUBSET Marks : Framed(c, R, q, G)
  BY ONLY <1>1, <1>2, <1>4, <1>5, FrameGrows, SMTT(30)
<1>7. Len(c) \in 1 .. SIZE
  BY <1>1, <1>3, <1>5, TinyAppConstants
<1>8. PacketInv'
  BY <1>1, <1>3, <1>4, <1>5, <1>7, <1>9, Zenon DEF PacketInv
<1>. QED
  BY <1>3, <1>6, <1>8, Zenon DEF AppInv

\* tinyapp_deserialise starts at the first mark.
LEMMA DeserialiseInv ==
    ASSUME AppInv, Deserialise
    PROVE  AppInv'
<1>1. /\ packet' = packet /\ current' = current /\ reported' = reported /\ sender' = sender
      /\ rest' = Tail(packet) /\ profile' = 0 /\ items' = <<>>
  BY Zenon DEF Deserialise
<1>2. packet \in Seq(Nat) /\ Len(packet) \in 1 .. SIZE /\ reported \in Seq(Reports)
  BY Zenon DEF AppInv, PacketInv
<1>3. packet # <<>>
  BY <1>2
<1>4. Tail(packet) = SubSeq(packet, 2, Len(packet))
  BY <1>2, <1>3, TailIsSubSeq, Zenon
<1>5. Passed(reported, 0, <<>>) /\ 0 <= Len(reported)
  BY <1>2 DEF Passed
<1>6. FirstMark.at = 2 /\ FirstMark.profile = 0 /\ FirstMark.count = 0
  BY Zenon DEF FirstMark
<1>7. AtMark(FirstMark)'
  BY <1>1, <1>4, <1>5, <1>6, Zenon DEF AtMark
<1>8. PICK F \in SUBSET Marks : Framed(packet, reported, current, F)
  BY Zenon DEF AppInv
<1>9. FirstMark \in F /\ Framed(packet', reported', current', F)
  BY <1>1, <1>8, Zenon DEF Framed
<1>10. PacketInv'
  BY <1>1, Zenon DEF AppInv, PacketInv
<1>. QED
  BY <1>7, <1>9, <1>10, Zenon DEF AppInv

\* The decoder has passed on the items before the mark, and goes on to the
\* next mark with one more, or with another profile.
LEMMA NextItemInv ==
    ASSUME AppInv, NextItem
    PROVE  AppInv'
<1> DEFINE b == packet
           R == reported
           p == current
           r == rest
<1>1. PICK F \in SUBSET Marks : Framed(b, R, p, F) /\ \E m \in F : AtMark(m)
  BY Zenon DEF AppInv, NextItem
<1>2. PICK m \in F : AtMark(m)
  BY <1>1, Zenon
<1>3. m \in Marks /\ m.at \in Nat /\ m.count \in Nat
  BY Zenon DEF Marks
<1>4. /\ b \in Seq(Nat) /\ Len(b) \in Nat /\ R \in Seq(Reports) /\ Len(R) \in Nat
      /\ r # <<>> /\ r = SubSeq(b, m.at, Len(b)) /\ profile = m.profile
      /\ m.count <= Len(R) /\ Passed(R, m.count, items)
  <2>1. b \in Seq(Nat) /\ R \in Seq(Reports)
    BY Zenon DEF AppInv, PacketInv
  <2>2. Len(b) \in Nat /\ Len(R) \in Nat
    BY <2>1
  <2>3. r # <<>>
    BY Zenon DEF NextItem
  <2>. QED
    BY <1>2, <2>1, <2>2, <2>3, Zenon DEF AtMark
<1>5. m # EndMark(b, R, p)
  <2>1. SUFFICES ASSUME m = EndMark(b, R, p) PROVE FALSE
    BY Zenon
  <2>2. m.at = Len(b) + 1
    BY <2>1, Zenon DEF EndMark
  <2>3. m.at \in Int /\ Len(b) \in Int /\ Len(b) < m.at
    BY <1>4, <2>2
  <2>4. SubSeq(b, m.at, Len(b)) = <<>>
    BY <2>3, SubSeqEmpty, Zenon
  <2>. QED
    BY <1>4, <2>4, Zenon
<1>6. PICK y \in F : Reads(b, R, m, y)
  BY <1>1, <1>5, Zenon DEF Framed
<1>7. PICK id \in 0 .. 63, from \in Nat, to \in Nat :
        /\ m.at \in 1 .. Len(b) /\ from <= to + 1 /\ to <= Len(b)
        /\ Item(b, m.at, id, from, to)
        /\ y.at = to + 1
        /\ \/ /\ id = TINYAPP_ITEM_ID_PROFILE /\ from <= to
              /\ y.profile = b[from] /\ y.count = m.count
           \/ /\ id # TINYAPP_ITEM_ID_PROFILE
              /\ y.profile = m.profile /\ y.count = m.count + 1 /\ y.count <= Len(R)
              /\ R[y.count].call = [profile |-> m.profile, item |-> id, bytes |-> SubSeq(b, from, to)]
  BY <1>6, Zenon DEF Reads
<1> DEFINE data == SubSeq(b, from, to)
           call == [profile |-> profile, item |-> id, bytes |-> data]
<1>8. /\ r[1] % ID_RANGE = id /\ from > m.at
      /\ SubSeq(r, Start(r), Start(r) + Length(r) - 1) = data
      /\ SubSeq(r, Start(r) + Length(r), Len(r)) = SubSeq(b, to + 1, Len(b))
  <2> DEFINE i == m.at
  <2>1. i \in 1 .. Len(b) /\ r = SubSeq(b, i, Len(b)) /\ from <= to + 1 /\ to <= Len(b) /\ Item(b, i, id, from, to)
    BY <1>4, <1>7, Zenon
  <2>2. b \in Seq(Nat)
    BY <1>4, Zenon
  <2> HIDE DEF i, b, r
  <2>3. /\ r[1] % ID_RANGE = id /\ from > i
        /\ SubSeq(r, Start(r), Start(r) + Length(r) - 1) = SubSeq(b, from, to)
        /\ SubSeq(r, Start(r) + Length(r), Len(r)) = SubSeq(b, to + 1, Len(b))
    <3>1. ItemAt(b, i, r, id, from, to)
      BY <2>1, <2>2, Zenon DEF ItemAt
    <3>2. Found(b, i, r, id, from, to)
      BY <3>1, Decodes, Zenon
    <3>. QED
      BY <3>2, Zenon DEF Found
  <2>. QED
    BY <2>3, Zenon DEF i, b, r, data
<1>14. data \in Seq(Nat)
  <2>1. \A i \in from .. to : b[i] \in Nat
    <3>1. m.at \in Nat /\ from > m.at /\ to <= Len(b) /\ b \in Seq(Nat) /\ Len(b) \in Nat
      BY <1>3, <1>4, <1>7, <1>8, Zenon
    <3>2. \A i \in from .. to : i \in 1 .. Len(b)
      BY ONLY <3>1, from \in Nat, to \in Nat, SMTT(30)
    <3>. QED
      BY <3>1, <3>2, ElementOfSeq, Zenon
  <2>2. from \in Int /\ to \in Int
    OBVIOUS
  <2>3. IsPart(data, b, from, to)
    BY <2>1, <2>2, PartTaken, Zenon
  <2>. QED
    BY <2>3, Zenon DEF IsPart
<1> HIDE DEF data
<1>9. /\ packet' = b /\ reported' = R /\ current' = p /\ phase' = phase /\ sender' = sender
      /\ rest' = SubSeq(b, to + 1, Len(b))
      /\ id = TINYAPP_ITEM_ID_PROFILE => profile' = data[1] /\ items' = items
      /\ id # TINYAPP_ITEM_ID_PROFILE =>
            items' = Append(items, call) /\ profile' = profile
  BY <1>8, Zenon DEF NextItem
<1> HIDE DEF call
<1>10. y.profile = profile' /\ y.count <= Len(R) /\ Passed(R, y.count, items')
  <2>1. CASE id = TINYAPP_ITEM_ID_PROFILE
    <3>1. from <= to /\ y.profile = b[from] /\ y.count = m.count
      BY <1>7, <2>1, Zenon
    <3>2. \A i \in from .. to : b[i] \in Nat
      <4>1. \A i \in from .. to : i \in 1 .. Len(b)
        <5>1. m.at \in Nat /\ Len(b) \in Nat /\ from > m.at /\ to <= Len(b)
          BY <1>3, <1>4, <1>7, <1>8, Zenon
        <5>. QED
          BY ONLY <5>1, from \in Nat, to \in Nat, SMTT(30)
      <4>2. b \in Seq(Nat)
        BY <1>4, Zenon
      <4>. QED
        BY <4>1, <4>2, ElementOfSeq, Zenon
    <3>3. from \in Int /\ to \in Int /\ 1 \in 1 .. to - from + 1 /\ from + 1 - 1 = from
      BY <3>1
    <3>4. \A i \in 1 .. to - from + 1 : data[i] = b[from + i - 1]
      BY ONLY <3>2, <3>3, SubSeqProperties DEF data
    <3>5. data[1] = b[from]
      BY <3>3, <3>4, Zenon
    <3>. QED
      BY <1>4, <1>9, <2>1, <3>1, <3>5, Zenon
  <2>2. CASE id # TINYAPP_ITEM_ID_PROFILE
    <3> DEFINE n == y.count
    <3>1. y.profile = m.profile /\ n = m.count + 1 /\ n <= Len(R) /\ R[n].call = call
      BY <1>4, <1>7, <2>2, Zenon DEF call, data
    <3>2. /\ items \in Seq(Calls) /\ Len(items) = m.count
          /\ \A i \in 1 .. m.count : items[i] = R[i].call
      BY <1>4, Zenon DEF Passed
    <3>3. call \in Calls
      <4>1. id \in Nat /\ m.profile \in Nat
        BY <1>3 DEF Marks
      <4>. QED
        BY <1>4, <1>14, <4>1, Zenon DEF call, Calls
    <3> HIDE DEF n
    <3>4. /\ Append(items, call) \in Seq(Calls) /\ Len(Append(items, call)) = n
          /\ \A i \in 1 .. m.count : Append(items, call)[i] = items[i]
          /\ Append(items, call)[n] = call
      BY <3>1, <3>2, <3>3, AppendProperties
    <3>5. \A i \in 1 .. n : i \in 1 .. m.count \/ i = n
      BY <1>3, <3>1
    <3>6. items' = Append(items, call) /\ profile' = profile
      BY <1>9, <2>2, Zenon
    <3>7. Passed(R, n, Append(items, call))
      BY <3>1, <3>2, <3>4, <3>5, Zenon DEF Passed
    <3>. QED
      BY <1>4, <3>1, <3>6, <3>7, Zenon DEF n
  <2>. QED
    BY <2>1, <2>2, Zenon
<1>11. AtMark(y)'
  BY <1>7, <1>9, <1>10, Zenon DEF AtMark
<1>12. Framed(packet', reported', current', F)
  BY <1>1, <1>9, Zenon
<1>13. PacketInv'
  BY <1>9, Zenon DEF AppInv, PacketInv
<1>. QED
  BY <1>11, <1>12, <1>13, Zenon DEF AppInv

\* tinyapp_init makes it true whatever was in the packet before.
LEMMA NextPacketInv ==
    ASSUME NextPacket
    PROVE  AppInv'
<1>1. /\ packet' = <<0>> /\ reported' = <<>> /\ current' = 0 /\ phase' # "decoding"
      /\ sender' \in Parties
  BY Zenon DEF NextPacket
<1>2. PacketInv'
  BY <1>1, EmptyFramed DEF PacketInv
<1>3. \E F \in SUBSET Marks : Framed(packet', reported', current', F)
  BY <1>1, EmptyFramed, Zenon
<1>. QED
  BY <1>1, <1>2, <1>3, Zenon DEF AppInv

\* The packet is framed, and the decoder at a mark, in every behaviour.
LEMMA AppAlways == AppSpec => []AppInv
<1>1. AppInit => AppInv
  <2>1. SUFFICES ASSUME AppInit PROVE AppInv
    BY Zenon
  <2>2. packet = <<0>> /\ reported = <<>> /\ current = 0 /\ phase # "decoding" /\ sender \in Parties
    BY <2>1, Zenon DEF AppInit
  <2>3. PacketInv
    BY <2>2, EmptyFramed DEF PacketInv
  <2>4. \E F \in SUBSET Marks : Framed(packet, reported, current, F)
    BY <2>2, EmptyFramed, Zenon
  <2>. QED
    BY <2>2, <2>3, <2>4, Zenon DEF AppInv
<1>2. AppInv /\ [AppNext]_appvars => AppInv'
  <2> SUFFICES ASSUME AppInv, [AppNext]_appvars PROVE AppInv'
    BY Zenon
  <2>1. CASE Serialise
    BY <2>1, SerialiseIntInv, SerialiseStringInv, SelectProfileInv, Zenon DEF Serialise
  <2>2. CASE Deserialise
    BY <2>2, DeserialiseInv, Zenon
  <2>3. CASE NextItem
    BY <2>3, NextItemInv, Zenon
  <2>4. CASE NextPacket
    BY <2>4, NextPacketInv, Zenon
  <2>5. CASE UNCHANGED appvars
    BY <2>5, Zenon DEF appvars, AppInv, PacketInv, AtMark
  <2>. QED
    BY <2>1, <2>2, <2>3, <2>4, <2>5, Zenon DEF AppNext
<1>. QED
  BY <1>1, <1>2, PTL DEF AppSpec

----------------------------------------------------------------------------
\* What the decoder takes for an item is in the packet (tinyapp_deserialise),
\* whatever was serialised.
THEOREM AppStaysInside == AppSpec => []StaysInside
<1>1. AppInv => StaysInside
  <2> SUFFICES ASSUME AppInv PROVE StaysInside
    BY Zenon
  <2>1. packet \in Seq(Nat) /\ Len(packet) \in Nat /\ Len(packet) <= SIZE
    BY TinyAppConstants DEF AppInv, PacketInv
  <2>2. ASSUME phase = "decoding", rest # <<>>
        PROVE  Start(rest) - 1 <= Len(rest) /\ Start(rest) + Length(rest) - 1 <= Len(rest)
    <3>1. PICK F \in SUBSET Marks : Framed(packet, reported, current, F) /\ \E m \in F : AtMark(m)
      BY <2>2, Zenon DEF AppInv
    <3>2. PICK m \in F : AtMark(m)
      BY <3>1, Zenon
    <3> DEFINE b == packet
               k == Len(b)
               i == m.at
               r == rest
    <3>3. i \in Nat /\ r = SubSeq(b, i, k)
      BY <3>2, Zenon DEF Marks, AtMark
    <3>4. m # EndMark(b, reported, current)
      <4>1. SUFFICES ASSUME i = k + 1 PROVE FALSE
        BY DEF EndMark
      <4>2. i \in Int /\ k \in Int /\ k < i
        BY <2>1, <4>1
      <4>3. SubSeq(b, i, k) = <<>>
        BY <4>2, SubSeqEmpty, Zenon
      <4>. QED
        BY <2>2, <3>3, <4>3, Zenon
    <3>5. PICK y \in F : Reads(b, reported, m, y)
      BY <3>1, <3>4, Zenon DEF Framed
    <3>6. PICK id \in 0 .. 63, from \in Nat, to \in Nat :
             i \in 1 .. Len(b) /\ from <= to + 1 /\ to <= Len(b) /\ Item(b, i, id, from, to)
      BY <3>5, Zenon DEF Reads
    <3>7. b \in Seq(Nat)
      BY <2>1, Zenon
    <3> HIDE DEF b, i, r
    <3>8. /\ Len(r) = Len(b) - i + 1 /\ Start(r) = from - i + 1 /\ Length(r) = to - from + 1
          /\ from > i
      <4>1. ItemAt(b, i, r, id, from, to)
        BY <3>3, <3>6, <3>7, Zenon DEF ItemAt
      <4>2. Found(b, i, r, id, from, to)
        BY <4>1, Decodes, Zenon
      <4>. QED
        BY <4>2, Zenon DEF Found
    <3>9. Start(r) - 1 <= Len(r) /\ Start(r) + Length(r) - 1 <= Len(r)
      <4>1. k \in Nat
        BY <2>1, Zenon DEF b
      <4> HIDE DEF k
      <4>2. i \in 1 .. k /\ from <= to + 1 /\ to <= k /\ Len(r) = k - i + 1
        BY <3>6, <3>8, Zenon DEF k
      <4>. QED
        BY <3>3, <3>8, <4>1, <4>2
    <3>. QED
      BY <3>9, Zenon DEF r
  <2>. QED
    BY <2>1, <2>2, Zenon DEF StaysInside
<1>. QED
  BY <1>1, AppAlways, PTL

\* What the receiver is given is what was sent, item for item and in order, and
\* when the packet is used up it is all of it; but for three, an item has one
\* name at both ends (tinyapp_deserialise and the tables).
THEOREM AppRoundTrip == AppSpec => []RoundTrip
<1>1. AppInv => RoundTrip
  <2> SUFFICES ASSUME AppInv, phase = "decoding"
               PROVE  /\ Len(items) <= Len(reported)
                      /\ \A i \in 1 .. Len(items) :
                            /\ items[i] = reported[i].call
                            /\ reported[i].name \notin Misnamed => NameOf(items[i]) = reported[i].name
                      /\ rest = <<>> => Len(items) = Len(reported)
    BY Zenon DEF RoundTrip
  <2>1. packet \in Seq(Nat) /\ Len(packet) \in Nat /\ reported \in Seq(Reports) /\ Len(reported) \in Nat
    BY DEF AppInv, PacketInv
  <2>2. PICK F \in SUBSET Marks : Framed(packet, reported, current, F) /\ \E m \in F : AtMark(m)
    BY Zenon DEF AppInv
  <2>3. PICK m \in F : AtMark(m)
    BY <2>2, Zenon
  <2>4. /\ m.at \in Nat /\ m.count \in Nat /\ m.count <= Len(reported)
        /\ rest = SubSeq(packet, m.at, Len(packet))
        /\ Len(items) = m.count /\ \A i \in 1 .. m.count : items[i] = reported[i].call
    BY <2>3, Zenon DEF Marks, AtMark, Passed
  <2>5. ASSUME NEW i \in 1 .. Len(items), reported[i].name \notin Misnamed
        PROVE  NameOf(items[i]) = reported[i].name
    <3> DEFINE name == reported[i].name
               p == reported[i].call.profile
               id == reported[i].call.item
    <3>1. i \in 1 .. Len(reported)
      BY <2>1, <2>4
    <3>2. sender \in Parties /\ Labelled(sender, reported[i])
      BY <3>1, Zenon DEF AppInv, PacketInv
    <3>3. name \in Names
      <4>1. reported[i] \in Reports
        BY <2>1, <3>1, ElementOfSeq, Zenon
      <4>. QED
        BY <4>1, Zenon DEF Reports
    <3>4. Receiver \in Parties
      BY Zenon DEF Receiver, Parties
    <3>5. Numbered(sender, name, p, id)
      BY <3>2, Zenon DEF Labelled
    <3>6. items[i] = reported[i].call
      BY <2>4, Zenon
    <3>7. name \notin Misnamed
      BY <2>5, Zenon
    <3> HIDE DEF name, p, id
    <3>8. NamedBy(Receiver, name, p, id)
      BY <3>2, <3>3, <3>4, <3>5, <3>7, NamesAgree, Zenon
    <3>. QED
      BY <3>6, <3>8, Zenon DEF NameOf, NamedBy, name, p, id
  <2>6. ASSUME rest = <<>> PROVE Len(items) = Len(reported)
    <3>1. CASE m = EndMark(packet, reported, current)
      <4>1. m.count = Len(reported)
        BY <3>1, Zenon DEF EndMark
      <4>. QED
        BY <2>4, <4>1, Zenon
    <3>2. CASE \E y \in F : Reads(packet, reported, m, y)
      <4>1. m.at \in 1 .. Len(packet)
        BY <3>2, Zenon DEF Reads
      <4>2. m.at \in Int /\ Len(packet) \in Int /\ m.at <= Len(packet) /\ \A i \in m.at .. Len(packet) : packet[i] \in Nat
        BY <2>1, <4>1
      <4>3. Len(rest) = Len(packet) - m.at + 1
        BY <2>4, <4>2, SubSeqProperties
      <4>. QED
        BY <2>1, <2>6, <4>2, <4>3
    <3>. QED
      BY <2>2, <3>1, <3>2, Zenon DEF Framed
  <2>. QED
    BY <2>4, <2>5, <2>6, Zenon
<1>. QED
  BY <1>1, AppAlways, PTL
============================================================================
