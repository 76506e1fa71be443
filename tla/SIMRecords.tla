----------------------------- MODULE SIMRecords -----------------------------
(***************************************************************************)
(* What the modem manager and package simaid read out of the records of a  *)
(* SIM card: the names of networks (EF_PNN, EF_SPN), the rules that refer  *)
(* to them by record number (EF_OPL), the service table, and the           *)
(* applications of EF_DIR.  Bytes are numbers; the tables that turn a      *)
(* septet or a code unit into a character are not part of the model.       *)
(***************************************************************************)
EXTENDS Integers, SequencesExt, FiniteSetsExt

CONSTANTS
  Septet,     \* the septets of the names that are packed
  Unit,       \* the 16-bit units of the other names
  MaxName,    \* bound: the length of a packed name
  Records,    \* how many records the file of names has
  Tree        \* the nested TLVs of an application's record, and of a file's description

VARIABLES
  name, scheme, padding,    \* a name as it is written on the card
  tree                      \* and an application's record

Bits(n, w) == [j \in 1..w |-> (n \div 2^(j - 1)) % 2]

(***************************************************************************)
(* Padding and the TLVs of a network name.                                 *)
(***************************************************************************)

\* The end of a record, zero bytes included, is cut off before anything else is done.
trimSIMPadding(d) ==
  SubSeq(d, 1, Max({i \in DOMAIN d : d[i] \notin {0, 255}} \cup {0}))

\* How many bytes of a record are names (tags 0x43 and 0x45), each with its length.
pnnTLVLength(data) ==
  LET d == trimSIMPadding(data)
      end[i \in 0..Len(d)] ==
        IF \/ i + 2 > Len(d) \/ d[i + 1] \notin {67, 69}
           \/ d[i + 2] = 0 \/ i + 2 + d[i + 2] > Len(d)
        THEN i ELSE end[i + 2 + d[i + 2]]
  IN end[0]

NoName == <<"none", <<>>>>

\* Mutant: the spare bits are taken for a character more.
unpackAll(d, spare) ==
  LET septets == (Len(d) * 8) \div 7
      bit == [n \in 0..(8 * Len(d) - 1) |-> Bits(d[(n \div 8) + 1], 8)[(n % 8) + 1]]
  IN [k \in 1..septets |-> MapThenSumSet(LAMBDA j : bit[7 * (k - 1) + j] * 2^j, 0..6)]

\* decodePackedGSM7, with its buffer: as many septets as the bits but the spare ones make.
decodePackedGSM7(d, spare) ==
  LET septets == (Len(d) * 8 - spare) \div 7
      Drain(s) == IF s.bits >= 7 /\ Len(s.out) < septets
                  THEN [buf |-> s.buf \div 128, bits |-> s.bits - 7,
                        out |-> Append(s.out, s.buf % 128)]
                  ELSE s
      after[i \in 0..Len(d)] ==
        IF i = 0 THEN [buf |-> 0, bits |-> 0, out |-> <<>>]
        ELSE LET s == after[i - 1]
             IN Drain(Drain([s EXCEPT !.buf = @ + d[i] * 2^s.bits, !.bits = @ + 8]))
  IN after[Len(d)].out

decodeSPNUCS2(data) ==
  LET d == trimSIMPadding(data)
  IN IF d = <<>> \/ Len(d) % 2 = 1 THEN NoName
     ELSE <<"ucs2", [k \in 1..(Len(d) \div 2) |-> d[2 * k - 1] * 256 + d[2 * k]]>>

\* One byte per character, those from 128 on counted from a base.
decodeSPNCompressedUCS2(d, baseBytes) ==
  IF Len(d) < 2 + baseBytes THEN NoName
  ELSE LET rest == SubSeq(d, 3 + baseBytes, Len(d))
           payload == SubSeq(rest, 1, IF d[2] < Len(rest) THEN d[2] ELSE Len(rest))
           base == IF baseBytes = 1 THEN d[3] * 128 ELSE d[3] * 256 + d[4]
       IN <<"ucs2", [k \in DOMAIN payload |->
                      IF payload[k] < 128 THEN payload[k]
                      ELSE (base + payload[k] - 128) % 65536]>>

\* decodeSIMAlphaIdentifier, and DecodeEFSPN behind its first byte.
decodeSIMAlphaIdentifier(data) ==
  LET d == trimSIMPadding(data)
  IN IF d = <<>> THEN NoName
     ELSE CASE d[1] = 128 -> decodeSPNUCS2(Tail(d))
            [] d[1] = 129 -> decodeSPNCompressedUCS2(d, 1)
            [] d[1] = 130 -> decodeSPNCompressedUCS2(d, 2)
            [] OTHER -> <<"text", d>>
DecodeEFSPN(data) == decodeSIMAlphaIdentifier(IF Len(data) > 1 THEN Tail(data) ELSE data)

decodePNNNetworkName(value) ==
  LET d == trimSIMPadding(value)
      coding == (d[1] \div 16) % 8
  IN IF d = <<>> THEN NoName
     ELSE IF Len(d) >= 2 /\ coding = 0
     THEN IF decodePackedGSM7(Tail(d), d[1] % 8) = <<>> THEN NoName
          ELSE <<"gsm7", decodePackedGSM7(Tail(d), d[1] % 8)>>
     ELSE IF Len(d) >= 2 /\ coding = 1 THEN decodeSPNUCS2(Tail(d))
     ELSE decodeSIMAlphaIdentifier(d)

\* The full name (0x43) of a record; of two the last one counts.
DecodePNNRecord(record) ==
  LET d == SubSeq(record, 1, pnnTLVLength(record))
      full[i \in 0..Len(d)] ==
        IF i + 2 > Len(d) \/ i + 2 + d[i + 2] > Len(d) THEN NoName
        ELSE LET value == SubSeq(d, i + 3, i + 2 + d[i + 2])
                 later == full[i + 2 + d[i + 2]]
             IN IF later # NoName THEN later
                ELSE IF d[i + 1] = 67 THEN decodePNNNetworkName(value) ELSE NoName
  IN full[0]

\* DecodeOPLRecord: the network, its areas, and the record of its name.
DecodeOPLRecord(record) ==
  LET d == trimSIMPadding(record)
  IN IF Len(d) < 8 THEN {}
     ELSE {[first |-> d[4] * 256 + d[5], last |-> d[6] * 256 + d[7], pnn |-> d[8]]}

DecodeSIMServiceTable(data) ==
  LET d == trimSIMPadding(data)
  IN {n \in 1..(8 * Len(d)) : Bits(d[((n - 1) \div 8) + 1], 8)[((n - 1) % 8) + 1] = 1}

(***************************************************************************)
(* simaid: TLVs inside TLVs.                                               *)
(***************************************************************************)

\* CollectTLVValues: every value of the wanted tag, however deep; padding between
\* the TLVs is passed over, and what is not whole ends the walk.
Skip(d, i) ==
  Min({j \in i..Len(d) : d[j] \notin {0, 255}} \cup {Len(d) + 1})
LengthAt(d, i) ==     \* <<the length at i, where the value begins>>, or nothing
  IF i > Len(d) THEN <<>>
  ELSE IF d[i] < 128 THEN <<d[i], i + 1>>
  ELSE LET n == d[i] - 128
       IN IF n = 0 \/ n > 3 \/ i + n > Len(d) THEN <<>>
          ELSE <<MapThenSumSet(LAMBDA j : d[i + j] * 256^(n - j), 1..n), i + n + 1>>
TagEnd(d, i) ==       \* a tag whose low five bits are set has more bytes
  IF d[i] % 32 # 31 THEN i
  ELSE Min({j \in (i + 1)..Len(d) : d[j] < 128} \cup {Len(d)})
Constructed(tag) == (tag \div 32) % 2 = 1

CollectTLVValues(data, want) ==
  LET Depth == Len(data)
      found[k \in 0..Depth, d \in {data} \cup
              {SubSeq(data, a, b) : a \in 1..(Len(data) + 1), b \in 0..Len(data)}] ==
        LET i == Skip(d, 1)
            length == LengthAt(d, TagEnd(d, i) + 1)
        IN IF k = 0 \/ i > Len(d) \/ length = <<>> \/ (length[1] + length[2]) - 1 > Len(d) THEN <<>>
           ELSE LET value == SubSeq(d, length[2], (length[1] + length[2]) - 1)
                    rest == SubSeq(d, length[2] + length[1], Len(d))
                IN (IF d[i] = want /\ TagEnd(d, i) = i THEN <<value>> ELSE <<>>) \o
                   (IF Constructed(d[i]) THEN found[k - 1, value] ELSE <<>>) \o
                   found[k - 1, rest]
  IN found[Depth, data]

\* ParseLinearFixedMetaFromFCP: the length and the number of the records, out of the
\* description that SELECT answers with.
ParseLinearFixedMetaFromFCP(fcp) ==
  LET data == IF Len(fcp) >= 2 /\ fcp[1] = 98
              THEN SubSeq(fcp, 3, IF 2 + fcp[2] > Len(fcp) THEN Len(fcp) ELSE 2 + fcp[2])
              ELSE fcp
      meta[i \in 1..(Len(data) + 1)] ==
        LET length == LengthAt(data, i + 1)
        IN IF i + 1 > Len(data) \/ length = <<>> \/ (length[1] + length[2]) - 1 > Len(data)
           THEN <<0, 0>>
           ELSE LET v == SubSeq(data, length[2], (length[1] + length[2]) - 1)
                IN IF data[i] = 130 /\ Len(v) >= 5 /\ v[Len(v) - 2] * 256 + v[Len(v) - 1] > 0
                   THEN <<v[Len(v) - 2] * 256 + v[Len(v) - 1], Last(v)>>
                   ELSE meta[length[2] + length[1]]
  IN IF Len(fcp) < 2 THEN <<0, 0>> ELSE meta[1]

(***************************************************************************)
(* How a card is written: the encodings of 3GPP TS 31.102 and TS 24.008.   *)
(***************************************************************************)

Packed(septets) ==
  LET bits == FlattenSeq([k \in DOMAIN septets |-> Bits(septets[k], 7)])
      bytes == (Len(bits) + 7) \div 8
      bit(n) == IF n <= Len(bits) THEN bits[n] ELSE 0
  IN [b \in 1..bytes |-> MapThenSumSet(LAMBDA j : bit(8 * (b - 1) + j) * 2^(j - 1), 1..8)]
SpareBits(septets) == (8 - ((7 * Len(septets)) % 8)) % 8
Units(units) == FlattenSeq([k \in DOMAIN units |-> <<units[k] \div 256, units[k] % 256>>])

Value == IF scheme = "gsm7" THEN <<128 + SpareBits(name)>> \o Packed(name)
         ELSE <<144>> \o Units(name)
Written == <<67, Len(Value)>> \o Value \o padding

\* A TLV is <<tag, "short" or "long", bytes or TLVs>>.
WriteLength(n, form) == IF form = "short" THEN <<n>> ELSE <<129, n>>
WriteLeaf(t) == <<t[1]>> \o WriteLength(Len(t[3]), t[2]) \o t[3]
WriteTree(t) ==
  LET inside == FlattenSeq([i \in DOMAIN t[3] |-> WriteLeaf(t[3][i])])
  IN <<t[1]>> \o WriteLength(Len(inside), t[2]) \o inside

\* EF_SPN: a byte of flags, and a name that counts from a base.
SPNWritten == <<1, 129, Len(name), 156>> \o
  [k \in DOMAIN name |-> IF name[k] < 128 THEN name[k] ELSE 128 + (name[k] % 128)]
RuleWritten(lac, pnn) == <<100, 240, 0, (lac \div 256), (lac % 256), 255, 254, pnn>>
FileWritten(record, inner) == <<98, 7 + Len(inner)>> \o inner \o <<130, 5, 66, 33, 0, record, Records>>

\* What is written on the card; it stays as it is.
Init ==
  /\ \/ scheme = "gsm7" /\ name \in SeqOf(Septet, MaxName) \ {<<>>}
     \/ scheme = "ucs2" /\ name \in SeqOf(Unit, 2) \ {<<>>}
  /\ padding \in {<<>>, <<255>>, <<255, 255>>}
  /\ tree \in Tree /\ (Len(name) # 1 => tree = CHOOSE t \in Tree : TRUE)

-----------------------------------------------------------------------------
\* A name comes off the card as it was written, whatever padding follows; except one
\* whose last byte is zero or 255, which is taken for padding.
NamesRead ==
  /\ Last(Value) \notin {0, 255} => DecodePNNRecord(Written) = <<scheme, name>>
  /\ scheme = "ucs2" => DecodeEFSPN(SPNWritten \o padding) = <<scheme, name>>

\* Every application of a record is found, and no other bytes are taken for one.
Applications(t) == SelectSeq(t[3], LAMBDA x : x[1] = 79)
ApplicationsFound ==
  CollectTLVValues(WriteTree(tree) \o padding, 79) =
    [i \in DOMAIN Applications(tree) |-> Applications(tree)[i][3]]

\* A rule of EF_OPL keeps its number and its areas, if it has a name; and the record
\* length and count are found behind whatever else the description says.
RulesAndSizes ==
  /\ \A lac \in {0, 1, 65534}, n \in 1..Records :
       DecodeOPLRecord(RuleWritten(lac, n) \o padding) = {[first |-> lac, last |-> 65534, pnn |-> n]}
  /\ \A record \in {12, 38, 255}, inner \in {<<>>, <<131, 2, 111, 197>>, <<165, 129, 1, 130>>} :
       ParseLinearFixedMetaFromFCP(FileWritten(record, inner)) = <<record, Records>>
  /\ \A n \in 1..16 : n \in DecodeSIMServiceTable(<<1 + 4, 16, 255>>) <=> n \in {1, 3, 13}

\* What the card says is what is read.
CardRead == NamesRead /\ ApplicationsFound /\ RulesAndSizes
=============================================================================
