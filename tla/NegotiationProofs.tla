------------------------ MODULE NegotiationProofs ------------------------
(***************************************************************************)
(* Proofs about Negotiation, for every name, limit and number of keys: as  *)
(* long as no read ends within a command the type that is named is the     *)
(* client's, a request follows an offer and is the only one, and a client  *)
(* whose commands are read one at a time is recognized.                    *)
(*                                                                         *)
(* What a read takes is decoded byte by byte, so the proofs begin with the *)
(* recursions of the codec, go on to what the decoder makes of an offer    *)
(* and of an answer, whole or not, and end in an invariant about the two   *)
(* streams.                                                                *)
(***************************************************************************)
EXTENDS Negotiation, SequenceTheorems, WellFoundedInduction, TLAPS

-----------------------------------------------------------------------------
(* The recursions.                                                         *)

\* A set of natural numbers that is not empty has a least element.
LEMMA LeastNat ==
  ASSUME NEW T \in SUBSET Nat, T # {}
  PROVE  \E m \in T : \A k \in T : m <= k
<1>1. PICK m \in T : \A k \in T : <<k, m>> \notin OpToRel(<, Nat)
  BY WFMin, NatLessThanWellFounded, Zenon
<1>2. \A k \in T : ~ (k < m)
  BY <1>1, Zenon DEF OpToRel
<1>3. m \in Nat /\ \A k \in T : k \in Nat
  OBVIOUS
<1> QED
  BY <1>2, <1>3

\* The states of the loops before the first byte or word.
DecodeStart == [words |-> <<>>, sb |-> FALSE, text |-> FALSE, begun |-> FALSE]
EncodeStart == [bytes |-> <<>>, sb |-> FALSE, text |-> FALSE, thrown |-> FALSE]

\* The recursion of Decoding() up to n.
Decodes(bytes, n, state) ==
  state = [k \in 0..n |-> IF k = 0 THEN DecodeStart ELSE DecodeByte(state[k - 1], bytes[k])]

\* One byte more.
LEMMA DecodesOn ==
  ASSUME NEW bytes, NEW n \in Nat, NEW state, Decodes(bytes, n, state)
  PROVE  \E longer : Decodes(bytes, n + 1, longer)
<1> DEFINE longer == [k \in 0..n + 1 |->
                        IF k = n + 1 THEN DecodeByte(state[n], bytes[n + 1]) ELSE state[k]]
<1>1. /\ DOMAIN state = 0..n
      /\ \A k \in 0..n :
           state[k] = IF k = 0 THEN DecodeStart ELSE DecodeByte(state[k - 1], bytes[k])
  BY DEF Decodes
<1>2. ASSUME NEW k \in 0..n + 1
      PROVE  longer[k] = IF k = 0 THEN DecodeStart ELSE DecodeByte(longer[k - 1], bytes[k])
  <2>1. CASE k = n + 1
    <3>1. k - 1 = n /\ n \in 0..n + 1 /\ n # n + 1 /\ k # 0
      BY <2>1
    <3>2. longer[k - 1] = state[n] /\ longer[k] = DecodeByte(state[n], bytes[n + 1])
      BY <2>1, <3>1
    <3> QED
      BY <2>1, <3>1, <3>2
  <2>2. CASE k # n + 1
    <3>1. k \in 0..n /\ longer[k] = state[k]
      BY <2>2
    <3>2. k # 0 => k - 1 \in 0..n + 1 /\ k - 1 # n + 1
      BY <2>2
    <3>3. k # 0 => longer[k - 1] = state[k - 1]
      BY <3>2
    <3> QED
      BY <1>1, <3>1, <3>3
  <2> QED
    BY <2>1, <2>2
<1>3. longer = [k \in 0..n + 1 |-> longer[k]]
  OBVIOUS
<1> HIDE DEF longer
<1>4. longer = [k \in 0..n + 1 |->
                  IF k = 0 THEN DecodeStart ELSE DecodeByte(longer[k - 1], bytes[k])]
  BY <1>2, <1>3
<1> QED
  BY <1>4 DEF Decodes

\* So there are states for any number of bytes, or there would be a least number
\* without them.
LEMMA DecodesExist ==
  ASSUME NEW bytes, NEW n \in Nat
  PROVE  \E state : Decodes(bytes, n, state)
<1> DEFINE Without == {m \in Nat : ~ \E state : Decodes(bytes, m, state)}
<1>1. SUFFICES ASSUME Without # {} PROVE FALSE
  OBVIOUS
<1>2. PICK m \in Without : \A k \in Without : m <= k
  <2> HIDE DEF Without
  <2>1. Without \in SUBSET Nat
    BY DEF Without
  <2> QED
    BY <1>1, <2>1, LeastNat, Zenon
<1>3. m # 0
  <2> DEFINE state == [k \in 0..0 |-> DecodeStart]
  <2>1. state = [k \in 0..0 |->
                   IF k = 0 THEN DecodeStart ELSE DecodeByte(state[k - 1], bytes[k])]
    OBVIOUS
  <2>2. Decodes(bytes, 0, state)
    BY <2>1 DEF Decodes
  <2> QED
    BY <1>2, <2>2
<1>4. m - 1 \in Nat /\ m - 1 \notin Without /\ (m - 1) + 1 = m
  BY <1>2, <1>3
<1>5. \E state : Decodes(bytes, m - 1, state)
  BY <1>4
<1>6. \E state : Decodes(bytes, (m - 1) + 1, state)
  BY <1>4, <1>5, DecodesOn
<1> QED
  BY <1>2, <1>4, <1>6

\* Decoding() is that recursion.
LEMMA DecodingIs ==
  ASSUME NEW S, NEW bytes \in Seq(S)
  PROVE  /\ Decoding(bytes)[0] = DecodeStart
         /\ \A n \in 1..Len(bytes) :
              Decoding(bytes)[n] = DecodeByte(Decoding(bytes)[n - 1], bytes[n])
<1>1. Len(bytes) \in Nat
  OBVIOUS
<1>2. Decoding(bytes) = CHOOSE state : Decodes(bytes, Len(bytes), state)
  BY DEF Decoding, Decodes, DecodeStart
<1>3. Decodes(bytes, Len(bytes), Decoding(bytes))
  BY <1>1, <1>2, DecodesExist, Zenon
<1>4. Decoding(bytes) =
        [k \in 0..Len(bytes) |->
           IF k = 0 THEN DecodeStart ELSE DecodeByte(Decoding(bytes)[k - 1], bytes[k])]
  BY <1>3, Zenon DEF Decodes
<1>5. 0 \in 0..Len(bytes) /\ \A n \in 1..Len(bytes) : n \in 0..Len(bytes) /\ n # 0
  BY <1>1
<1> QED
  BY <1>4, <1>5

\* The recursion of Encoding() up to n.
Encodes(words, n, state) ==
  state = [k \in 0..n |-> IF k = 0 THEN EncodeStart ELSE EncodeWord(state[k - 1], words[k])]

\* One word more.
LEMMA EncodesOn ==
  ASSUME NEW words, NEW n \in Nat, NEW state, Encodes(words, n, state)
  PROVE  \E longer : Encodes(words, n + 1, longer)
<1> DEFINE longer == [k \in 0..n + 1 |->
                        IF k = n + 1 THEN EncodeWord(state[n], words[n + 1]) ELSE state[k]]
<1>1. /\ DOMAIN state = 0..n
      /\ \A k \in 0..n :
           state[k] = IF k = 0 THEN EncodeStart ELSE EncodeWord(state[k - 1], words[k])
  BY DEF Encodes
<1>2. ASSUME NEW k \in 0..n + 1
      PROVE  longer[k] = IF k = 0 THEN EncodeStart ELSE EncodeWord(longer[k - 1], words[k])
  <2>1. CASE k = n + 1
    <3>1. k - 1 = n /\ n \in 0..n + 1 /\ n # n + 1 /\ k # 0
      BY <2>1
    <3>2. longer[k - 1] = state[n] /\ longer[k] = EncodeWord(state[n], words[n + 1])
      BY <2>1, <3>1
    <3> QED
      BY <2>1, <3>1, <3>2
  <2>2. CASE k # n + 1
    <3>1. k \in 0..n /\ longer[k] = state[k]
      BY <2>2
    <3>2. k # 0 => k - 1 \in 0..n + 1 /\ k - 1 # n + 1
      BY <2>2
    <3>3. k # 0 => longer[k - 1] = state[k - 1]
      BY <3>2
    <3> QED
      BY <1>1, <3>1, <3>3
  <2> QED
    BY <2>1, <2>2
<1>3. longer = [k \in 0..n + 1 |-> longer[k]]
  OBVIOUS
<1> HIDE DEF longer
<1>4. longer = [k \in 0..n + 1 |->
                  IF k = 0 THEN EncodeStart ELSE EncodeWord(longer[k - 1], words[k])]
  BY <1>2, <1>3
<1> QED
  BY <1>4 DEF Encodes

\* The recursion has a solution for every number of words.
LEMMA EncodesExist ==
  ASSUME NEW words, NEW n \in Nat
  PROVE  \E state : Encodes(words, n, state)
<1> DEFINE Without == {m \in Nat : ~ \E state : Encodes(words, m, state)}
<1>1. SUFFICES ASSUME Without # {} PROVE FALSE
  OBVIOUS
<1>2. PICK m \in Without : \A k \in Without : m <= k
  <2> HIDE DEF Without
  <2>1. Without \in SUBSET Nat
    BY DEF Without
  <2> QED
    BY <1>1, <2>1, LeastNat, Zenon
<1>3. m # 0
  <2> DEFINE state == [k \in 0..0 |-> EncodeStart]
  <2>1. state = [k \in 0..0 |->
                   IF k = 0 THEN EncodeStart ELSE EncodeWord(state[k - 1], words[k])]
    OBVIOUS
  <2>2. Encodes(words, 0, state)
    BY <2>1 DEF Encodes
  <2> QED
    BY <1>2, <2>2
<1>4. m - 1 \in Nat /\ m - 1 \notin Without /\ (m - 1) + 1 = m
  BY <1>2, <1>3
<1>5. \E state : Encodes(words, m - 1, state)
  BY <1>4
<1>6. \E state : Encodes(words, (m - 1) + 1, state)
  BY <1>4, <1>5, EncodesOn
<1> QED
  BY <1>2, <1>4, <1>6

\* Encoding() is that recursion.
LEMMA EncodingIs ==
  ASSUME NEW S, NEW words \in Seq(S)
  PROVE  /\ Encoding(words)[0] = EncodeStart
         /\ \A n \in 1..Len(words) :
              Encoding(words)[n] = EncodeWord(Encoding(words)[n - 1], words[n])
<1>1. Len(words) \in Nat
  OBVIOUS
<1>2. Encoding(words) = CHOOSE state : Encodes(words, Len(words), state)
  BY DEF Encoding, Encodes, EncodeStart
<1>3. Encodes(words, Len(words), Encoding(words))
  BY <1>1, <1>2, EncodesExist, Zenon
<1>4. Encoding(words) =
        [k \in 0..Len(words) |->
           IF k = 0 THEN EncodeStart ELSE EncodeWord(Encoding(words)[k - 1], words[k])]
  BY <1>3, Zenon DEF Encodes
<1>5. 0 \in 0..Len(words) /\ \A n \in 1..Len(words) : n \in 0..Len(words) /\ n # 0
  BY <1>1
<1> QED
  BY <1>4, <1>5

\* The recursion of FlattenSeq() up to n.
Joins(seqs, n, flatten) ==
  flatten = [k \in 1..n |-> IF k = 1 THEN seqs[k] ELSE flatten[k - 1] \o seqs[k]]

\* One piece more.
LEMMA JoinsOn ==
  ASSUME NEW seqs, NEW n \in Nat, NEW flatten, Joins(seqs, n, flatten)
  PROVE  \E longer : Joins(seqs, n + 1, longer)
<1> DEFINE last == IF n = 0 THEN seqs[1] ELSE flatten[n] \o seqs[n + 1]
           longer == [k \in 1..n + 1 |-> IF k = n + 1 THEN last ELSE flatten[k]]
<1>1. /\ DOMAIN flatten = 1..n
      /\ \A k \in 1..n : flatten[k] = IF k = 1 THEN seqs[k] ELSE flatten[k - 1] \o seqs[k]
  BY DEF Joins
<1>2. ASSUME NEW k \in 1..n + 1
      PROVE  longer[k] = IF k = 1 THEN seqs[k] ELSE longer[k - 1] \o seqs[k]
  <2>1. CASE k = n + 1
    <3>1. longer[k] = last
      BY <2>1
    <3>2. CASE n = 0
      BY <2>1, <3>1, <3>2
    <3>3. CASE n # 0
      <4>1. k - 1 = n /\ n \in 1..n + 1 /\ n # n + 1 /\ k # 1
        BY <2>1, <3>3
      <4>2. longer[k - 1] = flatten[n]
        BY <4>1
      <4> QED
        BY <2>1, <3>1, <3>3, <4>1, <4>2
    <3> QED
      BY <3>2, <3>3
  <2>2. CASE k # n + 1
    <3>1. k \in 1..n /\ longer[k] = flatten[k]
      BY <2>2
    <3>2. k # 1 => k - 1 \in 1..n + 1 /\ k - 1 # n + 1
      BY <2>2
    <3>3. k # 1 => longer[k - 1] = flatten[k - 1]
      BY <3>2
    <3> QED
      BY <1>1, <3>1, <3>3
  <2> QED
    BY <2>1, <2>2
<1>3. longer = [k \in 1..n + 1 |-> longer[k]]
  OBVIOUS
<1> HIDE DEF longer
<1>4. longer = [k \in 1..n + 1 |-> IF k = 1 THEN seqs[k] ELSE longer[k - 1] \o seqs[k]]
  BY <1>2, <1>3
<1> QED
  BY <1>4 DEF Joins

\* The recursion has a solution for every number of pieces.
LEMMA JoinsExist ==
  ASSUME NEW seqs, NEW n \in Nat
  PROVE  \E flatten : Joins(seqs, n, flatten)
<1> DEFINE Without == {m \in Nat : ~ \E flatten : Joins(seqs, m, flatten)}
<1>1. SUFFICES ASSUME Without # {} PROVE FALSE
  OBVIOUS
<1>2. PICK m \in Without : \A k \in Without : m <= k
  <2> HIDE DEF Without
  <2>1. Without \in SUBSET Nat
    BY DEF Without
  <2> QED
    BY <1>1, <2>1, LeastNat, Zenon
<1>3. m # 0
  <2> DEFINE flatten == [k \in 1..0 |-> <<>>]
  <2>1. 1..0 = {}
    OBVIOUS
  <2>2. flatten = [k \in 1..0 |-> IF k = 1 THEN seqs[k] ELSE flatten[k - 1] \o seqs[k]]
    BY <2>1
  <2>3. Joins(seqs, 0, flatten)
    BY <2>2 DEF Joins
  <2> QED
    BY <1>2, <2>3
<1>4. m - 1 \in Nat /\ m - 1 \notin Without /\ (m - 1) + 1 = m
  BY <1>2, <1>3
<1>5. \E flatten : Joins(seqs, m - 1, flatten)
  BY <1>4
<1>6. \E flatten : Joins(seqs, (m - 1) + 1, flatten)
  BY <1>4, <1>5, JoinsOn
<1> QED
  BY <1>2, <1>4, <1>6

\* FlattenSeq() step by step.
LEMMA FlattenIs ==
  ASSUME NEW S, NEW seqs \in Seq(S), seqs # <<>>
  PROVE  \E flatten :
           /\ FlattenSeq(seqs) = flatten[Len(seqs)]
           /\ flatten[1] = seqs[1]
           /\ \A k \in 2..Len(seqs) : flatten[k] = flatten[k - 1] \o seqs[k]
<1> DEFINE flatten == CHOOSE f : Joins(seqs, Len(seqs), f)
<1>1. Len(seqs) \in Nat /\ Len(seqs) # 0
  OBVIOUS
<1>2. FlattenSeq(seqs) = flatten[Len(seqs)]
  BY <1>1 DEF FlattenSeq, Joins
<1>3. Joins(seqs, Len(seqs), flatten)
  BY <1>1, JoinsExist, Zenon
<1> HIDE DEF flatten
<1>4. flatten = [k \in 1..Len(seqs) |->
                   IF k = 1 THEN seqs[k] ELSE flatten[k - 1] \o seqs[k]]
  BY <1>3, Zenon DEF Joins
<1>5. 1 \in 1..Len(seqs) /\ \A k \in 2..Len(seqs) : k \in 1..Len(seqs) /\ k # 1
  BY <1>1
<1>6. flatten[1] = seqs[1] /\ \A k \in 2..Len(seqs) : flatten[k] = flatten[k - 1] \o seqs[k]
  BY <1>4, <1>5
<1> QED
  BY <1>2, <1>6

-----------------------------------------------------------------------------
(* The commands of the two sides.                                          *)

Verbs   == {"WILL", "WONT", "DO", "DONT"}
Options == {"ECHO", "LINEMODE", "SUPRESS_GA"}
Replies == {<<"IAC", verb, option>> : verb \in Verbs, option \in Options}

\* What the server sends, and what the client does.
ServerCommands == Replies \cup {Ask, Request}
Commands       == Replies \cup {Offer, Refusal, Answer} \cup {<<key>> : key \in Keys}

\* The encoder outside texts.
Plain(bytes, sb) == [bytes |-> bytes, sb |-> sb, text |-> FALSE, thrown |-> FALSE]

\* A word that begins no text.
LEMMA EncodePlain ==
  ASSUME NEW word, NEW code \in CommandTable \ {"BINARY"}, NEW bytes,
         NEW sb \in BOOLEAN, NEW after \in BOOLEAN, after <=> EntersSB(code, sb),
         findTelnetCommandByName(word, sb) = code,
         findTelnetCommandByName(word, after) = code
  PROVE  EncodeWord(Plain(bytes, sb), word) = Plain(Append(bytes, code), after)
<1> DEFINE state == Plain(bytes, sb)
<1>1. /\ state.bytes = bytes /\ state.sb = sb
      /\ state.text = FALSE /\ state.thrown = FALSE
  BY DEF Plain
<1> HIDE DEF state
<1>2. code # Thrown /\ EntersText(code) = FALSE
  BY DEF CommandTable, Thrown, EntersText
<1>3. EntersSB(code, sb) = after
  BY DEF EntersSB
<1>4. EncodeWord(state, word) =
        [bytes |-> Append(bytes, code), sb |-> after,
         text |-> FALSE \/ EntersText(code), thrown |-> FALSE]
  BY <1>1, <1>2, <1>3 DEF EncodeWord
<1>5. EncodeWord(state, word) = Plain(Append(bytes, code), after)
  BY <1>2, <1>4 DEF Plain
<1> QED
  BY <1>5 DEF state


\* The first elements of a sequence and the next one.
LEMMA PrefixOn ==
  ASSUME NEW S, NEW t \in Seq(S), NEW n \in Nat, n < Len(t)
  PROVE  Append(SubSeq(t, 1, n), t[n + 1]) = SubSeq(t, 1, n + 1)
<1>1. Len(t) \in Nat /\ n \in 0..Len(t) /\ n + 1 \in 0..Len(t)
  OBVIOUS
<1>2. /\ SubSeq(t, 1, n) \in Seq(S) /\ Len(SubSeq(t, 1, n)) = n
      /\ \A k \in 1..n : SubSeq(t, 1, n)[k] = t[k]
  BY <1>1
<1>3. /\ SubSeq(t, 1, n + 1) \in Seq(S) /\ Len(SubSeq(t, 1, n + 1)) = n + 1
      /\ \A k \in 1..n + 1 : SubSeq(t, 1, n + 1)[k] = t[k]
  BY <1>1
<1>4. t[n + 1] \in S
  BY <1>1
<1>5. /\ Append(SubSeq(t, 1, n), t[n + 1]) \in Seq(S)
      /\ Len(Append(SubSeq(t, 1, n), t[n + 1])) = n + 1
      /\ \A k \in 1..n + 1 : Append(SubSeq(t, 1, n), t[n + 1])[k] = t[k]
  BY <1>2, <1>4
<1> QED
  BY <1>3, <1>5, SeqEqual

\* A description that is encoded word by word, with the mode sb[n] after n words.
LEMMA EncodesAs ==
  ASSUME NEW S, NEW words \in Seq(S), NEW t \in Seq(CommandTable),
         NEW sb \in [0..Len(t) -> BOOLEAN],
         Len(words) = Len(t), t # <<>>, sb[0] = FALSE,
         \A n \in 1..Len(t) - 1 :
           /\ t[n] # "BINARY" /\ (sb[n] <=> EntersSB(t[n], sb[n - 1]))
           /\ findTelnetCommandByName(words[n], sb[n - 1]) = t[n]
           /\ findTelnetCommandByName(words[n], sb[n]) = t[n],
         findTelnetCommandByName(words[Len(t)], sb[Len(t) - 1]) = t[Len(t)]
  PROVE  encodeTelnetCommand(words) = t
<1>1. Len(t) \in Nat /\ Len(t) >= 1
  OBVIOUS
<1>2. /\ Encoding(words)[0] = EncodeStart
      /\ \A n \in 1..Len(t) : Encoding(words)[n] = EncodeWord(Encoding(words)[n - 1], words[n])
  BY EncodingIs
<1> DEFINE So(n)  == Encoding(words)[n] = Plain(SubSeq(t, 1, n), sb[n])
           Others == {n \in 0..Len(t) - 1 : ~ So(n)}
<1>3. Others = {}
  <2> SUFFICES ASSUME Others # {} PROVE FALSE
    OBVIOUS
  <2>1. PICK n \in Others : \A k \in Others : n <= k
    <3>1. Others \in SUBSET Nat
      BY <1>1
    <3> HIDE DEF Others
    <3> QED
      BY <3>1, LeastNat, Zenon
  <2>2. n \in 0..Len(t) - 1 /\ ~ So(n)
    BY <2>1
  <2>3. So(0)
    <3>1. SubSeq(t, 1, 0) = <<>>
      OBVIOUS
    <3> QED
      BY <1>2, <3>1 DEF EncodeStart, Plain
  <2>4. n # 0
    BY <2>2, <2>3
  <2>5. /\ n - 1 \in Nat /\ n - 1 < Len(t) /\ (n - 1) + 1 = n /\ n \in 1..Len(t)
        /\ n \in 1..Len(t) - 1 /\ n - 1 \in 0..Len(t) - 1
    BY <1>1, <2>2, <2>4
  <2>6. So(n - 1)
    <3>1. n - 1 \notin Others
      BY <2>1, <2>5
    <3> HIDE DEF So
    <3> QED
      BY <2>5, <3>1
  <2>7. /\ t[n] \in CommandTable \ {"BINARY"} /\ sb[n] \in BOOLEAN /\ sb[n - 1] \in BOOLEAN
        /\ sb[n] <=> EntersSB(t[n], sb[n - 1])
        /\ findTelnetCommandByName(words[n], sb[n - 1]) = t[n]
        /\ findTelnetCommandByName(words[n], sb[n]) = t[n]
    <3>1. t[n] \in CommandTable /\ n \in 0..Len(t) /\ n - 1 \in 0..Len(t)
      BY <1>1, <2>5
    <3>2. sb[n] \in BOOLEAN /\ sb[n - 1] \in BOOLEAN
      BY <3>1
    <3> QED
      BY <2>5, <3>1, <3>2
  <2>8. EncodeWord(Plain(SubSeq(t, 1, n - 1), sb[n - 1]), words[n])
          = Plain(Append(SubSeq(t, 1, n - 1), t[n]), sb[n])
    BY <2>7, EncodePlain
  <2>9. Append(SubSeq(t, 1, n - 1), t[n]) = SubSeq(t, 1, n)
    BY <2>5, PrefixOn
  <2>10. Encoding(words)[n] = EncodeWord(Encoding(words)[n - 1], words[n])
    BY <1>2, <2>5
  <2>11. So(n)
    BY <2>6, <2>8, <2>9, <2>10
  <2> QED
    BY <2>2, <2>11
<1> DEFINE before == Encoding(words)[Len(words) - 1]
<1>4. before = Plain(SubSeq(t, 1, Len(t) - 1), sb[Len(t) - 1])
  <2>1. Len(t) - 1 \in 0..Len(t) - 1
    BY <1>1
  <2> QED
    BY <1>3, <2>1
<1>5. /\ before.bytes = SubSeq(t, 1, Len(t) - 1) /\ before.sb = sb[Len(t) - 1]
      /\ before.thrown = FALSE
  BY <1>4 DEF Plain
<1> HIDE DEF before
<1>6. t[Len(t)] # Thrown
  <2>1. t[Len(t)] \in CommandTable
    BY <1>1
  <2> QED
    BY <2>1 DEF CommandTable, Thrown
<1>7. encodeTelnetCommand(words) = Append(SubSeq(t, 1, Len(t) - 1), t[Len(t)])
  BY <1>5, <1>6 DEF encodeTelnetCommand, before
<1>8. Append(SubSeq(t, 1, Len(t) - 1), t[Len(t)]) = SubSeq(t, 1, Len(t))
  <2>1. Len(t) - 1 \in Nat /\ Len(t) - 1 < Len(t) /\ (Len(t) - 1) + 1 = Len(t)
    BY <1>1
  <2> QED
    BY <2>1, PrefixOn
<1>9. SubSeq(t, 1, Len(t)) = t
  OBVIOUS
<1> QED
  BY <1>7, <1>8, <1>9

\* A command of three words is its own bytes.
LEMMA EncodeThree ==
  ASSUME NEW verb \in Verbs, NEW option \in Options \cup {"TERM_TYPE"}
  PROVE  encodeTelnetCommand(<<"IAC", verb, option>>) = <<"IAC", verb, option>>
<1> DEFINE words == <<"IAC", verb, option>>
           sb    == [n \in 0..3 |-> FALSE]
<1>1. /\ words \in Seq(CommandTable) /\ Len(words) = 3 /\ words # <<>>
      /\ words[1] = "IAC" /\ words[2] = verb /\ words[3] = option
  BY DEF CommandTable, Verbs, Options
<1>2. sb \in [0..3 -> BOOLEAN] /\ \A n \in 0..3 : sb[n] = FALSE
  OBVIOUS
<1> HIDE DEF words, sb
<1>3. ASSUME NEW n \in 1..3 - 1
      PROVE  /\ words[n] # "BINARY" /\ (sb[n] <=> EntersSB(words[n], sb[n - 1]))
             /\ findTelnetCommandByName(words[n], sb[n - 1]) = words[n]
             /\ findTelnetCommandByName(words[n], sb[n]) = words[n]
  <2>1. n = 1 \/ n = 2
    OBVIOUS
  <2>2. sb[n] = FALSE /\ sb[n - 1] = FALSE
    BY <1>2
  <2>3. words[n] \in CommandTable \ {"BINARY", "SB"}
    BY <1>1, <2>1 DEF CommandTable, Verbs
  <2> QED
    BY <2>2, <2>3 DEF EntersSB, findTelnetCommandByName
<1>4. findTelnetCommandByName(words[3], sb[3 - 1]) = words[3]
  <2>1. words[3] \in CommandTable /\ sb[3 - 1] = FALSE
    BY <1>1, <1>2 DEF CommandTable, Options
  <2> QED
    BY <2>1 DEF findTelnetCommandByName
<1>5. sb[0] = FALSE
  BY <1>2
<1>6. encodeTelnetCommand(words) = words
  <2>1. \A n \in 1..Len(words) - 1 :
          /\ words[n] # "BINARY" /\ (sb[n] <=> EntersSB(words[n], sb[n - 1]))
          /\ findTelnetCommandByName(words[n], sb[n - 1]) = words[n]
          /\ findTelnetCommandByName(words[n], sb[n]) = words[n]
    BY <1>1, <1>3
  <2>2. findTelnetCommandByName(words[Len(words)], sb[Len(words) - 1]) = words[Len(words)]
    BY <1>1, <1>4
  <2>3. sb \in [0..Len(words) -> BOOLEAN]
    BY <1>1, <1>2
  <2> QED
    BY <1>1, <1>5, <2>1, <2>2, <2>3, EncodesAs, Zenon
<1> QED
  BY <1>6 DEF words

\* The request for the type, in bytes.
LEMMA EncodeRequest == Request = <<"IAC", "SB", "TERM_TYPE", "ECHO", "IAC", "SE">>
<1> DEFINE words == <<"IAC", "SB", "TERM_TYPE", "SEND", "IAC", "SE">>
           t     == <<"IAC", "SB", "TERM_TYPE", "ECHO", "IAC", "SE">>
           S     == CommandTable \cup {"SEND"}
           sb    == [n \in 0..6 |-> IF n >= 2 THEN TRUE ELSE FALSE]
<1>1. /\ words \in Seq(S) /\ Len(words) = 6
      /\ words[1] = "IAC" /\ words[2] = "SB" /\ words[3] = "TERM_TYPE"
      /\ words[4] = "SEND" /\ words[5] = "IAC" /\ words[6] = "SE"
  BY DEF CommandTable
<1>2. /\ t \in Seq(CommandTable) /\ Len(t) = 6 /\ t # <<>>
      /\ t[1] = "IAC" /\ t[2] = "SB" /\ t[3] = "TERM_TYPE"
      /\ t[4] = "ECHO" /\ t[5] = "IAC" /\ t[6] = "SE"
  BY DEF CommandTable
<1>3. sb \in [0..6 -> BOOLEAN] /\ \A n \in 0..6 : sb[n] <=> n >= 2
  OBVIOUS
<1> HIDE DEF words, t, S, sb
<1>4. ASSUME NEW n \in 1..6 - 1
      PROVE  /\ t[n] # "BINARY" /\ (sb[n] <=> EntersSB(t[n], sb[n - 1]))
             /\ findTelnetCommandByName(words[n], sb[n - 1]) = t[n]
             /\ findTelnetCommandByName(words[n], sb[n]) = t[n]
  <2>1. n = 1 \/ n = 2 \/ n = 3 \/ n = 4 \/ n = 5
    OBVIOUS
  <2>2. (sb[n] <=> n >= 2) /\ (sb[n - 1] <=> n >= 3)
    BY <1>3
  <2>3. t[n] # "BINARY" /\ (sb[n] <=> EntersSB(t[n], sb[n - 1]))
    BY <1>2, <2>1, <2>2 DEF EntersSB
  <2>4. /\ DOMAIN NegotiationTable = {"IS", "SEND"} /\ NegotiationTable["SEND"] = "ECHO"
        /\ {"IAC", "SB", "TERM_TYPE", "SE"} \subseteq CommandTable
    BY DEF NegotiationTable, CommandTable
  <2>5. findTelnetCommandByName(words[n], sb[n - 1]) = t[n]
    BY <1>1, <1>2, <2>1, <2>2, <2>4 DEF findTelnetCommandByName
  <2>6. findTelnetCommandByName(words[n], sb[n]) = t[n]
    BY <1>1, <1>2, <2>1, <2>2, <2>4 DEF findTelnetCommandByName
  <2> QED
    BY <2>3, <2>5, <2>6
<1>5. findTelnetCommandByName(words[6], sb[6 - 1]) = t[6]
  BY <1>1, <1>2 DEF findTelnetCommandByName, NegotiationTable, CommandTable
<1>6. sb[0] = FALSE
  BY <1>3
<1>7. encodeTelnetCommand(words) = t
  <2>1. /\ Len(words) = Len(t) /\ sb \in [0..Len(t) -> BOOLEAN]
        /\ findTelnetCommandByName(words[Len(t)], sb[Len(t) - 1]) = t[Len(t)]
    BY <1>1, <1>2, <1>3, <1>5
  <2>2. \A n \in 1..Len(t) - 1 :
          /\ t[n] # "BINARY" /\ (sb[n] <=> EntersSB(t[n], sb[n - 1]))
          /\ findTelnetCommandByName(words[n], sb[n - 1]) = t[n]
          /\ findTelnetCommandByName(words[n], sb[n]) = t[n]
    BY <1>2, <1>4
  <2>3. words \in Seq(S) /\ t \in Seq(CommandTable) /\ t # <<>>
    BY <1>1, <1>2
  <2> QED
    BY <1>6, <2>1, <2>2, <2>3, EncodesAs
<1> QED
  BY <1>7 DEF words, t, Request

\* What the commands are.
LEMMA CommandsAre ==
  /\ Offer = <<"IAC", "WILL", "TERM_TYPE">> /\ Refusal = <<"IAC", "WONT", "TERM_TYPE">>
  /\ Ask = <<"IAC", "DO", "TERM_TYPE">>
  /\ Request = <<"IAC", "SB", "TERM_TYPE", "ECHO", "IAC", "SE">>
BY EncodeThree, EncodeRequest DEF Offer, Refusal, Ask, Verbs

\* Two sequences one behind the other.
LEMMA Joined ==
  ASSUME NEW S, NEW s \in Seq(S), NEW t \in Seq(S)
  PROVE  /\ s \o t \in Seq(S) /\ Len(s \o t) = Len(s) + Len(t)
         /\ \A k \in 1..Len(s) : (s \o t)[k] = s[k]
         /\ \A k \in 1..Len(t) : (s \o t)[Len(s) + k] = t[k]
OBVIOUS

\* The client's answer, byte for byte.
LEMMA AnswerIs ==
  /\ Answer \in Seq(Bytes) /\ Len(Name) \in Nat \ {0} /\ Len(Answer) = Len(Name) + 6
  /\ Answer[1] = "IAC" /\ Answer[2] = "SB" /\ Answer[3] = "TERM_TYPE" /\ Answer[4] = "BINARY"
  /\ \A k \in 1..Len(Name) : Answer[4 + k] = Name[k] /\ Name[k] \in Letters
  /\ Answer[Len(Name) + 5] = "IAC" /\ Answer[Len(Name) + 6] = "SE"
<1> DEFINE a == <<"IAC", "SB", "TERM_TYPE", "BINARY">>
           b == <<"IAC", "SE">>
<1>1. /\ a \in Seq(Bytes) /\ Len(a) = 4
      /\ a[1] = "IAC" /\ a[2] = "SB" /\ a[3] = "TERM_TYPE" /\ a[4] = "BINARY"
  BY DEF Bytes, CommandTable
<1>2. b \in Seq(Bytes) /\ Len(b) = 2 /\ b[1] = "IAC" /\ b[2] = "SE"
  BY DEF Bytes, CommandTable
<1>3. /\ Name \in Seq(Bytes) /\ Len(Name) \in Nat \ {0}
      /\ \A k \in 1..Len(Name) : Name[k] \in Letters
  BY NegotiationAssumption DEF Bytes
<1> HIDE DEF a, b
<1>4. Answer = (a \o Name) \o b
  BY DEF Answer, a, b
<1>5. /\ a \o Name \in Seq(Bytes) /\ Len(a \o Name) = Len(Name) + 4
      /\ \A k \in 1..4 : (a \o Name)[k] = a[k]
      /\ \A k \in 1..Len(Name) : (a \o Name)[4 + k] = Name[k]
  <2>1. a \in Seq(Bytes) /\ Name \in Seq(Bytes)
    BY <1>1, <1>3
  <2>2. /\ a \o Name \in Seq(Bytes) /\ Len(a \o Name) = Len(a) + Len(Name)
        /\ \A k \in 1..Len(a) : (a \o Name)[k] = a[k]
        /\ \A k \in 1..Len(Name) : (a \o Name)[Len(a) + k] = Name[k]
    BY <2>1, Joined
  <2> QED
    BY <1>1, <1>3, <2>2
<1> DEFINE c == a \o Name
<1> HIDE DEF c
<1>6. /\ c \in Seq(Bytes) /\ Len(c) = Len(Name) + 4
      /\ \A k \in 1..4 : c[k] = a[k]
      /\ \A k \in 1..Len(Name) : c[4 + k] = Name[k]
  BY <1>5 DEF c
<1>7. /\ c \o b \in Seq(Bytes) /\ Len(c \o b) = Len(Name) + 6
      /\ \A k \in 1..Len(Name) + 4 : (c \o b)[k] = c[k]
      /\ (c \o b)[Len(Name) + 5] = b[1] /\ (c \o b)[Len(Name) + 6] = b[2]
  <2>1. /\ c \o b \in Seq(Bytes) /\ Len(c \o b) = Len(c) + Len(b)
        /\ \A k \in 1..Len(c) : (c \o b)[k] = c[k]
        /\ \A k \in 1..Len(b) : (c \o b)[Len(c) + k] = b[k]
    <3>1. c \in Seq(Bytes) /\ b \in Seq(Bytes)
      BY <1>2, <1>6
    <3> QED
      BY <3>1, Joined
  <2>2. 1 \in 1..Len(b) /\ 2 \in 1..Len(b) /\ Len(c) + 1 = Len(Name) + 5 /\ Len(c) + 2 = Len(Name) + 6
    BY <1>2, <1>3, <1>6
  <2>3. (c \o b)[Len(Name) + 5] = b[1] /\ (c \o b)[Len(Name) + 6] = b[2]
    BY <2>1, <2>2, Zenon
  <2> QED
    BY <1>2, <1>3, <1>6, <2>1, <2>3
<1>8. Answer = c \o b
  BY <1>4 DEF c
<1>9. /\ 1 \in 1..4 /\ 2 \in 1..4 /\ 3 \in 1..4 /\ 4 \in 1..4
      /\ \A k \in 1..4 : k \in 1..Len(Name) + 4
      /\ \A k \in 1..Len(Name) : 4 + k \in 1..Len(Name) + 4
  BY <1>3
<1> QED
  BY <1>1, <1>2, <1>3, <1>6, <1>7, <1>8, <1>9

\* Three words begin no text and no subnegotiation.
Plainly(c) ==
  /\ c \in Seq(Bytes) /\ Len(c) = 3
  /\ c[1] = "IAC" /\ c[2] \in Verbs /\ c[3] \in Options \cup {"TERM_TYPE"}

\* What kind of command each of them is.
LEMMA CommandTypes ==
  /\ \A c \in Replies : Plainly(c) /\ c[3] \in Options
  /\ Plainly(Offer) /\ Plainly(Refusal) /\ Plainly(Ask)
  /\ Offer[2] = "WILL" /\ Offer[3] = "TERM_TYPE"
  /\ Refusal[2] = "WONT" /\ Refusal[3] = "TERM_TYPE"
  /\ Ask[2] = "DO" /\ Ask[3] = "TERM_TYPE"
  /\ Request \in Seq(Bytes) /\ Len(Request) = 6 /\ Request[2] = "SB"
  /\ \A key \in Keys : <<key>> \in Seq(Bytes) /\ Len(<<key>>) = 1
                       /\ <<key>>[1] = key /\ key \in Letters
<1>1. ASSUME NEW verb \in Verbs, NEW option \in Options \cup {"TERM_TYPE"}
      PROVE  Plainly(<<"IAC", verb, option>>)
  BY DEF Plainly, Bytes, CommandTable, Verbs, Options
<1>2. \A c \in Replies : Plainly(c) /\ c[3] \in Options
  BY <1>1 DEF Replies
<1>3. /\ Plainly(Offer) /\ Plainly(Refusal) /\ Plainly(Ask)
      /\ Offer[2] = "WILL" /\ Offer[3] = "TERM_TYPE"
      /\ Refusal[2] = "WONT" /\ Refusal[3] = "TERM_TYPE"
      /\ Ask[2] = "DO" /\ Ask[3] = "TERM_TYPE"
  BY <1>1, CommandsAre DEF Verbs
<1>4. Request \in Seq(Bytes) /\ Len(Request) = 6 /\ Request[2] = "SB"
  BY CommandsAre DEF Bytes, CommandTable
<1>5. \A key \in Keys : <<key>> \in Seq(Bytes) /\ Len(<<key>>) = 1
                        /\ <<key>>[1] = key /\ key \in Letters
  BY NegotiationAssumption DEF Bytes
<1> QED
  BY <1>2, <1>3, <1>4, <1>5

-----------------------------------------------------------------------------
(* The decoder.                                                            *)

AnyByte == Bytes \cup DOMAIN NegotiationTable

States == [words : Seq(Seq(AnyByte)), sb : BOOLEAN, text : BOOLEAN, begun : BOOLEAN]

\* Every byte that begins no letter of a text is a word.
LEMMA DecodeWord ==
  ASSUME NEW state \in States, NEW byte \in Bytes, ~ state.text \/ byte = "IAC"
  PROVE  LET next == DecodeByte(state, byte)
             sb   == IF state.text THEN state.sb ELSE EntersSB(byte, state.sb)
         IN  /\ next \in States
             /\ next.words = Append(state.words, <<findTelnetCommandByID(byte, sb)>>)
             /\ next.sb = sb /\ next.text = EntersText(byte) /\ next.begun = FALSE
<1> DEFINE next == DecodeByte(state, byte)
           sb   == IF state.text THEN state.sb ELSE EntersSB(byte, state.sb)
           word == <<findTelnetCommandByID(byte, sb)>>
<1>1. next = [words |-> Append(state.words, word), sb |-> sb,
              text |-> EntersText(byte), begun |-> FALSE]
  BY DEF DecodeByte
<1>2. findTelnetCommandByID(byte, sb) \in AnyByte
  <2> DEFINE Known == sb /\ \E name \in DOMAIN NegotiationTable : NegotiationTable[name] = byte
             found == CHOOSE name \in DOMAIN NegotiationTable : NegotiationTable[name] = byte
  <2>1. Known => found \in DOMAIN NegotiationTable
    BY Zenon
  <2>2. findTelnetCommandByID(byte, sb) = IF Known THEN found ELSE byte
    BY DEF findTelnetCommandByID
  <2> HIDE DEF Known, found
  <2> QED
    BY <2>1, <2>2 DEF AnyByte
<1>3. word \in Seq(AnyByte)
  BY <1>2
<1>4. sb \in BOOLEAN
  BY DEF States, EntersSB
<1> HIDE DEF word, sb
<1>5. state.words \in Seq(Seq(AnyByte)) /\ EntersText(byte) \in BOOLEAN
  BY DEF States, EntersText
<1>6. Append(state.words, word) \in Seq(Seq(AnyByte))
  BY <1>3, <1>5
<1>7. next \in States
  BY <1>1, <1>4, <1>5, <1>6 DEF States
<1>8. /\ next.words = Append(state.words, word) /\ next.sb = sb
      /\ next.text = EntersText(byte) /\ next.begun = FALSE
  BY <1>1
<1> QED
  BY <1>7, <1>8 DEF word, sb

\* What a letter of a text makes of the state.
Letter(state, next, byte) ==
  /\ next \in States /\ next.text /\ next.sb = state.sb /\ next.begun
  /\ ~ state.begun => next.words = Append(state.words, <<byte>>)
  /\ state.begun =>
       /\ Len(next.words) = Len(state.words)
       /\ \A k \in 1..Len(state.words) - 1 : next.words[k] = state.words[k]
       /\ next.words[Len(state.words)] = Append(state.words[Len(state.words)], byte)

\* A letter of a text begins a word or is added to the last one.
LEMMA DecodeLetter ==
  ASSUME NEW state \in States, NEW byte \in Bytes, state.text, byte # "IAC",
         state.begun => state.words # <<>>
  PROVE  Letter(state, DecodeByte(state, byte), byte)
<1> DEFINE next  == DecodeByte(state, byte)
           last  == Len(state.words)
           longer == [state.words EXCEPT ![last] = Append(state.words[last], byte)]
           words == IF state.begun THEN longer ELSE Append(state.words, <<byte>>)
<1>1. state.words \in Seq(Seq(AnyByte)) /\ last \in Nat /\ byte \in AnyByte
  BY DEF States, AnyByte
<1>2. next = [state EXCEPT !.words = words, !.begun = TRUE]
  BY DEF DecodeByte
<1>3. ASSUME state.begun
      PROVE  /\ longer \in Seq(Seq(AnyByte)) /\ Len(longer) = last
             /\ \A k \in 1..last - 1 : longer[k] = state.words[k]
             /\ longer[last] = Append(state.words[last], byte)
  <2>1. last \in 1..last /\ state.words[last] \in Seq(AnyByte)
    BY <1>1, <1>3
  <2>2. Append(state.words[last], byte) \in Seq(AnyByte)
    BY <1>1, <2>1
  <2>3. longer \in Seq(Seq(AnyByte)) /\ Len(longer) = last
    BY <1>1, <2>1, <2>2
  <2>4. /\ \A k \in 1..last - 1 : longer[k] = state.words[k]
        /\ longer[last] = Append(state.words[last], byte)
    BY <1>1, <2>1
  <2> QED
    BY <2>3, <2>4
<1>4. words \in Seq(Seq(AnyByte))
  <2>1. ~ state.begun => words = Append(state.words, <<byte>>)
    OBVIOUS
  <2>2. state.begun => words = longer
    OBVIOUS
  <2>3. Append(state.words, <<byte>>) \in Seq(Seq(AnyByte))
    BY <1>1
  <2> HIDE DEF longer, words
  <2> QED
    BY <1>3, <2>1, <2>2, <2>3, Zenon
<1>5. /\ state.begun => words = longer
      /\ ~ state.begun => words = Append(state.words, <<byte>>)
  OBVIOUS
<1> HIDE DEF longer, words
<1>6. /\ next \in States /\ next.words = words /\ next.sb = state.sb
      /\ next.text = state.text /\ next.begun = TRUE
  BY <1>2, <1>4 DEF States
<1> HIDE DEF next
<1>7. Letter(state, next, byte)
  BY <1>3, <1>5, <1>6 DEF Letter
<1> QED
  BY <1>7 DEF next


\* What holds of p, and of every number up to q with its predecessor, holds up to q.
LEMMA Upwards ==
  ASSUME NEW p \in Nat, NEW q \in Nat, NEW T, p <= q => p \in T,
         \A n \in p + 1..q : n - 1 \in T => n \in T
  PROVE  \A n \in p..q : n \in T
<1> DEFINE Others == {n \in p..q : n \notin T}
<1>1. SUFFICES ASSUME Others # {} PROVE FALSE
  OBVIOUS
<1>2. PICK n \in Others : \A k \in Others : n <= k
  <2>1. Others \in SUBSET Nat
    OBVIOUS
  <2> HIDE DEF Others
  <2> QED
    BY <1>1, <2>1, LeastNat, Zenon
<1>3. n \in p..q /\ n \notin T /\ n # p
  BY <1>2
<1>4. n - 1 \in p..q /\ n \in p + 1..q /\ ~ (n <= n - 1)
  BY <1>3
<1>5. n - 1 \in T
  BY <1>2, <1>4
<1> QED
  BY <1>3, <1>4, <1>5

\* The states of the loop are states, and a word that has begun is there.
LEMMA DecodingTypes ==
  ASSUME NEW m \in Seq(Bytes)
  PROVE  \A n \in 0..Len(m) :
           /\ Decoding(m)[n] \in States
           /\ Decoding(m)[n].begun => Decoding(m)[n].words # <<>>
<1> DEFINE So(n) == /\ Decoding(m)[n] \in States
                    /\ Decoding(m)[n].begun => Decoding(m)[n].words # <<>>
           T     == {n \in 0..Len(m) : So(n)}
<1>1. /\ Len(m) \in Nat
      /\ Decoding(m)[0] = DecodeStart
      /\ \A n \in 1..Len(m) : Decoding(m)[n] = DecodeByte(Decoding(m)[n - 1], m[n])
  BY DecodingIs
<1>2. So(0)
  <2>1. DecodeStart \in States /\ ~ DecodeStart.begun
    BY DEF DecodeStart, States
  <2> QED
    BY <1>1, <2>1
<1>3. ASSUME NEW n \in 1..Len(m), So(n - 1) PROVE So(n)
  <2> DEFINE state == Decoding(m)[n - 1]
             next  == Decoding(m)[n]
  <2>1. next = DecodeByte(state, m[n]) /\ m[n] \in Bytes
    BY <1>1
  <2>2. state \in States /\ (state.begun => state.words # <<>>)
    BY <1>3
  <2> HIDE DEF state, next
  <2>3. CASE ~ state.text \/ m[n] = "IAC"
    <3>1. next \in States /\ next.begun = FALSE
      BY <2>1, <2>2, <2>3, DecodeWord
    <3> QED
      BY <3>1 DEF next
  <2>4. CASE ~ (~ state.text \/ m[n] = "IAC")
    <3>1. state.text /\ m[n] # "IAC"
      BY <2>4
    <3>2. /\ next \in States
          /\ ~ state.begun => next.words = Append(state.words, <<m[n]>>)
          /\ state.begun => Len(next.words) = Len(state.words)
      <4>1. Letter(state, next, m[n])
        BY <2>1, <2>2, <3>1, DecodeLetter
      <4> QED
        BY <4>1 DEF Letter
    <3>3. next.words # <<>>
      <4>1. state.words \in Seq(Seq(AnyByte)) /\ next.words \in Seq(Seq(AnyByte))
        BY <2>2, <3>2 DEF States
      <4> QED
        BY <2>2, <3>2, <4>1
    <3> QED
      BY <3>2, <3>3 DEF next
  <2> QED
    BY <2>3, <2>4
<1>4. \A n \in 0..Len(m) : n \in T
  <2>1. 0 \in T
    BY <1>1, <1>2
  <2>2. \A n \in 0 + 1..Len(m) : n - 1 \in T => n \in T
    BY <1>1, <1>3
  <2> HIDE DEF T
  <2> QED
    BY <1>1, <2>1, <2>2, Upwards
<1> QED
  BY <1>4

\* Words that are complete stay.
LEMMA DecodingKeeps ==
  ASSUME NEW m \in Seq(Bytes), NEW p \in 0..Len(m), ~ Decoding(m)[p].begun
  PROVE  \A n \in p..Len(m) :
           /\ Len(Decoding(m)[n].words) >= Len(Decoding(m)[p].words)
           /\ \A k \in 1..Len(Decoding(m)[p].words) :
                Decoding(m)[n].words[k] = Decoding(m)[p].words[k]
<1> DEFINE kept  == Decoding(m)[p].words
           So(n) == /\ Len(Decoding(m)[n].words) >= Len(kept)
                    /\ Decoding(m)[n].begun => Len(Decoding(m)[n].words) > Len(kept)
                    /\ \A k \in 1..Len(kept) : Decoding(m)[n].words[k] = kept[k]
           T     == {n \in p..Len(m) : So(n)}
<1>1. /\ Len(m) \in Nat /\ p \in Nat
      /\ \A n \in 1..Len(m) : Decoding(m)[n] = DecodeByte(Decoding(m)[n - 1], m[n])
  BY DecodingIs
<1>2. Len(kept) \in Nat
  BY DecodingTypes DEF States
<1>3. So(p)
  BY <1>2
<1>4. ASSUME NEW n \in p + 1..Len(m), So(n - 1) PROVE So(n)
  <2> DEFINE state == Decoding(m)[n - 1]
             next  == Decoding(m)[n]
  <2>1. n \in 1..Len(m) /\ n - 1 \in 0..Len(m)
    BY <1>1
  <2>2. next = DecodeByte(state, m[n]) /\ m[n] \in Bytes
    BY <1>1, <2>1
  <2>3. state \in States /\ (state.begun => state.words # <<>>)
    BY <2>1, DecodingTypes
  <2>4. /\ Len(state.words) >= Len(kept)
        /\ state.begun => Len(state.words) > Len(kept)
        /\ \A k \in 1..Len(kept) : state.words[k] = kept[k]
    BY <1>4
  <2> HIDE DEF state, next, kept
  <2> DEFINE words == state.words
             after == next.words
             L     == Len(kept)
             w     == Len(words)
  <2>5. words \in Seq(Seq(AnyByte)) /\ w \in Nat /\ L \in Nat
    BY <1>2, <2>3 DEF States
  <2>6. /\ w >= L /\ (state.begun => w > L)
        /\ \A k \in 1..L : words[k] = kept[k]
    BY <2>4
  <2>7. \/ next.begun = FALSE /\ \E word \in Seq(AnyByte) : after = Append(words, word)
        \/ ~ state.begun /\ \E word \in Seq(AnyByte) : after = Append(words, word)
        \/ state.begun /\ Len(after) = w /\ \A k \in 1..w - 1 : after[k] = words[k]
    <3>1. CASE ~ state.text \/ m[n] = "IAC"
      <4> DEFINE sb == IF state.text THEN state.sb ELSE EntersSB(m[n], state.sb)
                 word == <<findTelnetCommandByID(m[n], sb)>>
      <4>1. /\ next \in States /\ next.begun = FALSE
            /\ after = Append(words, word)
        BY <2>2, <2>3, <3>1, DecodeWord
      <4>2. after \in Seq(Seq(AnyByte))
        BY <4>1 DEF States
      <4> HIDE DEF word, words, after, w
      <4>3. Len(after) = Len(words) + 1 /\ after[Len(words) + 1] = word
        BY <2>5, <4>1
      <4>4. word \in Seq(AnyByte)
        BY <2>5, <4>2, <4>3 DEF w
      <4> QED
        BY <4>1, <4>4
    <3>2. CASE ~ (~ state.text \/ m[n] = "IAC")
      <4>1. state.text /\ m[n] # "IAC"
        BY <3>2
      <4>2. /\ ~ state.begun => after = Append(words, <<m[n]>>)
            /\ state.begun =>
                 Len(after) = w /\ \A k \in 1..w - 1 : after[k] = words[k]
        <5>1. Letter(state, next, m[n])
          BY <2>2, <2>3, <4>1, DecodeLetter
        <5> QED
          BY <5>1 DEF Letter
      <4>3. <<m[n]>> \in Seq(AnyByte)
        BY <2>2 DEF AnyByte
      <4> HIDE DEF words, after, w
      <4> QED
        BY <4>2, <4>3
    <3> QED
      BY <3>1, <3>2
  <2> HIDE DEF words, after, L, w
  <2>8. ASSUME NEW word \in Seq(AnyByte), after = Append(words, word)
        PROVE  Len(after) > L /\ \A k \in 1..L : after[k] = kept[k]
    <3>1. Len(after) = w + 1 /\ \A k \in 1..w : after[k] = words[k]
      BY <2>5, <2>8 DEF w
    <3> QED
      BY <2>5, <2>6, <3>1
  <2>9. ASSUME state.begun, Len(after) = w, \A k \in 1..w - 1 : after[k] = words[k]
        PROVE  Len(after) > L /\ \A k \in 1..L : after[k] = kept[k]
    BY <2>5, <2>6, <2>9
  <2>10. Len(after) > L /\ \A k \in 1..L : after[k] = kept[k]
    BY <2>7, <2>8, <2>9
  <2>11. Len(after) \in Nat
    <3>1. \/ Len(after) = w
          \/ \E word \in Seq(AnyByte) : after = Append(words, word)
      BY <2>7
    <3> QED
      BY <2>5, <3>1
  <2>12. Len(after) >= L
    BY <2>5, <2>10, <2>11
  <2> QED
    BY <2>10, <2>12 DEF next, after, L
<1>5. \A n \in p..Len(m) : n \in T
  <2>1. p \in T
    BY <1>1, <1>3
  <2>2. \A n \in p + 1..Len(m) : n - 1 \in T => n \in T
    BY <1>1, <1>4
  <2> HIDE DEF T
  <2> QED
    BY <1>1, <2>1, <2>2, Upwards
<1> QED
  BY <1>5

\* Outside texts and subnegotiations the word of a byte is its name.
LEMMA NamesItself ==
  ASSUME NEW byte \in Bytes, NEW sb \in BOOLEAN, sb => byte \notin {"BINARY", "ECHO"}
  PROVE  findTelnetCommandByID(byte, sb) = byte
BY DEF findTelnetCommandByID, NegotiationTable

\* A byte outside texts adds its word to those before.
Adds(before, after, word, sb, text) ==
  /\ Len(after.words) = Len(before.words) + 1
  /\ \A k \in 1..Len(before.words) : after.words[k] = before.words[k]
  /\ after.words[Len(before.words) + 1] = <<word>>
  /\ after.sb = sb /\ after.text = text /\ after.begun = FALSE

\* A byte outside a text adds one word.
LEMMA DecodeNext ==
  ASSUME NEW m \in Seq(Bytes), NEW p \in 0..Len(m), NEW n \in 1..Len(m), n = p + 1,
         ~ Decoding(m)[p].text,
         NEW sb, sb = EntersSB(m[n], Decoding(m)[p].sb),
         NEW word, word = findTelnetCommandByID(m[n], sb)
  PROVE  Adds(Decoding(m)[p], Decoding(m)[n], word, sb, EntersText(m[n]))
<1> DEFINE before == Decoding(m)[p]
           after  == Decoding(m)[n]
<1>1. /\ after = DecodeByte(before, m[n]) /\ m[n] \in Bytes
      /\ n \in 0..Len(m)
  <2>1. n - 1 = p /\ n \in 0..Len(m)
    OBVIOUS
  <2> QED
    BY <2>1, DecodingIs
<1>2. before \in States /\ after \in States
  BY <1>1, DecodingTypes
<1>3. ~ before.text /\ sb = EntersSB(m[n], before.sb)
  OBVIOUS
<1> HIDE DEF before, after
<1>4. /\ after.words = Append(before.words, <<word>>)
      /\ after.sb = sb /\ after.text = EntersText(m[n]) /\ after.begun = FALSE
  <2> DEFINE mode == IF before.text THEN before.sb ELSE EntersSB(m[n], before.sb)
  <2>1. mode = sb
    BY <1>3
  <2>2. ~ before.text \/ m[n] = "IAC"
    BY <1>3
  <2>3. LET next == DecodeByte(before, m[n])
        IN  /\ next.words = Append(before.words, <<findTelnetCommandByID(m[n], mode)>>)
            /\ next.sb = mode /\ next.text = EntersText(m[n]) /\ next.begun = FALSE
    BY <1>1, <1>2, <2>2, DecodeWord
  <2> HIDE DEF mode
  <2> QED
    BY <1>1, <2>1, <2>3
<1>5. /\ Len(after.words) = Len(before.words) + 1
      /\ \A k \in 1..Len(before.words) : after.words[k] = before.words[k]
      /\ after.words[Len(before.words) + 1] = <<word>>
  <2>1. before.words \in Seq(Seq(AnyByte)) /\ after.words \in Seq(Seq(AnyByte))
    BY <1>2 DEF States
  <2> QED
    BY <1>4, <2>1
<1> QED
  BY <1>4, <1>5 DEF Adds, before, after

\* The first two words of a command, and the third one of WILL.
LEMMA DecodeFirst ==
  ASSUME NEW m \in Seq(Bytes), Len(m) >= 1, m[1] = "IAC"
  PROVE  /\ Len(Decoding(m)[1].words) = 1 /\ Decoding(m)[1].words[1] = <<"IAC">>
         /\ Decoding(m)[1].sb = FALSE /\ Decoding(m)[1].text = FALSE
         /\ Decoding(m)[1].begun = FALSE
<1>1. Decoding(m)[0] = DecodeStart
  BY DecodingIs
<1>2. /\ Decoding(m)[0].text = FALSE /\ Decoding(m)[0].sb = FALSE
      /\ Decoding(m)[0].words = <<>> /\ Len(Decoding(m)[0].words) = 0
  BY <1>1 DEF DecodeStart
<1>3. EntersSB(m[1], Decoding(m)[0].sb) = FALSE /\ EntersText(m[1]) = FALSE
  BY <1>2 DEF EntersSB, EntersText
<1>4. findTelnetCommandByID(m[1], FALSE) = "IAC"
  BY NamesItself DEF Bytes, CommandTable
<1>5. Adds(Decoding(m)[0], Decoding(m)[1], "IAC", FALSE, EntersText(m[1]))
  <2>1. 0 \in 0..Len(m) /\ 1 \in 1..Len(m) /\ 1 = 0 + 1
    OBVIOUS
  <2> QED
    BY <1>2, <1>3, <1>4, <2>1, DecodeNext
<1> HIDE DEF Adds
<1> QED
  BY <1>2, <1>3, <1>5 DEF Adds

\* The second byte of a command gives its verb.
LEMMA DecodeSecond ==
  ASSUME NEW m \in Seq(Bytes), Len(m) >= 2, m[1] = "IAC"
  PROVE  /\ Len(Decoding(m)[2].words) = 2
         /\ Decoding(m)[2].words[1] = <<"IAC">> /\ Decoding(m)[2].words[2] = <<m[2]>>
         /\ Decoding(m)[2].sb = (m[2] = "SB") /\ Decoding(m)[2].text = (m[2] = "BINARY")
         /\ Decoding(m)[2].begun = FALSE
<1>1. 1 \in 0..Len(m) /\ 2 \in 1..Len(m) /\ m[2] \in Bytes /\ 2 = 1 + 1 /\ 1 \in 1..1
  OBVIOUS
<1>2. /\ Len(Decoding(m)[1].words) = 1 /\ Decoding(m)[1].words[1] = <<"IAC">>
      /\ Decoding(m)[1].sb = FALSE /\ Decoding(m)[1].text = FALSE
  <2>1. Len(m) >= 1
    BY <1>1
  <2> QED
    BY <2>1, DecodeFirst
<1> DEFINE sb == m[2] = "SB"
<1>3. EntersSB(m[2], Decoding(m)[1].sb) = sb /\ EntersText(m[2]) = (m[2] = "BINARY")
  BY <1>2 DEF EntersSB, EntersText
<1>4. findTelnetCommandByID(m[2], sb) = m[2]
  <2>1. sb \in BOOLEAN /\ (sb => m[2] \notin {"BINARY", "ECHO"})
    OBVIOUS
  <2> HIDE DEF sb
  <2> QED
    BY <1>1, <2>1, NamesItself
<1> HIDE DEF sb
<1>5. Adds(Decoding(m)[1], Decoding(m)[2], m[2], sb, EntersText(m[2]))
  BY <1>1, <1>2, <1>3, <1>4, DecodeNext
<1>6. /\ Len(Decoding(m)[2].words) = 2
      /\ Decoding(m)[2].words[1] = <<"IAC">> /\ Decoding(m)[2].words[2] = <<m[2]>>
      /\ Decoding(m)[2].sb = sb /\ Decoding(m)[2].text = EntersText(m[2])
      /\ Decoding(m)[2].begun = FALSE
  BY <1>1, <1>2, <1>5 DEF Adds
<1> QED
  BY <1>3, <1>6 DEF sb

\* An offer, however it goes on, is decoded as IAC WILL.
LEMMA DecodeWill ==
  ASSUME NEW m \in Seq(Bytes), Len(m) >= 3, m[1] = "IAC", m[2] = "WILL"
  PROVE  /\ Len(Decoding(m)[3].words) = 3 /\ Decoding(m)[3].words[3] = <<m[3]>>
         /\ Decoding(m)[3].begun = FALSE
<1>1. 2 \in 0..Len(m) /\ 3 \in 1..Len(m) /\ m[3] \in Bytes /\ 3 = 2 + 1
  OBVIOUS
<1>2. /\ Len(Decoding(m)[2].words) = 2
      /\ Decoding(m)[2].sb = FALSE /\ Decoding(m)[2].text = FALSE
  <2>1. Len(m) >= 2
    BY <1>1
  <2> QED
    BY <2>1, DecodeSecond
<1> DEFINE sb == m[3] = "SB"
<1>3. EntersSB(m[3], Decoding(m)[2].sb) = sb
  BY <1>2 DEF EntersSB
<1>4. findTelnetCommandByID(m[3], sb) = m[3]
  <2>1. sb \in BOOLEAN /\ (sb => m[3] \notin {"BINARY", "ECHO"})
    OBVIOUS
  <2> HIDE DEF sb
  <2> QED
    BY <1>1, <2>1, NamesItself
<1> HIDE DEF sb
<1>5. Adds(Decoding(m)[2], Decoding(m)[3], m[3], sb, EntersText(m[3]))
  BY <1>1, <1>2, <1>3, <1>4, DecodeNext
<1> QED
  BY <1>1, <1>2, <1>5 DEF Adds

\* Words that are complete after p bytes are words of the whole.
LEMMA DecodedWords ==
  ASSUME NEW m \in Seq(Bytes), NEW p \in 0..Len(m), ~ Decoding(m)[p].begun
  PROVE  /\ Len(decodeTelnetCommand(m)) >= Len(Decoding(m)[p].words)
         /\ \A k \in 1..Len(Decoding(m)[p].words) :
              decodeTelnetCommand(m)[k] = Decoding(m)[p].words[k]
<1>1. Len(m) \in p..Len(m)
  OBVIOUS
<1> QED
  BY <1>1, DecodingKeeps DEF decodeTelnetCommand

\* Numbers that bound each other are the same.
LEMMA IntervalEnds ==
  ASSUME NEW a \in Nat, NEW b \in Nat, a <= b, a >= b
  PROVE  a = b
OBVIOUS

\* Facts about numbers that the provers do not find among sequences.
LEMMA OneOrMore ==
  ASSUME NEW a \in Nat, a >= 1
  PROVE  a = 1 \/ a >= 2
OBVIOUS

LEMMA TwoOrMore ==
  ASSUME NEW a \in Nat, a >= 2
  PROVE  a = 2 \/ a = 3 \/ a >= 4
OBVIOUS

LEMMA TwoToFour ==
  ASSUME NEW a \in Nat, a >= 2, a <= 4
  PROVE  a = 2 \/ a = 3 \/ a = 4
OBVIOUS

LEMMA AddAndTake ==
  ASSUME NEW a \in Nat, NEW b \in Nat
  PROVE  a = b + (a - b)
OBVIOUS

\* WillFormat fits what begins with WILL, and takes the word after it.
LEMMA WillScans ==
  ASSUME NEW m \in Seq(Bytes), isCommand(m)
  PROVE  /\ Scans(decodeTelnetCommand(m), WillFormat) <=> (Len(m) = 1 \/ m[2] = "WILL")
         /\ Len(m) <= 2 => Scanned(decodeTelnetCommand(m), WillFormat) = buffer
         /\ Len(m) >= 3 /\ m[2] = "WILL"
              => Scanned(decodeTelnetCommand(m), WillFormat) = <<m[3]>>
<1> DEFINE words == decodeTelnetCommand(m)
<1>1. Len(m) \in Nat /\ Len(m) >= 1 /\ m[1] = "IAC"
  BY DEF isCommand
<1>2. words = Decoding(m)[Len(m)].words /\ words \in Seq(Seq(AnyByte)) /\ Len(words) \in Nat
  BY <1>1, DecodingTypes DEF decodeTelnetCommand, States
<1>3. Len(WillFormat) = 2 /\ DOMAIN WillFormat = 1..2 /\ WillFormat[1] = "IAC" /\ WillFormat[2] = "WILL"
  BY DEF WillFormat
<1>4. CASE Len(m) = 1
  <2>1. Len(words) = 1 /\ words[1] = <<"IAC">>
    BY <1>1, <1>2, <1>4, DecodeFirst
  <2> HIDE DEF words
  <2>2. DOMAIN words \cap DOMAIN WillFormat = {1}
    BY <1>2, <1>3, <2>1
  <2>3. Scans(words, WillFormat)
    BY <1>3, <2>1, <2>2 DEF Scans
  <2>4. Scanned(words, WillFormat) = buffer
    BY <1>3, <2>1 DEF Scanned
  <2> QED
    BY <1>4, <2>3, <2>4 DEF words
<1>5. CASE Len(m) >= 2
  <2> DEFINE second == Decoding(m)[2]
  <2>1. /\ Len(second.words) = 2 /\ second.begun = FALSE
        /\ second.words[1] = <<"IAC">> /\ second.words[2] = <<m[2]>>
    BY <1>1, <1>5, DecodeSecond
  <2>2. Len(words) >= Len(second.words)
        /\ \A k \in 1..Len(second.words) : words[k] = second.words[k]
    <3>1. 2 \in 0..Len(m) /\ ~ Decoding(m)[2].begun
      BY <1>1, <1>5, <2>1
    <3> QED
      BY <3>1, DecodedWords
  <2> HIDE DEF second, words
  <2>3. Len(words) >= 2 /\ words[1] = <<"IAC">> /\ words[2] = <<m[2]>>
    BY <2>1, <2>2
  <2>4. Scans(words, WillFormat) <=> m[2] = "WILL"
    <3>1. DOMAIN words \cap DOMAIN WillFormat = {1, 2}
      BY <1>2, <1>3, <2>3
    <3>2. Scans(words, WillFormat) <=>
            words[1] = <<WillFormat[1]>> /\ words[2] = <<WillFormat[2]>>
      BY <3>1 DEF Scans
    <3>3. <<m[2]>> = <<"WILL">> <=> m[2] = "WILL"
      OBVIOUS
    <3> QED
      BY <1>3, <2>3, <3>2, <3>3
  <2>5. ASSUME Len(m) <= 2
        PROVE  Scanned(words, WillFormat) = buffer
    <3>1. Len(m) = 2
      BY <1>1, <1>5, <2>5, IntervalEnds
    <3>2. words = second.words
      BY <1>2, <3>1 DEF second
    <3> QED
      BY <1>3, <2>1, <3>2 DEF Scanned
  <2>6. ASSUME Len(m) >= 3, m[2] = "WILL"
        PROVE  Scanned(words, WillFormat) = <<m[3]>>
    <3> DEFINE third == Decoding(m)[3]
    <3>1. Len(third.words) = 3 /\ third.words[3] = <<m[3]>> /\ third.begun = FALSE
      BY <1>1, <2>6, DecodeWill
    <3>2. Len(words) >= Len(third.words)
          /\ \A k \in 1..Len(third.words) : words[k] = third.words[k]
      <4>1. 3 \in 0..Len(m) /\ ~ Decoding(m)[3].begun
        BY <1>1, <2>6, <3>1
      <4> QED
        BY <4>1, DecodedWords DEF words
    <3> HIDE DEF third
    <3>3. Len(words) > 2
      BY <1>2, <3>1, <3>2
    <3>4. 3 \in 1..Len(third.words)
      BY <3>1
    <3>5. words[3] = <<m[3]>>
      BY <3>1, <3>2, <3>4, Zenon
    <3> QED
      BY <1>3, <3>3, <3>5 DEF Scanned
  <2>7. ASSUME Len(m) = 1 PROVE FALSE
    BY <1>1, <1>5, <2>7
  <2>8. Scans(words, WillFormat) <=> (Len(m) = 1 \/ m[2] = "WILL")
    BY <2>4, <2>7
  <2> QED
    BY <2>5, <2>6, <2>8 DEF words
<1>6. Len(m) = 1 \/ Len(m) >= 2
  BY <1>1, OneOrMore
<1> QED
  BY <1>4, <1>5, <1>6, Zenon

-----------------------------------------------------------------------------
(* The answer of the client, read in part or with what came after it.      *)

BeginsAnswer(m) ==
  /\ m \in Seq(Bytes) /\ Len(m) >= 2
  /\ \A k \in 1..Len(m) : k <= Len(Answer) => m[k] = Answer[k]

\* The bytes of a message that begins as the answer does.
LEMMA AnswerBytes ==
  ASSUME NEW m, BeginsAnswer(m)
  PROVE  /\ m \in Seq(Bytes) /\ Len(m) \in Nat /\ Len(m) >= 2 /\ Len(Name) \in Nat \ {0}
         /\ m[1] = "IAC" /\ m[2] = "SB"
         /\ Len(m) >= 3 => m[3] = "TERM_TYPE"
         /\ Len(m) >= 4 => m[4] = "BINARY"
         /\ \A j \in 1..Len(Name) :
              4 + j <= Len(m) => m[4 + j] = Name[j] /\ m[4 + j] # "IAC" /\ m[4 + j] \in Bytes
         /\ Len(m) >= Len(Name) + 5 => m[Len(Name) + 5] = "IAC"
<1>1. m \in Seq(Bytes) /\ Len(m) \in Nat /\ Len(m) >= 2 /\ Len(Name) \in Nat \ {0}
  BY AnswerIs DEF BeginsAnswer
<1>2. Len(Answer) = Len(Name) + 6
  BY AnswerIs
<1>3. \A k \in 1..Len(Name) + 6 : k <= Len(m) => m[k] = Answer[k]
  BY <1>1, <1>2 DEF BeginsAnswer
<1>4. m[1] = "IAC" /\ m[2] = "SB"
  BY <1>1, <1>3, AnswerIs
<1>5. Len(m) >= 3 => m[3] = "TERM_TYPE"
  BY <1>1, <1>3, AnswerIs
<1>6. Len(m) >= 4 => m[4] = "BINARY"
  BY <1>1, <1>3, AnswerIs
<1>7. ASSUME NEW j \in 1..Len(Name), 4 + j <= Len(m)
      PROVE  m[4 + j] = Name[j] /\ m[4 + j] # "IAC" /\ m[4 + j] \in Bytes
  <2>1. 4 + j \in 1..Len(Name) + 6
    BY <1>1
  <2>2. m[4 + j] = Name[j] /\ Name[j] \in Letters
    BY <1>3, <1>7, <2>1, AnswerIs
  <2>3. "IAC" \notin Letters
    BY LettersAssumption DEF CommandTable
  <2> QED
    BY <2>2, <2>3 DEF Bytes
<1>8. Len(m) >= Len(Name) + 5 => m[Len(Name) + 5] = "IAC"
  BY <1>1, <1>3, AnswerIs
<1> QED
  BY <1>1, <1>4, <1>5, <1>6, <1>7, <1>8

\* A letter is added to the last word, if one has begun.
AddsLetter(before, after, byte) ==
  /\ after.text = TRUE /\ after.begun = TRUE
  /\ ~ before.begun =>
       /\ Len(after.words) = Len(before.words) + 1
       /\ after.words[Len(before.words) + 1] = <<byte>>
  /\ before.begun =>
       /\ Len(after.words) = Len(before.words)
       /\ after.words[Len(before.words)] = Append(before.words[Len(before.words)], byte)

\* A byte of a text adds a letter to the text.
LEMMA LetterNext ==
  ASSUME NEW m \in Seq(Bytes), NEW p \in 0..Len(m), NEW n \in 1..Len(m), n = p + 1,
         Decoding(m)[p].text, m[n] # "IAC"
  PROVE  AddsLetter(Decoding(m)[p], Decoding(m)[n], m[n])
<1> DEFINE before == Decoding(m)[p]
           after  == Decoding(m)[n]
<1>1. after = DecodeByte(before, m[n]) /\ m[n] \in Bytes /\ n \in 0..Len(m)
  <2>1. n - 1 = p /\ n \in 0..Len(m)
    OBVIOUS
  <2> QED
    BY <2>1, DecodingIs
<1>2. /\ before \in States /\ after \in States /\ before.text
      /\ before.begun => before.words # <<>>
  BY <1>1, DecodingTypes
<1> HIDE DEF before, after
<1>3. /\ after.text /\ after.begun
      /\ ~ before.begun => after.words = Append(before.words, <<m[n]>>)
      /\ before.begun =>
           /\ Len(after.words) = Len(before.words)
           /\ after.words[Len(before.words)] = Append(before.words[Len(before.words)], m[n])
  <2>1. Letter(before, after, m[n])
    BY <1>1, <1>2, DecodeLetter
  <2> QED
    BY <2>1 DEF Letter
<1>4. after.text = TRUE /\ after.begun = TRUE
  <2>1. after.text \in BOOLEAN /\ after.begun \in BOOLEAN
    BY <1>2 DEF States
  <2> QED
    BY <1>3, <2>1
<1>5. ~ before.begun =>
        /\ Len(after.words) = Len(before.words) + 1
        /\ after.words[Len(before.words) + 1] = <<m[n]>>
  <2>1. before.words \in Seq(Seq(AnyByte)) /\ after.words \in Seq(Seq(AnyByte))
    BY <1>2 DEF States
  <2> QED
    BY <1>3, <2>1
<1> QED
  BY <1>3, <1>4, <1>5 DEF AddsLetter, before, after

\* The words before the name.
LEMMA DecodeThird ==
  ASSUME NEW m, BeginsAnswer(m), Len(m) >= 3
  PROVE  /\ Len(Decoding(m)[3].words) = 3
         /\ Decoding(m)[3].words[1] = <<"IAC">> /\ Decoding(m)[3].words[2] = <<"SB">>
         /\ Decoding(m)[3].words[3] = <<"TERM_TYPE">>
         /\ Decoding(m)[3].sb = TRUE /\ Decoding(m)[3].text = FALSE
         /\ Decoding(m)[3].begun = FALSE
<1>1. /\ m \in Seq(Bytes) /\ m[1] = "IAC" /\ m[2] = "SB" /\ m[3] = "TERM_TYPE"
      /\ 2 \in 0..Len(m) /\ 3 \in 1..Len(m) /\ 3 = 2 + 1 /\ 1 \in 1..2 /\ 2 \in 1..2
  BY AnswerBytes
<1>2. /\ Len(Decoding(m)[2].words) = 2
      /\ Decoding(m)[2].words[1] = <<"IAC">> /\ Decoding(m)[2].words[2] = <<"SB">>
      /\ Decoding(m)[2].sb = TRUE /\ Decoding(m)[2].text = FALSE
  <2>1. Len(m) >= 2 /\ m \in Seq(Bytes)
    BY AnswerBytes
  <2> QED
    BY <1>1, <2>1, DecodeSecond
<1>3. TRUE = EntersSB(m[3], Decoding(m)[2].sb) /\ EntersText(m[3]) = FALSE
  BY <1>1, <1>2 DEF EntersSB, EntersText
<1>4. "TERM_TYPE" = findTelnetCommandByID(m[3], TRUE)
  BY <1>1, NamesItself DEF Bytes, CommandTable
<1>5. Adds(Decoding(m)[2], Decoding(m)[3], "TERM_TYPE", TRUE, EntersText(m[3]))
  BY <1>1, <1>2, <1>3, <1>4, DecodeNext
<1> QED
  BY <1>1, <1>2, <1>3, <1>5 DEF Adds

\* The fourth byte is BINARY, which is IS, and a text begins.
LEMMA DecodeFourth ==
  ASSUME NEW m, BeginsAnswer(m), Len(m) >= 4
  PROVE  /\ Len(Decoding(m)[4].words) = 4
         /\ Decoding(m)[4].words[1] = <<"IAC">> /\ Decoding(m)[4].words[2] = <<"SB">>
         /\ Decoding(m)[4].words[3] = <<"TERM_TYPE">> /\ Decoding(m)[4].words[4] = <<"IS">>
         /\ Decoding(m)[4].text = TRUE /\ Decoding(m)[4].begun = FALSE
<1>1. /\ m \in Seq(Bytes) /\ m[4] = "BINARY"
      /\ 3 \in 0..Len(m) /\ 4 \in 1..Len(m) /\ 4 = 3 + 1 /\ 1 \in 1..3 /\ 2 \in 1..3 /\ 3 \in 1..3
  BY AnswerBytes
<1>2. /\ Len(Decoding(m)[3].words) = 3
      /\ Decoding(m)[3].words[1] = <<"IAC">> /\ Decoding(m)[3].words[2] = <<"SB">>
      /\ Decoding(m)[3].words[3] = <<"TERM_TYPE">>
      /\ Decoding(m)[3].sb = TRUE /\ Decoding(m)[3].text = FALSE
  <2>1. Len(m) >= 3
    BY AnswerBytes
  <2> QED
    BY <2>1, DecodeThird
<1>3. TRUE = EntersSB(m[4], Decoding(m)[3].sb) /\ EntersText(m[4]) = TRUE
  BY <1>1, <1>2 DEF EntersSB, EntersText
<1>4. "IS" = findTelnetCommandByID(m[4], TRUE)
  <2> DEFINE Is(name) == name \in DOMAIN NegotiationTable /\ NegotiationTable[name] = "BINARY"
  <2>1. \A name : Is(name) <=> name = "IS"
    BY DEF NegotiationTable
  <2>2. (CHOOSE name \in DOMAIN NegotiationTable : NegotiationTable[name] = "BINARY") = "IS"
    BY <2>1
  <2> QED
    BY <1>1, <2>1, <2>2 DEF findTelnetCommandByID
<1>5. Adds(Decoding(m)[3], Decoding(m)[4], "IS", TRUE, EntersText(m[4]))
  BY <1>1, <1>2, <1>3, <1>4, DecodeNext
<1> QED
  BY <1>1, <1>2, <1>3, <1>5 DEF Adds

\* After four bytes and j letters of the name.
NameRead(state, j) ==
  /\ Len(state.words) = 5 /\ state.words[5] = SubSeq(Name, 1, j)
  /\ state.text = TRUE /\ state.begun = TRUE

\* The text that is read is a beginning of the client's name.
LEMMA DecodeName ==
  ASSUME NEW m, BeginsAnswer(m), NEW q \in 1..Len(Name), 4 + q <= Len(m)
  PROVE  NameRead(Decoding(m)[4 + q], q)
<1>1. /\ m \in Seq(Bytes) /\ Len(m) \in Nat /\ Len(m) >= 4 /\ Len(Name) \in Nat /\ q \in Nat
      /\ Name \in Seq(Letters)
  BY AnswerBytes, NegotiationAssumption
<1>2. ASSUME NEW j \in 1..q
      PROVE  m[4 + j] = Name[j] /\ m[4 + j] # "IAC"
             /\ j \in 1..Len(Name) /\ 4 + j \in 1..Len(m)
  <2>1. j \in 1..Len(Name) /\ 4 + j <= Len(m) /\ 4 + j \in 1..Len(m)
    BY <1>1
  <2> QED
    BY <2>1, AnswerBytes
<1> DEFINE So(j) == NameRead(Decoding(m)[4 + j], j)
           T     == {j \in 1..q : So(j)}
<1>3. So(1)
  <2>1. /\ Len(Decoding(m)[4].words) = 4 /\ Decoding(m)[4].text = TRUE
        /\ Decoding(m)[4].begun = FALSE
    BY <1>1, DecodeFourth
  <2>2. 1 \in 1..q /\ 4 + 1 = 5
    OBVIOUS
  <2>3. m[5] = Name[1] /\ m[5] # "IAC" /\ 1 \in 1..Len(Name) /\ 5 \in 1..Len(m)
    BY <1>2, <2>2
  <2>4. AddsLetter(Decoding(m)[4], Decoding(m)[5], m[5])
    <3>1. 4 \in 0..Len(m) /\ 5 = 4 + 1
      BY <1>1
    <3> QED
      BY <1>1, <2>1, <2>3, <3>1, LetterNext
  <2>5. /\ Len(Decoding(m)[5].words) = 5 /\ Decoding(m)[5].words[5] = <<Name[1]>>
        /\ Decoding(m)[5].text = TRUE /\ Decoding(m)[5].begun = TRUE
    BY <2>1, <2>3, <2>4 DEF AddsLetter
  <2>6. <<Name[1]>> = SubSeq(Name, 1, 1)
    BY <1>1, <2>3
  <2>7. NameRead(Decoding(m)[5], 1)
    BY <2>5, <2>6 DEF NameRead
  <2> QED
    BY <2>2, <2>7
<1>4. ASSUME NEW j \in 1 + 1..q, So(j - 1) PROVE So(j)
  <2> DEFINE i == j - 1
             p == 4 + i
             n == 4 + j
  <2>1. /\ i \in Nat /\ i < Len(Name) /\ i + 1 = j /\ j \in 1..q
        /\ p \in 0..Len(m) /\ n = p + 1
    BY <1>1
  <2>2. m[n] = Name[j] /\ m[n] # "IAC" /\ n \in 1..Len(m)
    BY <1>2, <2>1
  <2>3. /\ Len(Decoding(m)[p].words) = 5 /\ Decoding(m)[p].words[5] = SubSeq(Name, 1, i)
        /\ Decoding(m)[p].text = TRUE /\ Decoding(m)[p].begun = TRUE
    BY <1>4 DEF NameRead
  <2> HIDE DEF p, n, i
  <2>4. AddsLetter(Decoding(m)[p], Decoding(m)[n], m[n])
    BY <1>1, <2>1, <2>2, <2>3, LetterNext
  <2>5. /\ Len(Decoding(m)[n].words) = 5
        /\ Decoding(m)[n].words[5] = Append(SubSeq(Name, 1, i), Name[j])
        /\ Decoding(m)[n].text = TRUE /\ Decoding(m)[n].begun = TRUE
    BY <2>2, <2>3, <2>4 DEF AddsLetter
  <2>6. Append(SubSeq(Name, 1, i), Name[j]) = SubSeq(Name, 1, j)
    BY <1>1, <2>1, PrefixOn
  <2>7. NameRead(Decoding(m)[n], j)
    BY <2>5, <2>6 DEF NameRead
  <2> QED
    BY <2>7 DEF n
<1>5. \A j \in 1..q : j \in T
  <2>1. 1 \in T /\ 1 \in Nat
    BY <1>3
  <2>2. \A j \in 1 + 1..q : j - 1 \in T => j \in T
    BY <1>1, <1>4
  <2> HIDE DEF T
  <2> QED
    BY <1>1, <2>1, <2>2, Upwards
<1> QED
  BY <1>5

\* IsFormat fits words that agree with it, and takes the fifth.
LEMMA IsFits ==
  ASSUME NEW S, NEW words \in Seq(S),
         \A k \in 1..4 : k <= Len(words) => words[k] = <<IsFormat[k]>>
  PROVE  /\ Scans(words, IsFormat)
         /\ Len(words) <= 4 => Scanned(words, IsFormat) = buffer
         /\ Len(words) > 4 => Scanned(words, IsFormat) = words[5]
<1>1. Len(IsFormat) = 4 /\ DOMAIN IsFormat = 1..4 /\ Len(words) \in Nat
  BY DEF IsFormat
<1>2. \A k \in DOMAIN words \cap DOMAIN IsFormat : k \in 1..4 /\ k <= Len(words)
  BY <1>1
<1>3. Scans(words, IsFormat)
  BY <1>2 DEF Scans
<1>4. Len(words) <= 4 => ~ (Len(words) > Len(IsFormat))
  BY <1>1
<1>5. Len(words) > 4 => Len(words) > Len(IsFormat) /\ Len(IsFormat) + 1 = 5
  BY <1>1
<1> QED
  BY <1>3, <1>4, <1>5 DEF Scanned

\* The fifth word is what was read of the name.
LEMMA IsScans ==
  ASSUME NEW m, BeginsAnswer(m)
  PROVE  /\ Scans(decodeTelnetCommand(m), IsFormat)
         /\ Len(m) <= 4 => Scanned(decodeTelnetCommand(m), IsFormat) = buffer
         /\ \A q \in 1..Len(Name) :
              Len(m) = 4 + q
                => Scanned(decodeTelnetCommand(m), IsFormat) = SubSeq(Name, 1, q)
         /\ Len(m) >= Len(Name) + 5 => Scanned(decodeTelnetCommand(m), IsFormat) = Name
<1> DEFINE words == decodeTelnetCommand(m)
<1>1. /\ m \in Seq(Bytes) /\ Len(m) \in Nat /\ Len(m) >= 2 /\ Len(Name) \in Nat \ {0}
      /\ m[1] = "IAC" /\ m[2] = "SB"
  BY AnswerBytes
<1>2. words = Decoding(m)[Len(m)].words /\ words \in Seq(Seq(AnyByte)) /\ Len(words) \in Nat
  BY <1>1, DecodingTypes DEF decodeTelnetCommand, States
<1>3. /\ IsFormat[1] = "IAC" /\ IsFormat[2] = "SB" /\ IsFormat[3] = "TERM_TYPE"
      /\ IsFormat[4] = "IS"
  BY DEF IsFormat
<1>4. ASSUME Len(m) = 2
      PROVE  Len(words) = 2 /\ \A k \in 1..4 : k <= Len(words) => words[k] = <<IsFormat[k]>>
  <2>1. /\ Len(Decoding(m)[2].words) = 2
        /\ Decoding(m)[2].words[1] = <<"IAC">> /\ Decoding(m)[2].words[2] = <<"SB">>
    BY <1>1, DecodeSecond
  <2>2. words = Decoding(m)[2].words
    BY <1>2, <1>4
  <2> HIDE DEF words
  <2> QED
    BY <1>3, <2>1, <2>2
<1>5. ASSUME Len(m) = 3
      PROVE  Len(words) = 3 /\ \A k \in 1..4 : k <= Len(words) => words[k] = <<IsFormat[k]>>
  <2>1. /\ Len(Decoding(m)[3].words) = 3
        /\ Decoding(m)[3].words[1] = <<"IAC">> /\ Decoding(m)[3].words[2] = <<"SB">>
        /\ Decoding(m)[3].words[3] = <<"TERM_TYPE">>
    <3>1. Len(m) >= 3
      BY <1>5
    <3> QED
      BY <3>1, DecodeThird
  <2>2. words = Decoding(m)[3].words
    BY <1>2, <1>5
  <2> HIDE DEF words
  <2> QED
    BY <1>3, <2>1, <2>2
<1>6. ASSUME Len(m) >= 4
      PROVE  /\ \A k \in 1..4 : words[k] = <<IsFormat[k]>>
             /\ Len(m) = 4 => Len(words) = 4
  <2>1. /\ Len(Decoding(m)[4].words) = 4
        /\ Decoding(m)[4].words[1] = <<"IAC">> /\ Decoding(m)[4].words[2] = <<"SB">>
        /\ Decoding(m)[4].words[3] = <<"TERM_TYPE">> /\ Decoding(m)[4].words[4] = <<"IS">>
        /\ Decoding(m)[4].begun = FALSE
    BY <1>6, DecodeFourth
  <2>2. 4 \in 0..Len(m)
    BY <1>1, <1>6
  <2>3. \A k \in 1..Len(Decoding(m)[4].words) : words[k] = Decoding(m)[4].words[k]
    BY <1>1, <2>1, <2>2, DecodedWords
  <2>4. ASSUME Len(m) = 4 PROVE Len(words) = 4
    BY <1>2, <2>1, <2>4
  <2> HIDE DEF words
  <2> QED
    BY <1>3, <2>1, <2>3, <2>4
<1>7. ASSUME NEW q \in 1..Len(Name), Len(m) = 4 + q
      PROVE  Len(words) = 5 /\ words[5] = SubSeq(Name, 1, q)
  <2>1. 4 + q <= Len(m)
    BY <1>1, <1>7
  <2>2. NameRead(Decoding(m)[4 + q], q)
    BY <2>1, DecodeName
  <2>3. words = Decoding(m)[4 + q].words
    BY <1>2, <1>7
  <2> QED
    BY <2>2, <2>3 DEF NameRead
<1>8. ASSUME Len(m) >= Len(Name) + 5
      PROVE  Len(words) > 4 /\ words[5] = Name
  <2> DEFINE p == 4 + Len(Name)
             n == Len(Name) + 5
  <2>1. /\ p \in 0..Len(m) /\ n \in 1..Len(m) /\ n \in 0..Len(m) /\ n - 1 = p
        /\ Len(Name) \in 1..Len(Name) /\ 4 + Len(Name) <= Len(m)
    BY <1>1, <1>8
  <2>2. NameRead(Decoding(m)[p], Len(Name))
    BY <2>1, DecodeName
  <2>3. SubSeq(Name, 1, Len(Name)) = Name
    BY NegotiationAssumption
  <2>4. m[n] = "IAC" /\ m[n] \in Bytes
    BY <1>1, <1>8, <2>1, AnswerBytes
  <2> HIDE DEF p, n
  <2>5. Decoding(m)[n] = DecodeByte(Decoding(m)[p], m[n])
    BY <1>1, <2>1, DecodingIs
  <2> DEFINE before == Decoding(m)[p]
             after  == Decoding(m)[n]
  <2>6. before \in States /\ after \in States
    BY <1>1, <2>1, DecodingTypes
  <2>7. /\ Len(before.words) = 5 /\ before.words[5] = Name /\ after = DecodeByte(before, m[n])
    BY <2>2, <2>3, <2>5 DEF NameRead
  <2> HIDE DEF before, after
  <2> DEFINE mode == IF before.text THEN before.sb ELSE EntersSB(m[n], before.sb)
             word == findTelnetCommandByID(m[n], mode)
  <2>8. after.begun = FALSE /\ after.words = Append(before.words, <<word>>)
    <3>1. LET next == DecodeByte(before, m[n])
          IN  next.words = Append(before.words, <<word>>) /\ next.begun = FALSE
      BY <2>4, <2>6, DecodeWord
    <3> HIDE DEF word
    <3> QED
      BY <2>7, <3>1
  <2> HIDE DEF mode, word
  <2>9. Len(after.words) = 6 /\ after.words[5] = Name
    <3>1. before.words \in Seq(Seq(AnyByte)) /\ after.words \in Seq(Seq(AnyByte))
      BY <2>6 DEF States
    <3>2. /\ Len(after.words) = Len(before.words) + 1
          /\ \A k \in 1..Len(before.words) : after.words[k] = before.words[k]
      BY <2>8, <3>1
    <3>3. 5 \in 1..Len(before.words)
      BY <2>7
    <3> QED
      BY <2>7, <3>2, <3>3
  <2>10. /\ Len(words) >= Len(after.words)
         /\ \A k \in 1..Len(after.words) : words[k] = after.words[k]
    <3>1. ~ Decoding(m)[n].begun
      BY <2>8 DEF after
    <3> QED
      BY <1>1, <2>1, <3>1, DecodedWords DEF after
  <2> HIDE DEF words
  <2>11. Len(words) >= 6 /\ words[5] = after.words[5]
    BY <2>9, <2>10
  <2>12. Len(words) > 4
    BY <1>2, <2>11
  <2> QED
    BY <2>9, <2>11, <2>12
<1> HIDE DEF words
<1>9. Scans(words, IsFormat)
  <2>1. \A k \in 1..4 : k <= Len(words) => words[k] = <<IsFormat[k]>>
    <3>1. Len(m) = 2 \/ Len(m) = 3 \/ Len(m) >= 4
      BY <1>1, TwoOrMore
    <3> QED
      BY <1>4, <1>5, <1>6, <3>1
  <2> QED
    BY <1>2, <2>1, IsFits
<1>10. ASSUME Len(m) <= 4
       PROVE  Scanned(words, IsFormat) = buffer
  <2>1. \A k \in 1..4 : k <= Len(words) => words[k] = <<IsFormat[k]>>
    <3>1. Len(m) = 2 \/ Len(m) = 3 \/ Len(m) >= 4
      BY <1>1, TwoOrMore
    <3> QED
      BY <1>4, <1>5, <1>6, <3>1
  <2>2. Len(words) <= 4
    <3>1. Len(m) = 2 \/ Len(m) = 3 \/ Len(m) = 4
      BY <1>1, <1>10, TwoToFour
    <3>2. CASE Len(m) = 2
      <4>1. Len(words) = 2
        BY <1>4, <3>2
      <4> QED
        BY <4>1
    <3>3. CASE Len(m) = 3
      <4>1. Len(words) = 3
        BY <1>5, <3>3
      <4> QED
        BY <4>1
    <3>4. CASE Len(m) = 4
      <4>1. Len(words) = 4
        BY <1>6, <3>4
      <4> QED
        BY <4>1
    <3> QED
      BY <3>1, <3>2, <3>3, <3>4
  <2> QED
    BY <1>2, <2>1, <2>2, IsFits
<1>11. ASSUME Len(m) >= 4, Len(words) > 4
       PROVE  Scanned(words, IsFormat) = words[5]
  BY <1>2, <1>6, <1>11, IsFits
<1>12. ASSUME NEW q \in 1..Len(Name), Len(m) = 4 + q
       PROVE  Scanned(words, IsFormat) = SubSeq(Name, 1, q)
  <2>1. Len(m) >= 4
    BY <1>12
  <2> QED
    BY <1>7, <1>11, <1>12, <2>1
<1>13. ASSUME Len(m) >= Len(Name) + 5
       PROVE  Scanned(words, IsFormat) = Name
  <2>1. Len(m) >= 4
    BY <1>1, <1>13
  <2> QED
    BY <1>8, <1>11, <1>13, <2>1
<1> QED
  BY <1>9, <1>10, <1>12, <1>13 DEF words

-----------------------------------------------------------------------------
(* What a read takes, and what it leaves.                                  *)

\* Sequences joined begin with the first of them.
LEMMA FlattenStarts ==
  ASSUME NEW S, NEW seqs \in Seq(Seq(S)), seqs # <<>>
  PROVE  /\ FlattenSeq(seqs) \in Seq(S) /\ Len(FlattenSeq(seqs)) >= Len(seqs[1])
         /\ \A k \in 1..Len(seqs[1]) : FlattenSeq(seqs)[k] = seqs[1][k]
         /\ Len(seqs) = 1 => FlattenSeq(seqs) = seqs[1]
<1> DEFINE first == seqs[1]
<1>1. /\ Len(seqs) \in Nat \ {0} /\ first \in Seq(S) /\ Len(first) \in Nat
      /\ \A k \in 1..Len(seqs) : seqs[k] \in Seq(S)
  OBVIOUS
<1>2. PICK flatten :
        /\ FlattenSeq(seqs) = flatten[Len(seqs)]
        /\ flatten[1] = first
        /\ \A k \in 2..Len(seqs) : flatten[k] = flatten[k - 1] \o seqs[k]
  BY FlattenIs
<1> HIDE DEF first
<1> DEFINE So(n) == /\ flatten[n] \in Seq(S) /\ Len(flatten[n]) >= Len(first)
                    /\ \A k \in 1..Len(first) : flatten[n][k] = first[k]
           T     == {n \in 1..Len(seqs) : So(n)}
<1>3. So(1)
  BY <1>1, <1>2
<1>4. ASSUME NEW n \in 1 + 1..Len(seqs), So(n - 1) PROVE So(n)
  <2> DEFINE s == flatten[n - 1]
             t == seqs[n]
  <2>1. /\ flatten[n] = s \o t /\ t \in Seq(S) /\ s \in Seq(S)
        /\ Len(s) >= Len(first) /\ \A k \in 1..Len(first) : s[k] = first[k]
    <3>1. n \in 2..Len(seqs) /\ n \in 1..Len(seqs)
      OBVIOUS
    <3> QED
      BY <1>1, <1>2, <1>4, <3>1
  <2> HIDE DEF s, t
  <2>2. /\ s \o t \in Seq(S) /\ Len(s \o t) = Len(s) + Len(t)
        /\ \A k \in 1..Len(s) : (s \o t)[k] = s[k]
    BY <2>1, Joined
  <2>3. Len(s) \in Nat /\ Len(t) \in Nat
    BY <2>1
  <2>4. \A k \in 1..Len(first) : k \in 1..Len(s)
    BY <1>1, <2>1, <2>3
  <2>5. Len(s \o t) >= Len(first)
    BY <1>1, <2>1, <2>2, <2>3
  <2> QED
    BY <2>1, <2>2, <2>4, <2>5
<1>5. \A n \in 1..Len(seqs) : n \in T
  <2>1. 1 \in T
    BY <1>1, <1>3
  <2>2. \A n \in 1 + 1..Len(seqs) : n - 1 \in T => n \in T
    BY <1>1, <1>4
  <2> HIDE DEF T
  <2> QED
    BY <1>1, <2>1, <2>2, Upwards
<1>6. So(Len(seqs))
  BY <1>1, <1>5
<1>7. Len(seqs) = 1 => FlattenSeq(seqs) = first
  BY <1>2
<1> QED
  BY <1>2, <1>6, <1>7 DEF first

\* A message that is not empty begins as the first command on the way does.
LEMMA MessageIs ==
  ASSUME inbox \in Seq(Seq(Bytes)), NEW n \in 0..Len(inbox), NEW k \in Cuts(n)
  PROVE  /\ Message(n, k) \in Seq(Bytes) /\ k \in Nat
         /\ n = 0 /\ k = 0 => Message(n, k) = <<>>
         /\ n = 0 /\ k # 0 =>
              /\ inbox # <<>> /\ k < Len(inbox[1])
              /\ Len(Message(n, k)) = k
              /\ \A i \in 1..k : Message(n, k)[i] = inbox[1][i]
         /\ n # 0 =>
              /\ inbox # <<>> /\ Len(Message(n, k)) >= Len(inbox[1])
              /\ \A i \in 1..Len(inbox[1]) : Message(n, k)[i] = inbox[1][i]
         /\ n = 1 /\ k = 0 => Message(n, k) = inbox[1]
<1> DEFINE m == Message(n, k)
           s == FlattenSeq(SubSeq(inbox, 1, n))
           t == IF k = 0 THEN <<>> ELSE SubSeq(inbox[n + 1], 1, k)
<1>1. Len(inbox) \in Nat /\ n \in Nat
  OBVIOUS
<1>2. k \in Nat /\ (k # 0 => n + 1 \in 1..Len(inbox) /\ k < Len(inbox[n + 1]))
  BY <1>1 DEF Cuts
<1>3. t \in Seq(Bytes) /\ (k = 0 => t = <<>>)
      /\ (k # 0 => Len(t) = k /\ \A i \in 1..k : t[i] = inbox[n + 1][i])
  <2>1. CASE k = 0
    BY <2>1
  <2>2. CASE k # 0
    <3>1. inbox[n + 1] \in Seq(Bytes) /\ k \in 0..Len(inbox[n + 1])
      BY <1>2, <2>2
    <3> QED
      BY <1>2, <2>2, <3>1
  <2> QED
    BY <2>1, <2>2
<1>4. m = s \o t
  BY DEF Message
<1>5. CASE n = 0
  <2>1. s = <<>>
    <3>1. SubSeq(inbox, 1, n) = <<>>
      BY <1>5
    <3> QED
      BY <3>1 DEF FlattenSeq
  <2> HIDE DEF m, s, t
  <2>2. m = t
    BY <1>3, <1>4, <2>1
  <2>3. n + 1 = 1
    BY <1>5
  <2>4. ASSUME k # 0
        PROVE  /\ inbox # <<>> /\ k < Len(inbox[1])
               /\ Len(m) = k /\ \A i \in 1..k : m[i] = inbox[1][i]
    BY <1>1, <1>2, <1>3, <2>2, <2>3, <2>4
  <2> QED
    BY <1>2, <1>3, <1>5, <2>2, <2>4 DEF m
<1>6. CASE n # 0
  <2>1. /\ SubSeq(inbox, 1, n) \in Seq(Seq(Bytes)) /\ SubSeq(inbox, 1, n) # <<>>
        /\ SubSeq(inbox, 1, n)[1] = inbox[1] /\ Len(SubSeq(inbox, 1, n)) = n
    BY <1>1, <1>6
  <2>2. /\ s \in Seq(Bytes) /\ Len(s) >= Len(inbox[1])
        /\ \A i \in 1..Len(inbox[1]) : s[i] = inbox[1][i]
        /\ n = 1 => s = inbox[1]
    <3> DEFINE seqs == SubSeq(inbox, 1, n)
    <3> HIDE DEF seqs
    <3>1. /\ FlattenSeq(seqs) \in Seq(Bytes) /\ Len(FlattenSeq(seqs)) >= Len(seqs[1])
          /\ \A i \in 1..Len(seqs[1]) : FlattenSeq(seqs)[i] = seqs[1][i]
          /\ Len(seqs) = 1 => FlattenSeq(seqs) = seqs[1]
      BY <2>1, FlattenStarts DEF seqs
    <3> QED
      BY <2>1, <3>1 DEF seqs
  <2>3. inbox # <<>> /\ inbox[1] \in Seq(Bytes) /\ Len(inbox[1]) \in Nat
    BY <1>1, <1>6
  <2> HIDE DEF m, s, t
  <2>4. /\ s \o t \in Seq(Bytes) /\ Len(s \o t) = Len(s) + Len(t)
        /\ \A i \in 1..Len(s) : (s \o t)[i] = s[i]
    BY <1>3, <2>2, Joined
  <2>5. Len(s) \in Nat /\ Len(t) \in Nat
    BY <1>3, <2>2
  <2>6. /\ m \in Seq(Bytes) /\ Len(m) >= Len(inbox[1])
        /\ \A i \in 1..Len(inbox[1]) : m[i] = inbox[1][i]
    <3>1. \A i \in 1..Len(inbox[1]) : i \in 1..Len(s)
      BY <2>2, <2>3, <2>5
    <3> QED
      BY <1>4, <2>2, <2>3, <2>4, <2>5, <3>1
  <2>7. n = 1 /\ k = 0 => m = inbox[1]
    BY <1>3, <1>4, <2>2
  <2> QED
    BY <1>2, <1>6, <2>3, <2>6, <2>7 DEF m
<1> QED
  BY <1>5, <1>6

\* What is left of a command that was cut ends in the only IAC it may hold.
Rest(c) ==
  /\ c \in Seq(Bytes) /\ c # <<>>
  /\ \A k \in 1..Len(c) : c[k] = "IAC" => k = Len(c) - 1 /\ c[Len(c)] = "SE"

\* One byte, three, or the answer.
LEMMA CommandIs ==
  ASSUME NEW c \in Commands
  PROVE  /\ c \in Seq(Bytes) /\ c # <<>>
         /\ \/ Len(c) = 1 /\ c[1] # "IAC"
            \/ Plainly(c)
            \/ c = Answer
<1>1. "IAC" \notin Letters
  BY LettersAssumption DEF CommandTable
<1>2. CASE c \in Replies \cup {Offer, Refusal}
  <2>1. Plainly(c)
    BY <1>2, CommandTypes
  <2>2. c \in Seq(Bytes) /\ Len(c) = 3
    BY <2>1 DEF Plainly
  <2> QED
    BY <2>1, <2>2
<1>3. CASE c = Answer
  BY <1>3, AnswerIs
<1>4. ASSUME NEW key \in Keys, c = <<key>>
      PROVE  c \in Seq(Bytes) /\ Len(c) = 1 /\ c[1] # "IAC"
  BY <1>1, <1>4, CommandTypes
<1>5. c \in Replies \cup {Offer, Refusal} \/ c = Answer \/ \E key \in Keys : c = <<key>>
  BY DEF Commands
<1>6. CASE \E key \in Keys : c = <<key>>
  BY <1>4, <1>6
<1> QED
  BY <1>2, <1>3, <1>5, <1>6 DEF Plainly

LEMMA FromEnd ==
  ASSUME NEW a \in Nat, NEW b \in Nat, NEW d \in Nat, b + d = a - 1
  PROVE  d = (a - b) - 1
OBVIOUS

\* What follows the first byte of a command, or of a rest, is a rest.
LEMMA RestIs ==
  ASSUME NEW c, c \in Commands \/ Rest(c), NEW k \in 1..Len(c) - 1
  PROVE  Rest(SubSeq(c, k + 1, Len(c)))
<1> DEFINE r == SubSeq(c, k + 1, Len(c))
<1>1. c \in Seq(Bytes) /\ c # <<>>
  BY CommandIs DEF Rest
<1>2. Len(c) \in Nat /\ k \in Nat /\ k + 1 \in 1..Len(c)
  BY <1>1
<1>3. /\ r \in Seq(Bytes) /\ Len(r) = Len(c) - k
      /\ \A i \in 1..Len(c) - k : r[i] = c[k + i]
  BY <1>1, <1>2
<1> HIDE DEF r
<1>4. ASSUME NEW i \in k + 1..Len(c), c[i] = "IAC"
      PROVE  i = Len(c) - 1 /\ c[Len(c)] = "SE"
  <2>1. i \in 1..Len(c) /\ i >= 2
    BY <1>2
  <2>2. CASE Rest(c)
    BY <1>4, <2>1, <2>2 DEF Rest
  <2>3. CASE Len(c) = 1
    BY <1>2, <2>3
  <2>4. CASE Plainly(c)
    <3>1. Len(c) = 3 /\ c[2] # "IAC" /\ c[3] # "IAC"
      BY <2>4 DEF Plainly, Verbs, Options
    <3>2. i = 2 \/ i = 3
      BY <2>1, <3>1
    <3> QED
      BY <1>4, <3>1, <3>2
  <2>5. CASE c = Answer
    <3>1. /\ Len(c) = Len(Name) + 6 /\ Len(Name) \in Nat
          /\ c[2] # "IAC" /\ c[3] # "IAC" /\ c[4] # "IAC"
          /\ c[Len(Name) + 6] = "SE"
      BY <2>5, AnswerIs
    <3>2. \A j \in 1..Len(Name) : c[4 + j] # "IAC"
      <4>1. "IAC" \notin Letters
        BY LettersAssumption DEF CommandTable
      <4> QED
        BY <2>5, <4>1, AnswerIs
    <3>3. i \notin 5..Len(Name) + 4
      <4> SUFFICES ASSUME i \in 5..Len(Name) + 4 PROVE FALSE
        OBVIOUS
      <4>1. i - 4 \in 1..Len(Name) /\ 4 + (i - 4) = i
        BY <3>1
      <4>2. c[4 + (i - 4)] # "IAC"
        BY <3>2, <4>1
      <4> QED
        BY <1>4, <4>1, <4>2
    <3>4. i # 2 /\ i # 3 /\ i # 4 /\ i # Len(Name) + 6
      BY <1>4, <3>1
    <3>5. i = Len(Name) + 5
      BY <2>1, <3>1, <3>3, <3>4
    <3> QED
      BY <3>1, <3>5
  <2> QED
    BY <2>2, <2>3, <2>4, <2>5, CommandIs
<1>5. r # <<>>
  BY <1>2, <1>3
<1>6. ASSUME NEW j \in 1..Len(r), r[j] = "IAC"
      PROVE  j = Len(r) - 1 /\ r[Len(r)] = "SE"
  <2>1. /\ j \in 1..Len(c) - k /\ k + j \in k + 1..Len(c)
        /\ Len(c) - k \in 1..Len(c) - k /\ k + (Len(c) - k) = Len(c)
    BY <1>2, <1>3
  <2>2. c[k + j] = "IAC" /\ r[Len(c) - k] = c[Len(c)]
    BY <1>3, <1>6, <2>1
  <2>3. k + j = Len(c) - 1 /\ c[Len(c)] = "SE"
    BY <1>4, <2>1, <2>2
  <2>4. j = (Len(c) - k) - 1
    <3>1. j \in Nat
      BY <2>1
    <3> QED
      BY <1>2, <2>3, <3>1, FromEnd
  <2> QED
    BY <1>3, <2>2, <2>3, <2>4, Zenon
<1> QED
  BY <1>3, <1>5, <1>6 DEF Rest, r

Streams ==
  /\ \A i \in 1..Len(toClient) : toClient[i] \in ServerCommands
  /\ \A i \in 1..Len(inbox) :
       inbox[i] \in Commands \/ (i = 1 /\ ~ whole /\ Rest(inbox[1]))

\* A read removes pieces from the front, and may leave the rest of one there.
LEMMA ReadIs ==
  ASSUME inbox \in Seq(Seq(Bytes)), Streams, NEW n \in 0..Len(inbox), NEW k \in Cuts(n),
         Read(n, k)
  PROVE  /\ inbox' \in Seq(Seq(Bytes)) /\ Len(inbox') = Len(inbox) - n
         /\ \A i \in 1..Len(inbox') : i # 1 \/ k = 0 => inbox'[i] = inbox[n + i]
         /\ k # 0 => Rest(inbox'[1])
<1>1. Len(inbox) \in Nat /\ n \in Nat
  OBVIOUS
<1>2. CASE k = 0
  <2>1. inbox' = SubSeq(inbox, n + 1, Len(inbox))
    BY <1>2 DEF Read
  <2> QED
    BY <1>1, <1>2, <2>1
<1>3. CASE k # 0
  <2> DEFINE head == <<SubSeq(inbox[n + 1], k + 1, Len(inbox[n + 1]))>>
             tail == SubSeq(inbox, n + 2, Len(inbox))
  <2>1. n + 1 \in 1..Len(inbox) /\ k \in 1..Len(inbox[n + 1]) - 1
    BY <1>1, <1>3 DEF Cuts
  <2>2. inbox[n + 1] \in Commands \/ Rest(inbox[n + 1])
    <3>1. inbox[n + 1] \in Commands \/ (n + 1 = 1 /\ Rest(inbox[1]))
      BY <2>1 DEF Streams
    <3> QED
      BY <3>1
  <2>3. Rest(SubSeq(inbox[n + 1], k + 1, Len(inbox[n + 1])))
    BY <2>1, <2>2, RestIs
  <2>4. head \in Seq(Seq(Bytes)) /\ Len(head) = 1 /\ Rest(head[1])
    <3> DEFINE r == SubSeq(inbox[n + 1], k + 1, Len(inbox[n + 1]))
    <3>1. r \in Seq(Bytes)
      BY <2>3 DEF Rest
    <3> HIDE DEF r
    <3>2. <<r>> \in Seq(Seq(Bytes)) /\ Len(<<r>>) = 1 /\ <<r>>[1] = r
      BY <3>1
    <3> QED
      BY <2>3, <3>2 DEF r
  <2>5. /\ tail \in Seq(Seq(Bytes)) /\ Len(tail) = Len(inbox) - n - 1
        /\ \A i \in 1..Len(tail) : tail[i] = inbox[n + 1 + i]
    BY <1>1, <2>1
  <2>6. inbox' = head \o tail
    BY <1>3 DEF Read
  <2> HIDE DEF head, tail
  <2>7. /\ head \o tail \in Seq(Seq(Bytes)) /\ Len(head \o tail) = Len(head) + Len(tail)
        /\ \A i \in 1..Len(head) : (head \o tail)[i] = head[i]
        /\ \A i \in 1..Len(tail) : (head \o tail)[Len(head) + i] = tail[i]
    <3>1. head \in Seq(Seq(Bytes)) /\ tail \in Seq(Seq(Bytes))
      BY <2>4, <2>5
    <3> QED
      BY <3>1, Joined
  <2>8. inbox' \in Seq(Seq(Bytes)) /\ Len(inbox') = Len(inbox) - n
    BY <1>1, <2>4, <2>5, <2>6, <2>7
  <2>9. Rest(inbox'[1])
    <3>1. inbox'[1] = head[1]
      BY <2>4, <2>6, <2>7
    <3> QED
      BY <2>4, <3>1
  <2>10. ASSUME NEW i \in 1..Len(inbox'), i # 1
         PROVE  inbox'[i] = inbox[n + i]
    <3>1. i - 1 \in 1..Len(tail) /\ 1 + (i - 1) = i /\ n + 1 + (i - 1) = n + i
      BY <1>1, <2>5, <2>8, <2>10
    <3>2. (head \o tail)[1 + (i - 1)] = tail[i - 1] /\ tail[i - 1] = inbox[n + 1 + (i - 1)]
      BY <2>4, <2>5, <2>7, <3>1
    <3> QED
      BY <2>6, <3>1, <3>2
  <2> QED
    BY <1>3, <2>8, <2>9, <2>10
<1> QED
  BY <1>2, <1>3

-----------------------------------------------------------------------------
(* What the routine makes of a message.                                    *)

\* Words that sscanf() may store.
LEMMA WordsAre ==
  /\ \A b \in Bytes : <<b>> \in Words
  /\ \A q \in 1..Len(Name) : SubSeq(Name, 1, q) \in Words
  /\ Name \in Words
<1>1. Name \in Seq(Letters) /\ Len(Name) \in Nat \ {0}
  BY AnswerIs, NegotiationAssumption
<1>2. ASSUME NEW q \in 1..Len(Name)
      PROVE  SubSeq(Name, 1, q) \in Words
  <2>1. SubSeq(Name, 1, q) \in [1..q -> Letters]
    <3>1. SubSeq(Name, 1, q) \in Seq(Letters) /\ Len(SubSeq(Name, 1, q)) = q
      BY <1>1
    <3>2. SubSeq(Name, 1, q) \in [1..Len(SubSeq(Name, 1, q)) -> Letters]
      BY <3>1, LenProperties
    <3> QED
      BY <3>1, <3>2, Zenon
  <2>2. [1..q -> Letters] \in {[1..n -> Letters] : n \in 1..Len(Name)}
    OBVIOUS
  <2> QED
    BY <2>1, <2>2 DEF Words
<1>3. Name \in Words
  <2>1. Len(Name) \in 1..Len(Name) /\ SubSeq(Name, 1, Len(Name)) = Name
    BY <1>1
  <2> QED
    BY <1>2, <2>1
<1>4. \A b \in Bytes : <<b>> \in Words
  BY DEF Words
<1> QED
  BY <1>2, <1>3, <1>4

\* A piece that begins as a command does.
LEMMA HeadIs ==
  ASSUME NEW c, c \in Commands \/ Rest(c), c[1] = "IAC"
  PROVE  /\ c \in Seq(Bytes) /\ Len(c) >= 2
         /\ c[2] = "SB" => c = Answer
         /\ c[2] = "WILL" => Len(c) >= 3
         /\ c[2] = "WILL" /\ c[3] = "TERM_TYPE" => c = Offer
<1>1. CASE Rest(c)
  <2>1. c \in Seq(Bytes) /\ Len(c) \in Nat /\ Len(c) >= 1 /\ 1 \in 1..Len(c)
    BY <1>1 DEF Rest
  <2>2. 1 = Len(c) - 1 /\ c[Len(c)] = "SE"
    BY <1>1, <2>1 DEF Rest
  <2>3. Len(c) = 2
    BY <2>1, <2>2
  <2> QED
    BY <2>1, <2>2, <2>3
<1>2. CASE c \in Commands
  <2>1. c \in Seq(Bytes) /\ (Plainly(c) \/ c = Answer)
    BY <1>2, CommandIs
  <2>2. CASE c = Answer
    BY <2>1, <2>2, AnswerIs
  <2>3. CASE Plainly(c)
    <3>1. Len(c) = 3 /\ c[2] # "SB"
      BY <2>3 DEF Plainly, Verbs
    <3>2. c[2] = "WILL" /\ c[3] = "TERM_TYPE" => c = Offer
      <4>1. c \in Replies => c[3] # "TERM_TYPE"
        BY CommandTypes DEF Options
      <4>2. c = Refusal => c[2] # "WILL"
        BY CommandTypes
      <4>3. c = Answer => c[2] # "WILL"
        BY AnswerIs
      <4>4. \A key \in Keys : c # <<key>>
        BY <3>1, CommandTypes
      <4> QED
        BY <1>2, <4>1, <4>2, <4>3, <4>4 DEF Commands
    <3> QED
      BY <2>1, <3>1, <3>2
  <2> QED
    BY <2>1, <2>2, <2>3
<1> QED
  BY <1>1, <1>2

\* What IsFormat fits begins with SB.
LEMMA IsNeedsSB ==
  ASSUME NEW m \in Seq(Bytes), isCommand(m), Len(m) >= 2,
         Scans(decodeTelnetCommand(m), IsFormat)
  PROVE  m[2] = "SB"
<1> DEFINE words == decodeTelnetCommand(m)
<1>1. /\ Len(Decoding(m)[2].words) = 2 /\ Decoding(m)[2].begun = FALSE
      /\ Decoding(m)[2].words[2] = <<m[2]>>
  BY DecodeSecond DEF isCommand
<1>2. Len(words) >= 2 /\ words[2] = <<m[2]>>
  <2>1. 2 \in 0..Len(m) /\ ~ Decoding(m)[2].begun
    BY <1>1
  <2>2. Len(words) >= Len(Decoding(m)[2].words)
        /\ \A k \in 1..Len(Decoding(m)[2].words) : words[k] = Decoding(m)[2].words[k]
    BY <2>1, DecodedWords
  <2> HIDE DEF words
  <2> QED
    BY <1>1, <2>2
<1>3. words \in Seq(Seq(AnyByte)) /\ Len(words) \in Nat
  <2>1. Len(m) \in 0..Len(m)
    OBVIOUS
  <2> QED
    BY <2>1, DecodingTypes DEF decodeTelnetCommand, States
<1> HIDE DEF words
<1>4. 2 \in DOMAIN words \cap DOMAIN IsFormat
  BY <1>2, <1>3 DEF IsFormat
<1>5. Scans(words, IsFormat)
  BY DEF words
<1>6. words[2] = <<IsFormat[2]>>
  BY <1>4, <1>5 DEF Scans
<1>7. <<m[2]>> = <<"SB">>
  BY <1>2, <1>6 DEF IsFormat
<1>8. <<m[2]>>[1] = <<"SB">>[1]
  BY <1>7
<1> QED
  BY <1>8

\* What a command read has in common with the first piece on the way.
LEMMA FirstPiece ==
  ASSUME inbox \in Seq(Seq(Bytes)), Streams, NEW n \in 0..Len(inbox), NEW k \in Cuts(n),
         isCommand(Message(n, k))
  PROVE  LET m == Message(n, k)
             c == inbox[1]
         IN  /\ m \in Seq(Bytes) /\ inbox # <<>>
             /\ c \in Commands \/ Rest(c)
             /\ c[1] = "IAC" /\ Len(c) \in Nat /\ Len(m) \in Nat
             /\ \A i \in 1..Len(m) : i <= Len(c) => m[i] = c[i]
             /\ n # 0 => Len(m) >= Len(c)
             /\ n = 0 => k # 0 /\ Len(m) < Len(c)
<1> DEFINE m == Message(n, k)
           c == inbox[1]
<1>1. m \in Seq(Bytes) /\ m # <<>> /\ m[1] = "IAC" /\ Len(m) \in Nat /\ Len(m) >= 1
  <2>1. m \in Seq(Bytes) /\ m # <<>> /\ m[1] = "IAC"
    BY MessageIs DEF isCommand
  <2> HIDE DEF m
  <2> QED
    BY <2>1
<1>2. n = 0 => k # 0
  BY <1>1, MessageIs
<1>3. inbox # <<>>
  BY <1>2, MessageIs
<1>4. c \in Seq(Bytes) /\ Len(c) \in Nat /\ (c \in Commands \/ Rest(c))
  BY <1>3 DEF Streams
<1>5. c # <<>>
  BY <1>4, CommandIs DEF Rest
<1>6. n # 0 => Len(m) >= Len(c) /\ \A i \in 1..Len(c) : m[i] = c[i]
  BY MessageIs
<1>7. n = 0 => Len(m) = k /\ k < Len(c) /\ \A i \in 1..k : m[i] = c[i]
  BY <1>2, MessageIs
<1> HIDE DEF m, c
<1>8. \A i \in 1..Len(m) : i <= Len(c) => m[i] = c[i]
  <2>1. CASE n = 0
    BY <1>1, <1>4, <1>7, <2>1
  <2>2. CASE n # 0
    BY <1>1, <1>4, <1>6, <2>2
  <2> QED
    BY <2>1, <2>2
<1>9. n = 0 => Len(m) < Len(c)
  BY <1>7
<1>10. c[1] = "IAC"
  <2>1. Len(c) >= 1
    BY <1>4, <1>5
  <2> QED
    BY <1>1, <1>4, <1>8, <2>1
<1> QED
  BY <1>1, <1>2, <1>3, <1>4, <1>6, <1>8, <1>9, <1>10 DEF m, c

\* A type is named by the answer, and by all of it if the read did not cut it.
LEMMA AnswerRead ==
  ASSUME inbox \in Seq(Seq(Bytes)), Streams, buffer \in Words,
         NEW n \in 0..Len(inbox), NEW k \in Cuts(n), Named(Message(n, k))
  PROVE  /\ inbox # <<>> /\ inbox[1] = Answer /\ buffer' \in Words
         /\ n # 0 => buffer' = Name
<1> DEFINE m == Message(n, k)
           c == inbox[1]
<1>1. /\ isCommand(m) /\ Scans(decodeTelnetCommand(m), IsFormat)
      /\ ~ Scans(decodeTelnetCommand(m), WillFormat)
      /\ buffer' = Scanned(decodeTelnetCommand(m), IsFormat)
  BY DEF Named
<1>2. /\ m \in Seq(Bytes) /\ inbox # <<>>
      /\ c \in Commands \/ Rest(c)
      /\ c[1] = "IAC" /\ Len(c) \in Nat /\ Len(m) \in Nat
      /\ \A i \in 1..Len(m) : i <= Len(c) => m[i] = c[i]
      /\ n # 0 => Len(m) >= Len(c)
      /\ n = 0 => Len(m) < Len(c)
  BY <1>1, FirstPiece
<1> HIDE DEF m, c
<1>3. Len(m) >= 2
  <2>1. Len(m) >= 1
    BY <1>1, <1>2 DEF isCommand
  <2>2. ~ (Len(m) = 1)
    BY <1>1, <1>2, WillScans
  <2> QED
    BY <1>2, <2>1, <2>2, OneOrMore
<1>4. m[2] = "SB"
  BY <1>1, <1>2, <1>3, IsNeedsSB
<1>5. c = Answer
  <2>1. Len(c) >= 2 /\ (c[2] = "SB" => c = Answer)
    BY <1>2, HeadIs
  <2>2. m[2] = c[2]
    BY <1>2, <1>3, <2>1
  <2> QED
    BY <1>4, <2>1, <2>2
<1>6. BeginsAnswer(m)
  BY <1>2, <1>3, <1>5 DEF BeginsAnswer
<1>7. /\ Len(m) <= 4 => buffer' = buffer
      /\ \A q \in 1..Len(Name) : Len(m) = 4 + q => buffer' = SubSeq(Name, 1, q)
      /\ Len(m) >= Len(Name) + 5 => buffer' = Name
  BY <1>1, <1>6, IsScans
<1>8. Len(Name) \in Nat /\ Len(c) = Len(Name) + 6
  BY <1>5, AnswerIs
<1>9. n # 0 => buffer' = Name
  BY <1>2, <1>7, <1>8
<1>10. buffer' \in Words
  <2>1. CASE Len(m) <= 4
    BY <1>7, <2>1
  <2>2. CASE Len(m) >= Len(Name) + 5
    BY <1>7, <2>2, WordsAre
  <2>3. CASE ~ (Len(m) <= 4) /\ ~ (Len(m) >= Len(Name) + 5)
    <3>1. PICK q \in 1..Len(Name) : Len(m) = 4 + q
      <4>1. Len(m) - 4 \in 1..Len(Name)
        BY <1>2, <1>8, <2>3
      <4>2. Len(m) = 4 + (Len(m) - 4)
        BY <1>2, AddAndTake
      <4> QED
        BY <4>1, <4>2
    <3>2. buffer' = SubSeq(Name, 1, q)
      BY <1>7, <3>1
    <3> QED
      BY <3>2, WordsAre
  <2> QED
    BY <2>1, <2>2, <2>3
<1> QED
  BY <1>2, <1>5, <1>9, <1>10 DEF c

\* A type is requested of a client whose offer was read, unless a read cut a command.
LEMMA OfferRead ==
  ASSUME inbox \in Seq(Seq(Bytes)), Streams, buffer \in Words,
         NEW n \in 0..Len(inbox), NEW k \in Cuts(n), Willing(Message(n, k))
  PROVE  /\ buffer' \in Words
         /\ n # 0 /\ Offered(buffer') => inbox # <<>> /\ inbox[1] = Offer
<1> DEFINE m == Message(n, k)
           c == inbox[1]
<1>1. /\ isCommand(m) /\ Scans(decodeTelnetCommand(m), WillFormat)
      /\ buffer' = Scanned(decodeTelnetCommand(m), WillFormat)
  BY DEF Willing
<1>2. /\ m \in Seq(Bytes) /\ inbox # <<>>
      /\ c \in Commands \/ Rest(c)
      /\ c[1] = "IAC" /\ Len(c) \in Nat /\ Len(m) \in Nat
      /\ \A i \in 1..Len(m) : i <= Len(c) => m[i] = c[i]
      /\ n # 0 => Len(m) >= Len(c)
  BY <1>1, FirstPiece
<1> HIDE DEF m, c
<1>3. /\ Len(m) = 1 \/ m[2] = "WILL"
      /\ Len(m) <= 2 => buffer' = buffer
      /\ Len(m) >= 3 /\ m[2] = "WILL" => buffer' = <<m[3]>>
  BY <1>1, <1>2, WillScans
<1>4. buffer' \in Words
  <2>1. CASE Len(m) <= 2
    BY <1>3, <2>1
  <2>2. CASE ~ (Len(m) <= 2)
    <3>1. Len(m) >= 3 /\ 3 \in 1..Len(m)
      BY <1>2, <2>2
    <3>2. m[3] \in Bytes
      BY <1>2, <3>1
    <3>3. ASSUME Len(m) = 1 PROVE FALSE
      BY <3>1, <3>3
    <3>4. buffer' = <<m[3]>>
      BY <1>3, <3>1, <3>3
    <3> QED
      BY <3>2, <3>4, WordsAre
  <2> QED
    BY <2>1, <2>2
<1>5. ASSUME n # 0, Offered(buffer')
      PROVE  c = Offer
  <2>1. /\ Len(c) >= 2 /\ (c[2] = "WILL" => Len(c) >= 3)
        /\ c[2] = "WILL" /\ c[3] = "TERM_TYPE" => c = Offer
    BY <1>2, HeadIs
  <2>2. Len(m) >= 2 /\ m[2] = c[2]
    BY <1>2, <1>5, <2>1
  <2>3. ~ (Len(m) = 1)
    BY <1>2, <2>2
  <2>4. m[2] = "WILL" /\ Len(c) >= 3
    BY <1>3, <2>1, <2>2, <2>3
  <2>5. Len(m) >= 3 /\ m[3] = c[3]
    BY <1>2, <1>5, <2>4
  <2>6. <<m[3]>> = <<"TERM_TYPE">>
    BY <1>3, <1>5, <2>4, <2>5 DEF Offered
  <2>7. <<m[3]>>[1] = <<"TERM_TYPE">>[1]
    BY <2>6
  <2>8. c[3] = "TERM_TYPE"
    BY <2>5, <2>7
  <2> QED
    BY <2>1, <2>2, <2>4, <2>8
<1> QED
  BY <1>2, <1>4, <1>5 DEF c

\* The offer and the answer are recognized when they are read alone.
LEMMA OfferTaken ==
  ASSUME Passed(Offer) \/ Willing(Offer) \/ Named(Offer)
  PROVE  toClient' = Append(toClient, Request)
<1>1. /\ Offer \in Seq(Bytes) /\ Len(Offer) = 3
      /\ Offer[1] = "IAC" /\ Offer[2] = "WILL" /\ Offer[3] = "TERM_TYPE"
  BY CommandTypes DEF Plainly
<1>2. isCommand(Offer)
  BY <1>1 DEF isCommand
<1>3. /\ Scans(decodeTelnetCommand(Offer), WillFormat)
      /\ Scanned(decodeTelnetCommand(Offer), WillFormat) = <<"TERM_TYPE">>
  <2>1. Len(Offer) >= 3
    BY <1>1
  <2>2. /\ Scans(decodeTelnetCommand(Offer), WillFormat)
             <=> (Len(Offer) = 1 \/ Offer[2] = "WILL")
        /\ Len(Offer) >= 3 /\ Offer[2] = "WILL"
             => Scanned(decodeTelnetCommand(Offer), WillFormat) = <<Offer[3]>>
    BY <1>1, <1>2, WillScans
  <2> QED
    BY <1>1, <2>1, <2>2
<1>4. ~ Passed(Offer)
  BY <1>2, <1>3 DEF Passed
<1>5. ~ Named(Offer)
  BY <1>3 DEF Named
<1>6. Willing(Offer)
  BY <1>4, <1>5
<1>7. buffer' = <<"TERM_TYPE">>
  BY <1>3, <1>6 DEF Willing
<1> QED
  BY <1>6, <1>7 DEF Willing, Offered

\* A message that begins as the answer names the type, or part of it.
LEMMA AnswerTaken ==
  ASSUME Passed(Answer) \/ Willing(Answer) \/ Named(Answer)
  PROVE  clientTerminalType' = Name
<1>1. /\ Answer \in Seq(Bytes) /\ Len(Answer) = Len(Name) + 6 /\ Len(Name) \in Nat
      /\ Answer[1] = "IAC" /\ Answer[2] = "SB"
  BY AnswerIs
<1>2. isCommand(Answer)
  BY <1>1 DEF isCommand
<1>3. BeginsAnswer(Answer)
  BY <1>1 DEF BeginsAnswer
<1>4. ~ Scans(decodeTelnetCommand(Answer), WillFormat)
  <2>1. ~ (Len(Answer) = 1)
    BY <1>1
  <2> QED
    BY <1>1, <1>2, <2>1, WillScans
<1>5. /\ Scans(decodeTelnetCommand(Answer), IsFormat)
      /\ Scanned(decodeTelnetCommand(Answer), IsFormat) = Name
  BY <1>1, <1>3, IsScans
<1>6. ~ Passed(Answer)
  BY <1>2, <1>5 DEF Passed
<1>7. ~ Willing(Answer)
  BY <1>4 DEF Willing
<1> QED
  BY <1>5, <1>6, <1>7 DEF Named

-----------------------------------------------------------------------------
(* The inductive invariant.                                                *)

Holds(pieces, command) == \E i \in 1..Len(pieces) : pieces[i] = command

Phases ==
  /\ phase = "options" => toClient = <<>>
  /\ phase \in {"options", "drain", "ask"} =>
       /\ requests = 0 /\ clientTerminalType = Unknown
       /\ ~ Holds(toClient, Request)
       /\ whole => ~ Holds(inbox, Answer)
  /\ phase \in {"drain", "await"} => cycle <= Limit
  /\ phase = "await" => requests <= cycle

Offers ==
  whole =>
    /\ Holds(inbox, Offer) => willing = "yes" /\ requests = 0
    /\ \A i, j \in 1..Len(inbox) : inbox[i] = Offer /\ inbox[j] = Offer => i = j
    /\ requests <= IF willing = "yes" THEN 1 ELSE 0

Recognizes ==
  willing = "yes" /\ ~ early /\ whole /\ alone =>
    \/ Holds(inbox, Offer) \/ Holds(toClient, Request) \/ Holds(inbox, Answer)
    \/ clientTerminalType = Name

NegotiationInv ==
  /\ NegotiationTypeOK /\ Streams /\ Phases /\ Offers /\ Recognizes /\ TypeIsClients

\* The commands that the invariant tells from the others.
LEMMA Distinct ==
  /\ \A c \in Replies : c # Offer /\ c # Answer /\ c # Request /\ c # Ask
  /\ Refusal # Offer /\ Refusal # Answer /\ Offer # Answer /\ Ask # Request
  /\ \A key \in Keys : <<key>> # Offer /\ <<key>> # Answer
<1>1. \A c \in Replies : c[2] \in Verbs /\ c[3] \in Options
  BY CommandTypes DEF Plainly
<1>2. /\ Offer[1] = "IAC" /\ Offer[2] = "WILL" /\ Offer[3] = "TERM_TYPE"
      /\ Ask[2] = "DO" /\ Ask[3] = "TERM_TYPE" /\ Refusal[2] = "WONT" /\ Request[2] = "SB"
      /\ Answer[1] = "IAC" /\ Answer[2] = "SB"
  BY CommandTypes, AnswerIs DEF Plainly
<1>3. "SB" \notin Verbs /\ "TERM_TYPE" \notin Options
  BY DEF Verbs, Options
<1>4. \A c \in Replies : c # Offer /\ c # Answer /\ c # Request /\ c # Ask
  BY <1>1, <1>2, <1>3
<1>5. Refusal # Offer /\ Refusal # Answer /\ Offer # Answer /\ Ask # Request
  BY <1>2
<1>6. \A key \in Keys : <<key>>[1] # "IAC"
  <2>1. "IAC" \notin Letters
    BY LettersAssumption DEF CommandTable
  <2> QED
    BY <2>1, CommandTypes
<1>7. \A key \in Keys : <<key>> # Offer /\ <<key>> # Answer
  BY <1>2, <1>6
<1> QED
  BY <1>4, <1>5, <1>7

\* The commands of both sides are sequences of bytes.
LEMMA CommandsTyped ==
  /\ \A c \in ServerCommands : c \in Seq(Bytes)
  /\ \A c \in Commands : c \in Seq(Bytes)
  /\ Seq(Replies) \subseteq Seq(Seq(Bytes))
<1>1. \A c \in Replies : c \in Seq(Bytes)
  BY CommandTypes DEF Plainly
<1>2. Ask \in Seq(Bytes) /\ Request \in Seq(Bytes)
  BY CommandTypes DEF Plainly
<1>3. \A c \in ServerCommands : c \in Seq(Bytes)
  BY <1>1, <1>2 DEF ServerCommands
<1>4. \A c \in Commands : c \in Seq(Bytes)
  BY CommandIs
<1> QED
  BY <1>1, <1>3, <1>4

\* A sequence with one element more, and one without its first.
LEMMA Longer ==
  ASSUME NEW S, NEW s \in Seq(S), NEW e \in S
  PROVE  /\ Append(s, e) \in Seq(S) /\ Len(Append(s, e)) = Len(s) + 1
         /\ \A i \in 1..Len(s) : Append(s, e)[i] = s[i]
         /\ Append(s, e)[Len(s) + 1] = e
         /\ \A c : Holds(Append(s, e), c) <=> Holds(s, c) \/ e = c
<1>1. /\ Append(s, e) \in Seq(S) /\ Len(Append(s, e)) = Len(s) + 1 /\ Len(s) \in Nat
      /\ \A i \in 1..Len(s) : Append(s, e)[i] = s[i]
      /\ Append(s, e)[Len(s) + 1] = e
  OBVIOUS
<1> DEFINE t == Append(s, e)
<1> HIDE DEF t
<1>2. ASSUME NEW c PROVE Holds(t, c) <=> Holds(s, c) \/ e = c
  <2>1. /\ Len(t) = Len(s) + 1 /\ \A i \in 1..Len(s) : t[i] = s[i]
        /\ t[Len(s) + 1] = e /\ Len(s) \in Nat
    BY <1>1 DEF t
  <2>2. ASSUME Holds(t, c) PROVE Holds(s, c) \/ e = c
    <3>1. PICK i \in 1..Len(t) : t[i] = c
      BY <2>2 DEF Holds
    <3>2. i \in 1..Len(s) \/ i = Len(s) + 1
      BY <2>1
    <3> QED
      BY <2>1, <3>1, <3>2 DEF Holds
  <2>3. ASSUME Holds(s, c) PROVE Holds(t, c)
    <3>1. PICK i \in 1..Len(s) : s[i] = c
      BY <2>3 DEF Holds
    <3>2. i \in 1..Len(t) /\ t[i] = c
      BY <2>1, <3>1
    <3> QED
      BY <3>2 DEF Holds
  <2>4. ASSUME e = c PROVE Holds(t, c)
    <3>1. Len(s) + 1 \in 1..Len(t) /\ t[Len(s) + 1] = c
      BY <2>1, <2>4
    <3> QED
      BY <3>1 DEF Holds
  <2> QED
    BY <2>2, <2>3, <2>4
<1> QED
  BY <1>1, <1>2 DEF t

\* What the client has yet to read once it has read a command.
LEMMA Shorter ==
  ASSUME NEW S, NEW s \in Seq(S), s # <<>>
  PROVE  /\ Tail(s) \in Seq(S) /\ Head(s) = s[1] /\ 1 \in 1..Len(s)
         /\ Len(Tail(s)) = Len(s) - 1
         /\ \A i \in 1..Len(Tail(s)) : Tail(s)[i] = s[i + 1] /\ i + 1 \in 1..Len(s)
         /\ \A c : Holds(s, c) <=> Holds(Tail(s), c) \/ Head(s) = c
<1> DEFINE t == Tail(s)
<1>1. /\ t \in Seq(S) /\ Head(s) = s[1] /\ 1 \in 1..Len(s) /\ Len(s) \in Nat
      /\ Len(t) = Len(s) - 1
      /\ \A i \in 1..Len(t) : t[i] = s[i + 1] /\ i + 1 \in 1..Len(s)
  OBVIOUS
<1> HIDE DEF t
<1>2. ASSUME NEW c PROVE Holds(s, c) <=> Holds(t, c) \/ Head(s) = c
  <2>1. ASSUME Holds(s, c) PROVE Holds(t, c) \/ Head(s) = c
    <3>1. PICK i \in 1..Len(s) : s[i] = c
      BY <2>1 DEF Holds
    <3>2. CASE i = 1
      BY <1>1, <3>1, <3>2
    <3>3. CASE i # 1
      <4>1. i - 1 \in 1..Len(t) /\ (i - 1) + 1 = i
        BY <1>1, <3>3
      <4>2. t[i - 1] = c
        BY <1>1, <3>1, <4>1
      <4> QED
        BY <4>1, <4>2 DEF Holds
    <3> QED
      BY <3>2, <3>3
  <2>2. ASSUME Holds(t, c) PROVE Holds(s, c)
    <3>1. PICK i \in 1..Len(t) : t[i] = c
      BY <2>2 DEF Holds
    <3>2. i + 1 \in 1..Len(s) /\ s[i + 1] = c
      BY <1>1, <3>1
    <3> QED
      BY <3>2 DEF Holds
  <2>3. ASSUME Head(s) = c PROVE Holds(s, c)
    BY <1>1, <2>3 DEF Holds
  <2> QED
    BY <2>1, <2>2, <2>3
<1> QED
  BY <1>1, <1>2 DEF t

\* What a read leaves on the way.
LEMMA ReadStreams ==
  ASSUME inbox \in Seq(Seq(Bytes)), whole \in BOOLEAN, alone \in BOOLEAN, Streams,
         NEW n \in 0..Len(inbox), NEW k \in Cuts(n), Read(n, k)
  PROVE  /\ inbox' \in Seq(Seq(Bytes)) /\ whole' \in BOOLEAN /\ alone' \in BOOLEAN
         /\ \A i \in 1..Len(inbox') :
              inbox'[i] \in Commands \/ (i = 1 /\ ~ whole' /\ Rest(inbox'[1]))
         /\ whole' =>
              /\ whole /\ k = 0 /\ Len(inbox') = Len(inbox) - n
              /\ \A i \in 1..Len(inbox') : inbox'[i] = inbox[n + i] /\ n + i \in 1..Len(inbox)
              /\ \A c : Holds(inbox', c) => Holds(inbox, c)
         /\ alone' => alone /\ (n = 0 \/ n + k = 1)
<1>1. /\ inbox' \in Seq(Seq(Bytes)) /\ Len(inbox') = Len(inbox) - n
      /\ \A i \in 1..Len(inbox') : i # 1 \/ k = 0 => inbox'[i] = inbox[n + i]
      /\ k # 0 => Rest(inbox'[1])
  BY ReadIs
<1>2. /\ whole' = (whole /\ k = 0)
      /\ alone' = (alone /\ (n = 0 \/ n + k = 1))
  BY DEF Read
<1>3. Len(inbox) \in Nat /\ n \in Nat /\ Len(inbox') \in Nat
  BY <1>1
<1>4. \A i \in 1..Len(inbox') : n + i \in 1..Len(inbox)
  BY <1>1, <1>3
<1>5. ASSUME NEW i \in 1..Len(inbox')
      PROVE  inbox'[i] \in Commands \/ (i = 1 /\ ~ whole' /\ Rest(inbox'[1]))
  <2>1. CASE i = 1 /\ k # 0
    BY <1>1, <1>2, <2>1
  <2>2. CASE i # 1 \/ k = 0
    <3>1. inbox'[i] = inbox[n + i] /\ n + i \in 1..Len(inbox)
      BY <1>1, <1>4, <2>2
    <3>2. inbox[n + i] \in Commands \/ (n + i = 1 /\ ~ whole /\ Rest(inbox[1]))
      BY <3>1 DEF Streams
    <3>3. n + i = 1 => i = 1
      BY <1>3
    <3> QED
      BY <1>2, <3>1, <3>2, <3>3
  <2> QED
    BY <2>1, <2>2
<1>6. ASSUME whole'
      PROVE  /\ whole /\ k = 0
             /\ \A i \in 1..Len(inbox') : inbox'[i] = inbox[n + i] /\ n + i \in 1..Len(inbox)
  BY <1>1, <1>2, <1>4, <1>6
<1>7. ASSUME whole', NEW c, Holds(inbox', c)
      PROVE  Holds(inbox, c)
  BY <1>6, <1>7 DEF Holds
<1>8. whole' \in BOOLEAN /\ alone' \in BOOLEAN
  BY <1>2
<1>9. alone' => alone /\ (n = 0 \/ n + k = 1)
  BY <1>2
<1> QED
  BY <1>1, <1>5, <1>6, <1>7, <1>8, <1>9

\* What the server states of its options.
LEMMA OptionsAre ==
  ASSUME optionEcho \in BOOLEAN, optionLinemode \in BOOLEAN
  PROVE  EchoOption \o LinemodeOptions \in Seq(Replies)
<1>1. ASSUME NEW verb \in Verbs, NEW option \in Options
      PROVE  Says(<<"IAC", verb, option>>) \in Replies
  <2>1. Says(<<"IAC", verb, option>>) = <<"IAC", verb, option>>
    BY EncodeThree DEF Says
  <2> QED
    BY <2>1 DEF Replies
<1>2. EchoOption \in Seq(Replies)
  <2> DEFINE verb == IF optionEcho THEN "WONT" ELSE "WILL"
  <2>1. verb \in Verbs /\ "ECHO" \in Options
    BY DEF Verbs, Options
  <2> HIDE DEF verb
  <2>2. Says(<<"IAC", verb, "ECHO">>) \in Replies
    BY <1>1, <2>1
  <2>3. EchoOption = <<Says(<<"IAC", verb, "ECHO">>)>>
    BY DEF EchoOption, verb
  <2> QED
    BY <2>2, <2>3
<1>3. LinemodeOptions \in Seq(Replies)
  <2>1. /\ {"DO", "WILL", "DONT"} \subseteq Verbs /\ {"LINEMODE", "SUPRESS_GA"} \subseteq Options
    BY DEF Verbs, Options
  <2>2. /\ Says(<<"IAC", "DO", "LINEMODE">>) \in Replies
        /\ Says(<<"IAC", "WILL", "SUPRESS_GA">>) \in Replies
        /\ Says(<<"IAC", "DONT", "LINEMODE">>) \in Replies
        /\ Says(<<"IAC", "DONT", "SUPRESS_GA">>) \in Replies
    BY <1>1, <2>1
  <2> QED
    BY <2>2 DEF LinemodeOptions
<1> QED
  BY <1>2, <1>3

\* The options are stated while nothing is on its way to the client.
LEMMA StateOptionsKeeps ==
  ASSUME NegotiationInv, StateOptions
  PROVE  NegotiationInv'
<1>1. /\ phase = "options" /\ phase' = "drain" /\ cycle' = 0
      /\ toClient' = EchoOption \o LinemodeOptions
      /\ UNCHANGED <<optionEcho, optionLinemode, buffer, clientTerminalType, requests,
                     inbox, whole, alone, early, willing, typed>>
  BY DEF StateOptions, reads, people
<1>2. /\ NegotiationTypeOK /\ Streams /\ Phases /\ Offers /\ Recognizes /\ TypeIsClients
  BY DEF NegotiationInv
<1>3. toClient' \in Seq(Replies) /\ Limit \in Nat
  BY <1>1, <1>2, OptionsAre, NegotiationAssumption DEF NegotiationTypeOK
<1>4. NegotiationTypeOK'
  <2>1. toClient' \in Seq(Seq(Bytes))
    BY <1>3, CommandsTyped
  <2> QED
    BY <1>1, <1>2, <1>3, <2>1 DEF NegotiationTypeOK
<1>5. Streams'
  <2>1. \A i \in 1..Len(toClient') : toClient'[i] \in ServerCommands
    BY <1>3 DEF ServerCommands
  <2> QED
    BY <1>1, <1>2, <2>1 DEF Streams
<1>6. ~ Holds(toClient', Request) /\ ~ Holds(toClient, Request)
  <2>1. \A i \in 1..Len(toClient') : toClient'[i] # Request
    BY <1>3, Distinct
  <2>2. ~ Holds(toClient, Request)
    BY <1>1, <1>2 DEF Phases
  <2> QED
    BY <2>1, <2>2 DEF Holds
<1>7. Phases'
  BY <1>1, <1>2, <1>3, <1>6 DEF Phases
<1>8. Offers'
  BY <1>1, <1>2 DEF Offers
<1>9. Recognizes'
  BY <1>1, <1>2, <1>6 DEF Recognizes
<1>10. TypeIsClients'
  BY <1>1, <1>2 DEF TypeIsClients
<1> QED
  BY <1>4, <1>5, <1>7, <1>8, <1>9, <1>10 DEF NegotiationInv

\* IAC DO TERM_TYPE is the question whether there is a type, and no request for it.
LEMMA AskForTypeKeeps ==
  ASSUME NegotiationInv, AskForType
  PROVE  NegotiationInv'
<1>1. /\ phase = "ask" /\ phase' = "await" /\ cycle' = 0
      /\ toClient' = Append(toClient, Ask)
      /\ UNCHANGED <<optionEcho, optionLinemode, buffer, clientTerminalType, requests,
                     inbox, whole, alone, early, willing, typed>>
  BY DEF AskForType, reads, people
<1>2. /\ NegotiationTypeOK /\ Streams /\ Phases /\ Offers /\ Recognizes /\ TypeIsClients
  BY DEF NegotiationInv
<1>3. Ask \in Seq(Bytes) /\ Ask \in ServerCommands /\ Limit \in Nat
  BY CommandsTyped, NegotiationAssumption DEF ServerCommands
<1>4. /\ toClient' \in Seq(Seq(Bytes)) /\ Len(toClient') = Len(toClient) + 1
      /\ \A i \in 1..Len(toClient) : toClient'[i] = toClient[i]
      /\ toClient'[Len(toClient) + 1] = Ask
      /\ Len(toClient) \in Nat
      /\ Holds(toClient', Request) <=> Holds(toClient, Request)
  <2>1. toClient \in Seq(Seq(Bytes))
    BY <1>2 DEF NegotiationTypeOK
  <2> QED
    BY <1>1, <1>3, <2>1, Longer, Distinct
<1>5. NegotiationTypeOK'
  BY <1>1, <1>2, <1>3, <1>4 DEF NegotiationTypeOK
<1>6. Streams'
  <2>1. \A i \in 1..Len(toClient') : toClient'[i] \in ServerCommands
    <3>1. \A i \in 1..Len(toClient) + 1 : i \in 1..Len(toClient) \/ i = Len(toClient) + 1
      BY <1>4
    <3> QED
      BY <1>2, <1>3, <1>4, <3>1 DEF Streams
  <2> QED
    BY <1>1, <1>2, <2>1 DEF Streams
<1>7. Phases'
  BY <1>1, <1>2, <1>3 DEF Phases
<1>8. Offers'
  BY <1>1, <1>2 DEF Offers
<1>9. Recognizes'
  BY <1>1, <1>2, <1>4 DEF Recognizes
<1>10. TypeIsClients'
  BY <1>1, <1>2 DEF TypeIsClients
<1> QED
  BY <1>5, <1>6, <1>7, <1>8, <1>9, <1>10 DEF NegotiationInv

\* What the invariant says of the way to the server, after any read.
LEMMA ReadOffers ==
  ASSUME NegotiationInv, NEW n \in 0..Len(inbox), NEW k \in Cuts(n), Read(n, k), whole'
  PROVE  /\ Holds(inbox', Offer) => willing = "yes" /\ requests = 0
         /\ \A i, j \in 1..Len(inbox') : inbox'[i] = Offer /\ inbox'[j] = Offer => i = j
         /\ n # 0 /\ inbox[1] = Offer => ~ Holds(inbox', Offer)
<1>1. /\ inbox \in Seq(Seq(Bytes)) /\ whole \in BOOLEAN /\ alone \in BOOLEAN
      /\ Streams /\ Offers
  BY DEF NegotiationInv, NegotiationTypeOK
<1>2. /\ whole /\ Len(inbox') = Len(inbox) - n
      /\ \A i \in 1..Len(inbox') : inbox'[i] = inbox[n + i] /\ n + i \in 1..Len(inbox)
      /\ Holds(inbox', Offer) => Holds(inbox, Offer)
  BY <1>1, ReadStreams
<1>3. /\ Holds(inbox, Offer) => willing = "yes" /\ requests = 0
      /\ \A i, j \in 1..Len(inbox) : inbox[i] = Offer /\ inbox[j] = Offer => i = j
  BY <1>1, <1>2 DEF Offers
<1>4. ASSUME NEW i \in 1..Len(inbox'), NEW j \in 1..Len(inbox'),
             inbox'[i] = Offer, inbox'[j] = Offer
      PROVE  i = j
  <2>1. n + i = n + j
    BY <1>2, <1>3, <1>4
  <2> QED
    BY <2>1
<1>5. ASSUME n # 0, inbox[1] = Offer, Holds(inbox', Offer)
      PROVE  FALSE
  <2>1. PICK i \in 1..Len(inbox') : inbox'[i] = Offer
    BY <1>5 DEF Holds
  <2>2. inbox[n + i] = Offer /\ n + i \in 1..Len(inbox) /\ 1 \in 1..Len(inbox) /\ n + i # 1
    BY <1>2, <1>5, <2>1
  <2> QED
    BY <1>3, <1>5, <2>2
<1> QED
  BY <1>2, <1>3, <1>4, <1>5

\* A read that is dropped takes no answer, and an offer only if it is early.
LEMMA DrainKeeps ==
  ASSUME NegotiationInv, Drain
  PROVE  NegotiationInv'
<1>1. PICK n \in 0..Len(inbox) : \E k \in Cuts(n) :
        /\ Read(n, k) /\ Goes(Message(n, k), "ask")
        /\ early' = (early \/ \E i \in 1..n : inbox[i] = Offer)
  BY DEF Drain
<1>2. PICK k \in Cuts(n) :
        /\ Read(n, k) /\ Goes(Message(n, k), "ask")
        /\ early' = (early \/ \E i \in 1..n : inbox[i] = Offer)
  BY <1>1
<1>3. /\ phase = "drain"
      /\ UNCHANGED <<optionEcho, optionLinemode, buffer, clientTerminalType, requests,
                     toClient, willing, typed>>
  BY DEF Drain, people
<1>4. /\ NegotiationTypeOK /\ Streams /\ Phases /\ Offers /\ Recognizes /\ TypeIsClients
      /\ inbox \in Seq(Seq(Bytes)) /\ whole \in BOOLEAN /\ alone \in BOOLEAN
      /\ early \in BOOLEAN /\ Limit \in Nat /\ cycle \in Nat /\ cycle <= Limit
      /\ requests = 0 /\ (whole => ~ Holds(inbox, Answer))
  <2>1. NegotiationTypeOK /\ Streams /\ Phases /\ Offers /\ Recognizes /\ TypeIsClients
    BY DEF NegotiationInv
  <2> QED
    BY <1>3, <2>1, NegotiationAssumption DEF NegotiationTypeOK, Phases
<1>5. /\ cycle' = cycle + 1
      /\ phase' = IF cycle + 1 > Limit THEN "ask" ELSE "drain"
  BY <1>2, <1>3 DEF Goes, Counted, Expired
<1>6. /\ inbox' \in Seq(Seq(Bytes)) /\ whole' \in BOOLEAN /\ alone' \in BOOLEAN
      /\ \A i \in 1..Len(inbox') :
           inbox'[i] \in Commands \/ (i = 1 /\ ~ whole' /\ Rest(inbox'[1]))
      /\ whole' =>
           /\ whole /\ k = 0 /\ Len(inbox') = Len(inbox) - n
           /\ \A i \in 1..Len(inbox') : inbox'[i] = inbox[n + i] /\ n + i \in 1..Len(inbox)
           /\ \A c : Holds(inbox', c) => Holds(inbox, c)
      /\ alone' => alone
  BY <1>2, <1>4, ReadStreams
<1>7. NegotiationTypeOK'
  <2>1. early' \in BOOLEAN
    BY <1>2, <1>4
  <2>2. cycle' \in 0..Limit + 1 /\ phase' \in {"options", "drain", "ask", "await", "done"}
    BY <1>4, <1>5
  <2> QED
    BY <1>3, <1>4, <1>6, <2>1, <2>2 DEF NegotiationTypeOK
<1>8. Streams'
  BY <1>3, <1>4, <1>6 DEF Streams
<1>9. Phases'
  <2>1. phase' = "drain" => cycle' <= Limit
    BY <1>4, <1>5
  <2>2. phase' \in {"drain", "ask"}
    BY <1>5
  <2>3. ~ Holds(toClient, Request) /\ clientTerminalType = Unknown
    BY <1>3, <1>4 DEF Phases
  <2>4. whole' => ~ Holds(inbox', Answer)
    BY <1>4, <1>6
  <2> QED
    BY <1>3, <1>4, <2>1, <2>2, <2>3, <2>4 DEF Phases
<1>10. Offers'
  <2>1. whole' => requests <= IF willing = "yes" THEN 1 ELSE 0
    BY <1>4, <1>6 DEF Offers
  <2>2. whole' =>
          /\ Holds(inbox', Offer) => willing = "yes" /\ requests = 0
          /\ \A i, j \in 1..Len(inbox') : inbox'[i] = Offer /\ inbox'[j] = Offer => i = j
    BY <1>2, ReadOffers
  <2> QED
    BY <1>3, <2>1, <2>2 DEF Offers
<1>11. Recognizes'
  <2>1. ASSUME willing = "yes", ~ early', whole', alone'
        PROVE  Holds(inbox', Offer) \/ Holds(toClient, Request) \/ clientTerminalType = Name
    <3>1. ~ early /\ ~ \E i \in 1..n : inbox[i] = Offer
      BY <1>2, <2>1
    <3>2. \/ Holds(inbox, Offer) \/ Holds(toClient, Request) \/ clientTerminalType = Name
      BY <1>4, <1>6, <2>1, <3>1 DEF Recognizes
    <3>3. ASSUME Holds(inbox, Offer) PROVE Holds(inbox', Offer)
      <4>1. PICK i \in 1..Len(inbox) : inbox[i] = Offer
        BY <3>3 DEF Holds
      <4>2. i \notin 1..n
        BY <3>1, <4>1
      <4>3. i - n \in 1..Len(inbox') /\ n + (i - n) = i
        BY <1>4, <1>6, <2>1, <4>2
      <4>4. inbox'[i - n] = Offer
        BY <1>6, <2>1, <4>1, <4>3
      <4> QED
        BY <4>3, <4>4 DEF Holds
    <3> QED
      BY <3>2, <3>3
  <2> QED
    BY <1>3, <2>1 DEF Recognizes
<1>12. TypeIsClients'
  BY <1>3, <1>4, <1>6 DEF TypeIsClients
<1> QED
  BY <1>7, <1>8, <1>9, <1>10, <1>11, <1>12 DEF NegotiationInv

\* What the routine may do with a message.
LEMMA AwaitDoes ==
  ASSUME NegotiationInv, phase = "await", NEW n \in 0..Len(inbox), NEW k \in Cuts(n),
         Passed(Message(n, k)) \/ Willing(Message(n, k)) \/ Named(Message(n, k))
  PROVE  /\ buffer' \in Words /\ clientTerminalType' \in Words \cup {Unknown}
         /\ cycle' \in 0..Limit + 1 /\ requests' \in 0..Limit + 1
         /\ phase' \in {"await", "done"}
         /\ phase' = "await" => cycle' <= Limit /\ requests' <= cycle'
         /\ \/ toClient' = toClient /\ requests' = requests
            \/ /\ toClient' = Append(toClient, Request) /\ requests' = requests + 1
               /\ k = 0 => n # 0 /\ inbox # <<>> /\ inbox[1] = Offer
         /\ clientTerminalType' = clientTerminalType \/ (k = 0 => clientTerminalType' = Name)
<1> DEFINE m == Message(n, k)
<1>1. /\ inbox \in Seq(Seq(Bytes)) /\ Streams /\ buffer \in Words
      /\ clientTerminalType \in Words \cup {Unknown}
      /\ Limit \in Nat /\ cycle \in Nat /\ cycle <= Limit
      /\ requests \in Nat /\ requests <= cycle
  BY NegotiationAssumption DEF NegotiationInv, NegotiationTypeOK, Phases
<1>2. isCommand(m) /\ n = 0 => k # 0
  BY <1>1, FirstPiece
<1> HIDE DEF m
<1>3. ASSUME Goes(m, "done")
      PROVE  /\ cycle' = cycle + 1 /\ cycle' \in 0..Limit + 1
             /\ phase' \in {"await", "done"} /\ (phase' = "await" => cycle' <= Limit)
  BY <1>1, <1>3 DEF Goes, Counted, Expired
<1>4. CASE Passed(m)
  <2>1. Goes(m, "done") /\ UNCHANGED <<buffer, clientTerminalType, requests, toClient>>
    BY <1>4 DEF Passed
  <2>2. requests' \in 0..Limit + 1 /\ (phase' = "await" => requests' <= cycle')
    BY <1>1, <1>3, <2>1
  <2> QED
    BY <1>1, <1>3, <2>1, <2>2
<1>5. CASE Willing(m)
  <2>1. /\ isCommand(m) /\ Goes(m, "done") /\ clientTerminalType' = clientTerminalType
        /\ IF Offered(buffer')
             THEN toClient' = Append(toClient, Request) /\ requests' = requests + 1
             ELSE toClient' = toClient /\ requests' = requests
    BY <1>5 DEF Willing
  <2>2. buffer' \in Words /\ (n # 0 /\ Offered(buffer') => inbox # <<>> /\ inbox[1] = Offer)
    BY <1>1, <1>5, OfferRead DEF m
  <2>3. requests' = requests \/ requests' = requests + 1
    BY <2>1
  <2>4. requests' \in 0..Limit + 1 /\ (phase' = "await" => requests' <= cycle')
    BY <1>1, <1>3, <2>1, <2>3
  <2>5. \/ toClient' = toClient /\ requests' = requests
        \/ /\ toClient' = Append(toClient, Request) /\ requests' = requests + 1
           /\ k = 0 => n # 0 /\ inbox # <<>> /\ inbox[1] = Offer
    BY <1>2, <2>1, <2>2
  <2> QED
    BY <1>1, <1>3, <2>1, <2>2, <2>4, <2>5
<1>6. CASE Named(m)
  <2>1. /\ isCommand(m) /\ clientTerminalType' = buffer' /\ phase' = "done"
        /\ UNCHANGED <<cycle, requests, toClient>>
    BY <1>6 DEF Named
  <2>2. buffer' \in Words /\ (n # 0 => buffer' = Name)
    BY <1>1, <1>6, AnswerRead DEF m
  <2>3. cycle' \in 0..Limit + 1 /\ requests' \in 0..Limit + 1
    BY <1>1, <2>1
  <2> QED
    BY <1>2, <2>1, <2>2, <2>3
<1> QED
  BY <1>4, <1>5, <1>6 DEF m

\* A read of the second loop, and the request or the name that follows.
LEMMA AwaitKeeps ==
  ASSUME NegotiationInv, Await
  PROVE  NegotiationInv'
<1>1. PICK n \in 0..Len(inbox) : \E k \in Cuts(n) :
        /\ Read(n, k)
        /\ Passed(Message(n, k)) \/ Willing(Message(n, k)) \/ Named(Message(n, k))
  BY DEF Await
<1>2. PICK k \in Cuts(n) :
        /\ Read(n, k)
        /\ Passed(Message(n, k)) \/ Willing(Message(n, k)) \/ Named(Message(n, k))
  BY <1>1
<1>3. phase = "await" /\ UNCHANGED <<optionEcho, optionLinemode, early, willing, typed>>
  BY DEF Await, people
<1>4. /\ NegotiationTypeOK /\ Streams /\ Phases /\ Offers /\ Recognizes /\ TypeIsClients
      /\ inbox \in Seq(Seq(Bytes)) /\ whole \in BOOLEAN /\ alone \in BOOLEAN
      /\ toClient \in Seq(Seq(Bytes)) /\ Len(inbox) \in Nat /\ n \in Nat
  <2>1. NegotiationTypeOK /\ Streams /\ Phases /\ Offers /\ Recognizes /\ TypeIsClients
    BY DEF NegotiationInv
  <2> QED
    BY <2>1 DEF NegotiationTypeOK
<1>5. /\ buffer' \in Words /\ clientTerminalType' \in Words \cup {Unknown}
      /\ cycle' \in 0..Limit + 1 /\ requests' \in 0..Limit + 1
      /\ phase' \in {"await", "done"}
      /\ phase' = "await" => cycle' <= Limit /\ requests' <= cycle'
      /\ \/ toClient' = toClient /\ requests' = requests
         \/ /\ toClient' = Append(toClient, Request) /\ requests' = requests + 1
            /\ k = 0 => n # 0 /\ inbox # <<>> /\ inbox[1] = Offer
      /\ clientTerminalType' = clientTerminalType \/ (k = 0 => clientTerminalType' = Name)
  BY <1>2, <1>3, AwaitDoes
<1>6. /\ inbox' \in Seq(Seq(Bytes)) /\ whole' \in BOOLEAN /\ alone' \in BOOLEAN
      /\ \A i \in 1..Len(inbox') :
           inbox'[i] \in Commands \/ (i = 1 /\ ~ whole' /\ Rest(inbox'[1]))
      /\ whole' =>
           /\ whole /\ k = 0 /\ Len(inbox') = Len(inbox) - n
           /\ \A i \in 1..Len(inbox') : inbox'[i] = inbox[n + i] /\ n + i \in 1..Len(inbox)
           /\ \A c : Holds(inbox', c) => Holds(inbox, c)
      /\ alone' => alone /\ (n = 0 \/ n + k = 1)
  BY <1>2, <1>4, ReadStreams
<1>7. Request \in Seq(Bytes) /\ Request \in ServerCommands
  BY CommandsTyped DEF ServerCommands
<1>8. ASSUME toClient' = Append(toClient, Request)
      PROVE  /\ toClient' \in Seq(Seq(Bytes)) /\ Len(toClient') = Len(toClient) + 1
             /\ \A i \in 1..Len(toClient) : toClient'[i] = toClient[i]
             /\ toClient'[Len(toClient) + 1] = Request /\ Holds(toClient', Request)
  BY <1>4, <1>7, <1>8, Longer
<1>9. NegotiationTypeOK'
  <2>1. toClient' \in Seq(Seq(Bytes))
    BY <1>4, <1>5, <1>8
  <2>2. phase' \in {"options", "drain", "ask", "await", "done"}
    BY <1>5
  <2> QED
    BY <1>3, <1>4, <1>5, <1>6, <2>1, <2>2 DEF NegotiationTypeOK
<1>10. Streams'
  <2>1. \A i \in 1..Len(toClient) : toClient[i] \in ServerCommands
    BY <1>4 DEF Streams
  <2>2. \A i \in 1..Len(toClient') : toClient'[i] \in ServerCommands
    <3>1. CASE toClient' = toClient
      BY <2>1, <3>1
    <3>2. CASE toClient' = Append(toClient, Request)
      <4>1. Len(toClient) \in Nat
        BY <1>4
      <4>2. \A i \in 1..Len(toClient) + 1 : i \in 1..Len(toClient) \/ i = Len(toClient) + 1
        BY <4>1
      <4> QED
        BY <1>7, <1>8, <2>1, <3>2, <4>2
    <3> QED
      BY <1>5, <3>1, <3>2
  <2> QED
    BY <1>6, <2>2 DEF Streams
<1>11. Phases'
  BY <1>5 DEF Phases
<1>12. Offers'
  <2>1. ASSUME whole'
        PROVE  /\ Holds(inbox', Offer) => willing = "yes" /\ requests' = 0
               /\ \A i, j \in 1..Len(inbox') : inbox'[i] = Offer /\ inbox'[j] = Offer => i = j
               /\ requests' <= IF willing = "yes" THEN 1 ELSE 0
    <3>1. /\ Holds(inbox', Offer) => willing = "yes" /\ requests = 0
          /\ \A i, j \in 1..Len(inbox') : inbox'[i] = Offer /\ inbox'[j] = Offer => i = j
          /\ n # 0 /\ inbox[1] = Offer => ~ Holds(inbox', Offer)
      BY <1>2, <2>1, ReadOffers
    <3>2. /\ Holds(inbox, Offer) => willing = "yes" /\ requests = 0
          /\ requests <= IF willing = "yes" THEN 1 ELSE 0
      BY <1>4, <1>6, <2>1 DEF Offers
    <3>3. CASE requests' = requests
      BY <3>1, <3>2, <3>3
    <3>4. CASE requests' = requests + 1 /\ n # 0 /\ inbox # <<>> /\ inbox[1] = Offer
      <4>1. 1 \in 1..Len(inbox)
        BY <1>4, <3>4
      <4>2. Holds(inbox, Offer)
        BY <3>4, <4>1 DEF Holds
      <4>3. willing = "yes" /\ requests' = 1 /\ ~ Holds(inbox', Offer)
        BY <3>1, <3>2, <3>4, <4>2
      <4> QED
        BY <3>1, <4>3
    <3> QED
      BY <1>5, <1>6, <2>1, <3>3, <3>4
  <2> QED
    BY <1>3, <2>1 DEF Offers
<1>13. Recognizes'
  <2>1. ASSUME willing = "yes", ~ early, whole', alone'
        PROVE  \/ Holds(inbox', Offer) \/ Holds(toClient', Request) \/ Holds(inbox', Answer)
               \/ clientTerminalType' = Name
    <3>1. \/ Holds(inbox, Offer) \/ Holds(toClient, Request) \/ Holds(inbox, Answer)
          \/ clientTerminalType = Name
      BY <1>4, <1>6, <2>1 DEF Recognizes
    <3>2. k = 0 /\ (n = 0 \/ n = 1)
      BY <1>4, <1>6, <2>1
    <3>3. ASSUME NEW c, Holds(inbox, c)
          PROVE  Holds(inbox', c) \/ Message(n, k) = c
      <4>1. PICK i \in 1..Len(inbox) : inbox[i] = c
        BY <3>3 DEF Holds
      <4>2. CASE i \in 1..n
        <5>1. n = 1 /\ i = 1
          BY <3>2, <4>2
        <5>2. Message(n, k) = inbox[1]
          BY <1>4, <3>2, <5>1, MessageIs
        <5> QED
          BY <4>1, <5>1, <5>2
      <4>3. CASE i \notin 1..n
        <5>1. i - n \in 1..Len(inbox') /\ n + (i - n) = i
          BY <1>4, <1>6, <2>1, <4>3
        <5>2. inbox'[i - n] = c
          BY <1>6, <2>1, <4>1, <5>1
        <5> QED
          BY <5>1, <5>2 DEF Holds
      <4> QED
        BY <4>2, <4>3
    <3>4. CASE Holds(inbox, Offer)
      <4>1. Message(n, k) = Offer => toClient' = Append(toClient, Request)
        BY <1>2, OfferTaken
      <4> QED
        BY <1>8, <3>3, <3>4, <4>1
    <3>5. CASE Holds(inbox, Answer)
      <4>1. Message(n, k) = Answer => clientTerminalType' = Name
        BY <1>2, AnswerTaken
      <4> QED
        BY <3>3, <3>5, <4>1
    <3>6. CASE Holds(toClient, Request)
      BY <1>5, <1>8, <3>6
    <3>7. CASE clientTerminalType = Name
      BY <1>5, <3>2, <3>7
    <3> QED
      BY <3>1, <3>4, <3>5, <3>6, <3>7
  <2> QED
    BY <1>3, <2>1 DEF Recognizes
<1>14. TypeIsClients'
  BY <1>4, <1>5, <1>6 DEF TypeIsClients
<1> QED
  BY <1>9, <1>10, <1>11, <1>12, <1>13, <1>14 DEF NegotiationInv

\* What the invariant asks of a step of the client.
LEMMA ClientStep ==
  ASSUME NegotiationInv, UNCHANGED <<server, reads>>,
         typed' \in 0..MaxTyped, willing' \in {"unsaid", "yes", "no"},
         toClient' \in Seq(Seq(Bytes)),
         \A i \in 1..Len(toClient') : toClient'[i] \in ServerCommands,
         phase = "options" => toClient' = <<>>,
         Holds(toClient', Request) => Holds(toClient, Request),
         inbox' \in Seq(Seq(Bytes)),
         \A i \in 1..Len(inbox') :
           inbox'[i] \in Commands \/ (i = 1 /\ ~ whole /\ Rest(inbox'[1])),
         Holds(inbox', Answer) => Holds(inbox, Answer) \/ Holds(toClient, Request),
         Offers', Recognizes'
  PROVE  NegotiationInv'
<1>1. /\ NegotiationTypeOK /\ Streams /\ Phases /\ TypeIsClients
      /\ UNCHANGED <<optionEcho, optionLinemode, phase, cycle, buffer, clientTerminalType,
                     requests, whole, alone, early>>
  BY DEF NegotiationInv, server, reads
<1>2. NegotiationTypeOK'
  BY <1>1 DEF NegotiationTypeOK
<1>3. Streams'
  BY <1>1 DEF Streams
<1>4. Phases'
  BY <1>1 DEF Phases
<1>5. TypeIsClients'
  BY <1>1 DEF TypeIsClients
<1> QED
  BY <1>2, <1>3, <1>4, <1>5 DEF NegotiationInv

\* A command more is on the way to the server.
LEMMA Sent ==
  ASSUME NegotiationInv, NEW command \in Commands, inbox' = Append(inbox, command)
  PROVE  /\ inbox' \in Seq(Seq(Bytes))
         /\ \A i \in 1..Len(inbox') :
              inbox'[i] \in Commands \/ (i = 1 /\ ~ whole /\ Rest(inbox'[1]))
         /\ \A c : Holds(inbox', c) <=> Holds(inbox, c) \/ command = c
         /\ whole /\ (command = Offer => ~ Holds(inbox, Offer))
              => \A i, j \in 1..Len(inbox') : inbox'[i] = Offer /\ inbox'[j] = Offer => i = j
<1>1. inbox \in Seq(Seq(Bytes)) /\ Streams /\ Offers /\ command \in Seq(Bytes)
  BY CommandsTyped DEF NegotiationInv, NegotiationTypeOK
<1>2. /\ inbox' \in Seq(Seq(Bytes)) /\ Len(inbox') = Len(inbox) + 1 /\ Len(inbox) \in Nat
      /\ \A i \in 1..Len(inbox) : inbox'[i] = inbox[i]
      /\ inbox'[Len(inbox) + 1] = command
      /\ \A c : Holds(inbox', c) <=> Holds(inbox, c) \/ command = c
  BY <1>1, Longer
<1>3. \A i \in 1..Len(inbox') : i \in 1..Len(inbox) \/ i = Len(inbox) + 1
  BY <1>2
<1>4. ASSUME NEW i \in 1..Len(inbox')
      PROVE  inbox'[i] \in Commands \/ (i = 1 /\ ~ whole /\ Rest(inbox'[1]))
  <2>1. CASE i \in 1..Len(inbox)
    <3>1. inbox[i] \in Commands \/ (i = 1 /\ ~ whole /\ Rest(inbox[1]))
      BY <1>1, <2>1 DEF Streams
    <3>2. inbox'[i] = inbox[i]
      BY <1>2, <2>1
    <3> QED
      BY <3>1, <3>2
  <2>2. CASE i = Len(inbox) + 1
    BY <1>2, <2>2
  <2> QED
    BY <1>3, <2>1, <2>2
<1>5. ASSUME whole, command = Offer => ~ Holds(inbox, Offer),
             NEW i \in 1..Len(inbox'), NEW j \in 1..Len(inbox'),
             inbox'[i] = Offer, inbox'[j] = Offer
      PROVE  i = j
  <2>1. CASE command = Offer
    <3>1. \A p \in 1..Len(inbox) : inbox'[p] # Offer
      BY <1>2, <1>5, <2>1 DEF Holds
    <3> QED
      BY <1>3, <1>5, <3>1
  <2>2. CASE command # Offer
    <3>1. i \in 1..Len(inbox) /\ j \in 1..Len(inbox)
      BY <1>2, <1>3, <1>5, <2>2
    <3>2. inbox[i] = Offer /\ inbox[j] = Offer
      BY <1>2, <1>5, <3>1
    <3> QED
      BY <1>1, <1>5, <3>1, <3>2 DEF Offers
  <2> QED
    BY <2>1, <2>2
<1> QED
  BY <1>2, <1>4, <1>5

\* A client that has said nothing has sent no offer.
LEMMA Unsaid ==
  ASSUME NegotiationInv, willing = "unsaid", whole
  PROVE  ~ Holds(inbox, Offer) /\ requests = 0
BY DEF NegotiationInv, NegotiationTypeOK, Offers

\* A key is a command of its own behind the others.
LEMMA ClientTypesKeeps ==
  ASSUME NegotiationInv, ClientTypes
  PROVE  NegotiationInv'
<1>1. PICK key \in Keys : inbox' = Append(inbox, <<key>>)
  BY DEF ClientTypes, Send
<1>2. /\ UNCHANGED <<server, reads>> /\ toClient' = toClient /\ willing' = willing
      /\ typed' = typed + 1 /\ typed < MaxTyped
  BY DEF ClientTypes
<1>3. <<key>> \in Commands /\ <<key>> # Offer /\ <<key>> # Answer
  BY Distinct DEF Commands
<1>4. /\ inbox' \in Seq(Seq(Bytes))
      /\ \A i \in 1..Len(inbox') :
           inbox'[i] \in Commands \/ (i = 1 /\ ~ whole /\ Rest(inbox'[1]))
      /\ \A c : Holds(inbox', c) <=> Holds(inbox, c) \/ <<key>> = c
      /\ whole /\ (<<key>> = Offer => ~ Holds(inbox, Offer))
           => \A i, j \in 1..Len(inbox') : inbox'[i] = Offer /\ inbox'[j] = Offer => i = j
  BY <1>1, <1>3, Sent
<1>5. /\ Holds(inbox', Offer) <=> Holds(inbox, Offer)
      /\ Holds(inbox', Answer) <=> Holds(inbox, Answer)
  BY <1>3, <1>4
<1>6. /\ NegotiationTypeOK /\ Streams /\ Phases /\ Offers /\ Recognizes /\ MaxTyped \in Nat
      /\ UNCHANGED <<phase, clientTerminalType, requests, whole, alone, early>>
  BY <1>2, NegotiationAssumption DEF NegotiationInv, server, reads
<1>7. Offers'
  BY <1>2, <1>3, <1>4, <1>5, <1>6 DEF Offers
<1>8. Recognizes'
  BY <1>2, <1>5, <1>6 DEF Recognizes
<1>9. /\ typed' \in 0..MaxTyped /\ willing' \in {"unsaid", "yes", "no"}
      /\ toClient' \in Seq(Seq(Bytes))
  BY <1>2, <1>6 DEF NegotiationTypeOK
<1>10. /\ \A i \in 1..Len(toClient') : toClient'[i] \in ServerCommands
       /\ phase = "options" => toClient' = <<>>
  BY <1>2, <1>6 DEF Streams, Phases
<1> QED
  BY <1>2, <1>4, <1>5, <1>7, <1>8, <1>9, <1>10, ClientStep

\* The first offer of a client.
LEMMA OfferSent ==
  ASSUME NegotiationInv, willing = "unsaid", willing' = "yes", inbox' = Append(inbox, Offer),
         UNCHANGED <<server, reads>>
  PROVE  /\ inbox' \in Seq(Seq(Bytes))
         /\ \A i \in 1..Len(inbox') :
              inbox'[i] \in Commands \/ (i = 1 /\ ~ whole /\ Rest(inbox'[1]))
         /\ Holds(inbox', Answer) => Holds(inbox, Answer)
         /\ Offers' /\ Recognizes'
<1>1. Offer \in Commands /\ Offer # Answer
  BY Distinct DEF Commands
<1>2. /\ inbox' \in Seq(Seq(Bytes))
      /\ \A i \in 1..Len(inbox') :
           inbox'[i] \in Commands \/ (i = 1 /\ ~ whole /\ Rest(inbox'[1]))
      /\ \A c : Holds(inbox', c) <=> Holds(inbox, c) \/ Offer = c
      /\ whole /\ (Offer = Offer => ~ Holds(inbox, Offer))
           => \A i, j \in 1..Len(inbox') : inbox'[i] = Offer /\ inbox'[j] = Offer => i = j
  BY <1>1, Sent
<1>3. UNCHANGED <<requests, whole, alone, early, clientTerminalType>>
  BY DEF server, reads
<1>4. Offers'
  BY <1>2, <1>3, Unsaid DEF Offers
<1>5. Recognizes'
  BY <1>2 DEF Recognizes
<1> QED
  BY <1>1, <1>2, <1>4, <1>5

\* A client that offers the type unasked has said nothing before.
LEMMA ClientOffersKeeps ==
  ASSUME NegotiationInv, ClientOffers
  PROVE  NegotiationInv'
<1>1. /\ willing = "unsaid" /\ willing' = "yes" /\ inbox' = Append(inbox, Offer)
      /\ UNCHANGED <<server, reads>> /\ toClient' = toClient /\ typed' = typed
  BY DEF ClientOffers, Send
<1>2. /\ inbox' \in Seq(Seq(Bytes))
      /\ \A i \in 1..Len(inbox') :
           inbox'[i] \in Commands \/ (i = 1 /\ ~ whole /\ Rest(inbox'[1]))
      /\ Holds(inbox', Answer) => Holds(inbox, Answer)
      /\ Offers' /\ Recognizes'
  BY <1>1, OfferSent
<1>3. /\ typed' \in 0..MaxTyped /\ toClient' \in Seq(Seq(Bytes))
      /\ \A i \in 1..Len(toClient') : toClient'[i] \in ServerCommands
      /\ phase = "options" => toClient' = <<>>
  BY <1>1 DEF NegotiationInv, NegotiationTypeOK, Streams, Phases
<1> QED
  BY <1>1, <1>2, <1>3, ClientStep

\* What the client does with a command, seen from the way to the server.
LEMMA ClientAnswers ==
  ASSUME NegotiationInv, NEW command \in ServerCommands,
         UNCHANGED <<server, reads>>, toClient # <<>>, Head(toClient) = command,
         toClient' = Tail(toClient),
         IF command = Ask THEN AnswerAsk
         ELSE /\ UNCHANGED willing
              /\ IF command = Request THEN Send(Answer) ELSE AnswerOption(command)
  PROVE  /\ willing' \in {"unsaid", "yes", "no"}
         /\ inbox' \in Seq(Seq(Bytes))
         /\ \A i \in 1..Len(inbox') :
              inbox'[i] \in Commands \/ (i = 1 /\ ~ whole /\ Rest(inbox'[1]))
         /\ Holds(inbox', Answer) => Holds(inbox, Answer) \/ Holds(toClient, Request)
         /\ Offers' /\ Recognizes'
<1>1. /\ NegotiationTypeOK /\ Streams /\ Phases /\ Offers /\ Recognizes
      /\ inbox \in Seq(Seq(Bytes)) /\ toClient \in Seq(Seq(Bytes))
      /\ willing \in {"unsaid", "yes", "no"}
      /\ UNCHANGED <<requests, whole, alone, early, clientTerminalType>>
  BY DEF NegotiationInv, NegotiationTypeOK, server, reads
<1>2. \A c : Holds(toClient, c) <=> Holds(toClient', c) \/ command = c
  BY <1>1, Shorter
<1>3. ASSUME inbox' = inbox, willing' = willing, command # Request
      PROVE  /\ willing' \in {"unsaid", "yes", "no"}
             /\ inbox' \in Seq(Seq(Bytes))
             /\ \A i \in 1..Len(inbox') :
                  inbox'[i] \in Commands \/ (i = 1 /\ ~ whole /\ Rest(inbox'[1]))
             /\ Holds(inbox', Answer) => Holds(inbox, Answer)
             /\ Offers' /\ Recognizes'
  <2>1. Offers'
    BY <1>1, <1>3 DEF Offers
  <2>2. Recognizes'
    BY <1>1, <1>2, <1>3 DEF Recognizes
  <2>3. \A i \in 1..Len(inbox) :
          inbox[i] \in Commands \/ (i = 1 /\ ~ whole /\ Rest(inbox[1]))
    BY <1>1 DEF Streams
  <2> QED
    BY <1>1, <1>3, <2>1, <2>2, <2>3
<1>4. ASSUME NEW c \in Commands, inbox' = Append(inbox, c), c # Offer,
             willing' = willing \/ (willing = "unsaid" /\ willing' = "no"),
             command = Request => c = Answer, c = Answer => command = Request
      PROVE  /\ willing' \in {"unsaid", "yes", "no"}
             /\ inbox' \in Seq(Seq(Bytes))
             /\ \A i \in 1..Len(inbox') :
                  inbox'[i] \in Commands \/ (i = 1 /\ ~ whole /\ Rest(inbox'[1]))
             /\ Holds(inbox', Answer) => Holds(inbox, Answer) \/ Holds(toClient, Request)
             /\ Offers' /\ Recognizes'
  <2>1. /\ inbox' \in Seq(Seq(Bytes))
        /\ \A i \in 1..Len(inbox') :
             inbox'[i] \in Commands \/ (i = 1 /\ ~ whole /\ Rest(inbox'[1]))
        /\ \A x : Holds(inbox', x) <=> Holds(inbox, x) \/ c = x
        /\ whole /\ (c = Offer => ~ Holds(inbox, Offer))
             => \A i, j \in 1..Len(inbox') : inbox'[i] = Offer /\ inbox'[j] = Offer => i = j
    BY <1>4, Sent
  <2>2. Holds(inbox', Offer) <=> Holds(inbox, Offer)
    BY <1>4, <2>1
  <2>3. Holds(inbox', Answer) => Holds(inbox, Answer) \/ Holds(toClient, Request)
    BY <1>2, <1>4, <2>1
  <2>4. Offers'
    <3>1. ASSUME willing = "unsaid", whole PROVE ~ Holds(inbox, Offer) /\ requests = 0
      BY <3>1, Unsaid
    <3>2. CASE willing' = willing
      BY <1>1, <1>4, <2>1, <2>2, <3>2 DEF Offers
    <3>3. CASE willing = "unsaid" /\ willing' = "no"
      BY <1>1, <1>4, <2>1, <2>2, <3>1, <3>3 DEF Offers
    <3> QED
      BY <1>4, <3>2, <3>3
  <2>5. Recognizes'
    <3>1. CASE willing' = willing
      <4>1. Holds(inbox', Answer) <=> Holds(inbox, Answer) \/ c = Answer
        BY <2>1
      <4>2. Holds(toClient, Request) => Holds(toClient', Request) \/ command = Request
        BY <1>2
      <4> QED
        BY <1>1, <1>4, <2>2, <3>1, <4>1, <4>2 DEF Recognizes
    <3>2. CASE willing' = "no"
      BY <3>2 DEF Recognizes
    <3> QED
      BY <1>4, <3>1, <3>2
  <2>6. willing' \in {"unsaid", "yes", "no"}
    BY <1>1, <1>4
  <2> QED
    BY <2>1, <2>3, <2>4, <2>5, <2>6
<1>5. CASE command = Ask
  <2>1. command # Request
    BY <1>5, Distinct
  <2>2. \/ willing = "unsaid" /\ willing' = "yes" /\ inbox' = Append(inbox, Offer)
        \/ willing = "unsaid" /\ willing' = "no" /\ inbox' = Append(inbox, Refusal)
        \/ willing' = willing /\ inbox' = inbox
    BY <1>5 DEF AnswerAsk, Send
  <2>3. CASE willing = "unsaid" /\ willing' = "yes" /\ inbox' = Append(inbox, Offer)
    BY <2>3, OfferSent
  <2>4. CASE willing = "unsaid" /\ willing' = "no" /\ inbox' = Append(inbox, Refusal)
    <3>1. Refusal \in Commands /\ Refusal # Offer /\ Refusal # Answer
      BY Distinct DEF Commands
    <3> QED
      BY <1>4, <2>1, <2>4, <3>1
  <2>5. CASE willing' = willing /\ inbox' = inbox
    BY <1>3, <2>1, <2>5
  <2> QED
    BY <2>2, <2>3, <2>4, <2>5
<1>6. CASE command = Request
  <2>1. Answer \in Commands /\ Answer # Offer
    BY Distinct DEF Commands
  <2>2. willing' = willing /\ inbox' = Append(inbox, Answer)
    <3>1. command # Ask
      BY <1>6, Distinct
    <3> QED
      BY <1>6, <3>1 DEF Send
  <2> QED
    BY <1>4, <1>6, <2>1, <2>2
<1>7. CASE command \in Replies
  <2>1. command # Ask /\ command # Request /\ command[3] \in Options
    BY <1>7, Distinct, CommandTypes
  <2>2. willing' = willing /\ AnswerOption(command)
    BY <2>1
  <2>3. CASE inbox' = inbox
    BY <1>3, <2>1, <2>2, <2>3
  <2>4. CASE inbox' # inbox
    <3>1. PICK verb \in IF command[2] \in {"DO", "DONT"} THEN {"WILL", "WONT"} ELSE {"DO", "DONT"} :
            inbox' = Append(inbox, <<"IAC", verb, command[3]>>)
      BY <2>2, <2>4 DEF AnswerOption, Send
    <3> DEFINE c == <<"IAC", verb, command[3]>>
    <3>2. c \in Replies
      <4>1. verb \in Verbs
        BY DEF Verbs
      <4> QED
        BY <2>1, <4>1 DEF Replies
    <3> HIDE DEF c
    <3>3. c \in Commands /\ c # Offer /\ c # Answer
      BY <3>2, Distinct DEF Commands
    <3>4. inbox' = Append(inbox, c)
      BY <3>1 DEF c
    <3> QED
      BY <1>4, <2>1, <2>2, <3>3, <3>4
  <2> QED
    BY <2>3, <2>4
<1> QED
  BY <1>5, <1>6, <1>7 DEF ServerCommands

\* The client reads one command and answers.
LEMMA ClientReadsKeeps ==
  ASSUME NegotiationInv, ClientReads
  PROVE  NegotiationInv'
<1> DEFINE command == Head(toClient)
<1>1. /\ toClient # <<>> /\ toClient' = Tail(toClient)
      /\ IF command = Ask THEN AnswerAsk
         ELSE /\ UNCHANGED willing
              /\ IF command = Request THEN Send(Answer) ELSE AnswerOption(command)
      /\ UNCHANGED <<server, reads>> /\ typed' = typed
  BY DEF ClientReads
<1>2. /\ toClient \in Seq(Seq(Bytes)) /\ typed \in 0..MaxTyped
      /\ \A i \in 1..Len(toClient) : toClient[i] \in ServerCommands
      /\ phase = "options" => toClient = <<>>
  BY DEF NegotiationInv, NegotiationTypeOK, Streams, Phases
<1>3. /\ toClient' \in Seq(Seq(Bytes)) /\ command = toClient[1] /\ 1 \in 1..Len(toClient)
      /\ \A i \in 1..Len(toClient') : toClient'[i] = toClient[i + 1] /\ i + 1 \in 1..Len(toClient)
      /\ \A c : Holds(toClient, c) <=> Holds(toClient', c) \/ command = c
  BY <1>1, <1>2, Shorter
<1>4. command \in ServerCommands
  BY <1>2, <1>3
<1>5. /\ \A i \in 1..Len(toClient') : toClient'[i] \in ServerCommands
      /\ Holds(toClient', Request) => Holds(toClient, Request)
      /\ phase = "options" => toClient' = <<>>
      /\ typed' \in 0..MaxTyped
  BY <1>1, <1>2, <1>3
<1> HIDE DEF command
<1>6. /\ willing' \in {"unsaid", "yes", "no"}
      /\ inbox' \in Seq(Seq(Bytes))
      /\ \A i \in 1..Len(inbox') :
           inbox'[i] \in Commands \/ (i = 1 /\ ~ whole /\ Rest(inbox'[1]))
      /\ Holds(inbox', Answer) => Holds(inbox, Answer) \/ Holds(toClient, Request)
      /\ Offers' /\ Recognizes'
  <2>1. Head(toClient) = command
    BY DEF command
  <2> QED
    BY <1>1, <1>4, <2>1, ClientAnswers
<1> QED
  BY <1>1, <1>3, <1>5, <1>6, ClientStep

-----------------------------------------------------------------------------
(* The theorems.                                                           *)

\* The invariant holds at first,
LEMMA NegotiationInvInit ==
  ASSUME NegotiationInit
  PROVE  NegotiationInv
<1>1. /\ optionEcho \in BOOLEAN /\ optionLinemode \in BOOLEAN
      /\ phase = "options" /\ cycle = 0
      /\ buffer = <<>> /\ clientTerminalType = Unknown
      /\ inbox = <<>> /\ toClient = <<>>
      /\ willing = "unsaid" /\ typed = 0
      /\ requests = 0 /\ whole = TRUE /\ alone = TRUE /\ early = FALSE
  BY DEF NegotiationInit
<1>2. Limit \in Nat /\ MaxTyped \in Nat /\ buffer \in Words
  BY <1>1, NegotiationAssumption DEF Words
<1>3. NegotiationTypeOK
  <2>1. cycle \in 0..Limit + 1 /\ typed \in 0..MaxTyped /\ requests \in 0..Limit + 1
    BY <1>1, <1>2
  <2>2. inbox \in Seq(Seq(Bytes)) /\ toClient \in Seq(Seq(Bytes))
    BY <1>1
  <2>3. clientTerminalType \in Words \cup {Unknown}
    BY <1>1
  <2>4. /\ phase \in {"options", "drain", "ask", "await", "done"}
        /\ willing \in {"unsaid", "yes", "no"}
        /\ whole \in BOOLEAN /\ alone \in BOOLEAN /\ early \in BOOLEAN
    BY <1>1
  <2> QED
    BY <1>1, <1>2, <2>1, <2>2, <2>3, <2>4 DEF NegotiationTypeOK
<1>4. /\ Len(inbox) = 0 /\ Len(toClient) = 0 /\ 1..0 = {}
  BY <1>1
<1>5. \A c : ~ Holds(inbox, c) /\ ~ Holds(toClient, c)
  BY <1>4 DEF Holds
<1>6. Streams
  BY <1>4 DEF Streams
<1>7. Phases
  BY <1>1, <1>2, <1>5 DEF Phases
<1>8. Offers
  BY <1>1, <1>4, <1>5 DEF Offers
<1>9. Recognizes
  BY <1>1 DEF Recognizes
<1>10. TypeIsClients
  BY <1>1 DEF TypeIsClients
<1> QED
  BY <1>3, <1>6, <1>7, <1>8, <1>9, <1>10 DEF NegotiationInv

\* is kept by every step,
LEMMA NegotiationInvStep ==
  ASSUME NegotiationInv, [NegotiationNext]_negotiationVars
  PROVE  NegotiationInv'
<1>1. CASE StateOptions
  BY <1>1, StateOptionsKeeps
<1>2. CASE Drain
  BY <1>2, DrainKeeps
<1>3. CASE AskForType
  BY <1>3, AskForTypeKeeps
<1>4. CASE Await
  BY <1>4, AwaitKeeps
<1>5. CASE ClientReads
  BY <1>5, ClientReadsKeeps
<1>6. CASE ClientOffers
  BY <1>6, ClientOffersKeeps
<1>7. CASE ClientTypes
  BY <1>7, ClientTypesKeeps
<1>8. CASE UNCHANGED negotiationVars
  BY <1>8 DEF negotiationVars, server, net, reads, people, NegotiationInv,
              NegotiationTypeOK, Streams, Phases, Offers, Recognizes, TypeIsClients
<1> QED
  BY <1>1, <1>2, <1>3, <1>4, <1>5, <1>6, <1>7, <1>8 DEF NegotiationNext, Negotiate

\* and so holds always.
LEMMA NegotiationInvAlways == NegotiationSpec => []NegotiationInv
<1>1. NegotiationInit => NegotiationInv
  BY NegotiationInvInit
<1>2. NegotiationInv /\ [NegotiationNext]_negotiationVars => NegotiationInv'
  BY NegotiationInvStep
<1> QED
  BY <1>1, <1>2, PTL DEF NegotiationSpec

\* The types of the negotiation's variables: the word that sscanf() stored is one
\* byte of a command, or letters of the client's name; the loops count no further
\* than one beyond their limit, and there are no more requests than reads.
THEOREM NegotiationTypeCorrect == NegotiationSpec => []NegotiationTypeOK
<1>1. NegotiationInv => NegotiationTypeOK
  BY DEF NegotiationInv
<1> QED
  BY <1>1, NegotiationInvAlways, PTL

\* As long as no command is cut in two, the type that basicInitializationRoutine()
\* returns is the client's or unknown, whatever is joined in a read.
THEOREM TypeNamedIsClients == NegotiationSpec => []TypeIsClients
<1>1. NegotiationInv => TypeIsClients
  BY DEF NegotiationInv
<1> QED
  BY <1>1, NegotiationInvAlways, PTL

\* As long as no command is cut in two, the type is requested once at most, and of
\* a client that has offered it.
THEOREM RequestFollowsOffer == NegotiationSpec => []RequestedOnce
<1>1. NegotiationInv => RequestedOnce
  BY DEF NegotiationInv, Offers, RequestedOnce
<1> QED
  BY <1>1, NegotiationInvAlways, PTL

\* A client that offers its type when asked, and whose answers are read one by one
\* before the routine ends, has its type recognized.
THEOREM PromptClientRecognized == NegotiationSpec => []PromptClientNamed
<1>1. NegotiationInv => PromptClientNamed
  <2>1. ASSUME inbox = <<>>, toClient = <<>>
        PROVE  \A c : ~ Holds(inbox, c) /\ ~ Holds(toClient, c)
    <3>1. Len(inbox) = 0 /\ Len(toClient) = 0 /\ 1..0 = {}
      BY <2>1
    <3> QED
      BY <3>1 DEF Holds
  <2> QED
    BY <2>1 DEF NegotiationInv, Recognizes, PromptClientNamed
<1> QED
  BY <1>1, NegotiationInvAlways, PTL
=============================================================================
