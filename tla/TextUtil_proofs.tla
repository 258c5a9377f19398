--------------------------- MODULE TextUtil_proofs ---------------------------
(***************************************************************************)
(* Lemmas about the string functions: where find stops, that decodeUrl     *)
(* undoes encodeUrlPart, and that split takes apart what a delimiter       *)
(* joined.  They hold for texts of any length; those about encoding are    *)
(* about texts of bytes.                                                   *)
(***************************************************************************)
EXTENDS TextUtil, DataLemmas
-----------------------------------------------------------------------------
(* Positions. *)

LEMMA FindRange ==
  ASSUME NEW text \in Seq(Int), NEW seq \in Seq(Int), Len(seq) > 0
  PROVE  Find(text, seq) \in 0..Len(text)
  <1> DEFINE at == {i \in 1..Len(text) - Len(seq) + 1 :
                      SubSeq(text, i, i + Len(seq) - 1) = seq}
  <1>1. Len(text) \in Nat /\ Len(seq) \in Nat
    BY LenProperties
  <1>2. at \subseteq 1..Len(text)
    BY <1>1
  <1> HIDE DEF at
  <1>3. at # {} => Min(at) \in at
    BY <1>1, <1>2, LeastPosition
  <1>4. Find(text, seq) = IF at = {} THEN NPos ELSE Min(at)
    BY DEF Find, at
  <1>5. CASE at = {}
    BY <1>1, <1>4, <1>5 DEF NPos
  <1>6. CASE at # {}
    <2>1. Find(text, seq) = Min(at) /\ Min(at) \in 1..Len(text)
      BY <1>2, <1>3, <1>4, <1>6
    <2> QED BY <1>1, <2>1
  <1> QED BY <1>5, <1>6

LEMMA FindSequenceRange ==
  ASSUME NEW text \in Seq(Int), NEW seq
  PROVE  FindSequence(text, seq) \in 0..Len(text)
  <1> DEFINE at == {i \in 1..Len(text) :
               \A k \in 1..Len(seq) : i + k - 1 <= Len(text) => text[i + k - 1] = seq[k]}
  <1>1. Len(text) \in Nat /\ at \subseteq 1..Len(text)
    BY LenProperties
  <1> HIDE DEF at
  <1>2. at # {} => Min(at) \in at
    BY <1>1, LeastPosition
  <1>3. FindSequence(text, seq) = IF at = {} THEN NPos ELSE Min(at)
    BY DEF FindSequence, at
  <1>4. CASE at = {}
    BY <1>1, <1>3, <1>4 DEF NPos
  <1>5. CASE at # {}
    <2>1. FindSequence(text, seq) = Min(at) /\ Min(at) \in 1..Len(text)
      BY <1>1, <1>2, <1>3, <1>5
    <2> QED BY <1>1, <2>1
  <1> QED BY <1>4, <1>5

\* What is left of a text from one of its positions is no longer than it was.
LEMMA FromShorter ==
  ASSUME NEW text \in Seq(Int), NEW pos \in Nat
  PROVE  From(text, pos) \in Seq(Int) /\ Len(From(text, pos)) <= Len(text)
  <1>1. Len(text) \in Nat
    BY LenProperties
  <1>2. CASE pos = NPos
    BY <1>1, <1>2 DEF From
  <1>3. CASE pos # NPos
    <2>1. pos >= 1 /\ From(text, pos) = SubSeq(text, pos, Len(text))
      BY <1>3 DEF From, NPos
    <2>2. \A i \in pos..Len(text) : text[i] \in Int
      BY <2>1, ElementOfSeq
    <2> QED BY <1>1, <2>1, <2>2, SubSeqProperties
  <1> QED BY <1>2, <1>3
-----------------------------------------------------------------------------
(* decodeUrl and encodeUrlPart. *)

\* The texts that are encoded.
Bytes == 0..255

\* The escapes of a text are whole.
Whole(url) ==
  \A i \in 1..Len(url) : url[i] = Percent =>
    /\ i + 2 <= Len(url)
    /\ HexValue(url[i + 1]) # -1 /\ HexValue(url[i + 2]) # -1

\* What each character of a text stands for.
Decoding(url) == [i \in DOMAIN url |-> DecodedAt(url, i)]

LEMMA HexTyped ==
  ASSUME NEW code \in Int
  PROVE  HexValue(code) \in -1..15
  BY DEF HexValue

LEMMA EscapeDigitsAre ==
  ASSUME NEW url \in Seq(Int), NEW i \in Int
  PROVE  i \in EscapeDigits(url) <=> \/ i - 1 \in 1..Len(url) /\ url[i - 1] = Percent
                                     \/ i - 2 \in 1..Len(url) /\ url[i - 2] = Percent
  <1>1. DOMAIN url = 1..Len(url) /\ Len(url) \in Nat
    BY LenProperties
  <1>2. \A j \in 1..Len(url) : j \in Int /\ (j + 1 = i <=> j = i - 1) /\ (j + 2 = i <=> j = i - 2)
    BY <1>1
  <1> QED BY <1>1, <1>2 DEF EscapeDigits, Escapes

LEMMA DecodingTyped ==
  ASSUME NEW url \in Seq(Int)
  PROVE  /\ Decoding(url) \in Seq(Seq(Int)) /\ Len(Decoding(url)) = Len(url)
         /\ \A i \in 1..Len(url) : Decoding(url)[i] = DecodedAt(url, i)
  <1>1. DOMAIN url = 1..Len(url) /\ Len(url) \in Nat /\ \A i \in 1..Len(url) : url[i] \in Int
    BY LenProperties, ElementOfSeq
  <1>2. \A i \in Int : DigitAt(url, i) \in Int
    BY <1>1, HexTyped DEF DigitAt
  <1>3. \A x \in Int : <<x>> \in Seq(Int)
    OBVIOUS
  <1>4. ASSUME NEW i \in 1..Len(url) PROVE DecodedAt(url, i) \in Seq(Int)
    <2>1. DigitAt(url, i + 1) * 16 + DigitAt(url, i + 2) \in Int
      <3>1. DigitAt(url, i + 1) \in Int /\ DigitAt(url, i + 2) \in Int
        BY <1>2
      <3> QED BY <3>1
    <2>2. url[i] \in Int /\ Space \in Int
      BY <1>1 DEF Space
    <2>3. <<>> \in Seq(Int)
      BY EmptySeq
    <2> HIDE DEF Space
    <2> QED BY <1>3, <2>1, <2>2, <2>3, Zenon DEF DecodedAt
  <1>5. Decoding(url) \in [1..Len(url) -> Seq(Int)]
    BY <1>1, <1>4 DEF Decoding
  <1> QED BY <1>1, <1>5 DEF Decoding

\* A text whose escapes are whole does not throw ...
LEMMA DecodeWhole ==
  ASSUME NEW url \in Seq(Int), Whole(url)
  PROVE  DecodeUrl(url) = FlattenSeq(Decoding(url))
  <1>1. DOMAIN url = 1..Len(url) /\ Len(url) \in Nat
    BY LenProperties
  <1>2. ASSUME NEW i \in EscapeDigits(url) PROVE DigitAt(url, i) # -1
    <2>1. PICK j \in 1..Len(url) : url[j] = Percent /\ (i = j + 1 \/ i = j + 2)
      BY <1>1 DEF EscapeDigits, Escapes
    <2>2. j + 2 <= Len(url) /\ HexValue(url[j + 1]) # -1 /\ HexValue(url[j + 2]) # -1
      BY <2>1 DEF Whole
    <2>3. i \in DOMAIN url
      BY <1>1, <2>1, <2>2
    <2> QED BY <2>1, <2>2, <2>3 DEF DigitAt
  <1> QED BY <1>2 DEF DecodeUrl, Decoding

\* ... and two of them are decoded one after the other.
LEMMA DecodeConcat ==
  ASSUME NEW u \in Seq(Int), NEW v \in Seq(Int), Whole(u), Whole(v)
  PROVE  Whole(u \o v) /\ DecodeUrl(u \o v) = DecodeUrl(u) \o DecodeUrl(v)
  <1> DEFINE n == Len(u)
             m == Len(v)
             w == u \o v
  <1>1. n \in Nat /\ m \in Nat
    BY LenProperties
  <1>2. /\ w \in Seq(Int) /\ Len(w) = n + m
        /\ (\A i \in 1..n : w[i] = u[i]) /\ (\A i \in 1..m : w[n + i] = v[i])
    <2>1. /\ w \in Seq(Int) /\ Len(w) = n + m
          /\ \A i \in 1..n + m : w[i] = IF i <= n THEN u[i] ELSE v[i - n]
      BY ConcatProperties
    <2> HIDE DEF n, m, w
    <2>2. \A i \in 1..n : i \in 1..n + m /\ i <= n
      BY <1>1
    <2>3. \A i \in 1..m : n + i \in 1..n + m /\ ~(n + i <= n) /\ (n + i) - n = i
      BY <1>1
    <2> QED BY <2>1, <2>2, <2>3
  <1>3. /\ \A i \in 1..n : u[i] = Percent => i + 2 <= n /\ HexValue(u[i + 1]) # -1
                                            /\ HexValue(u[i + 2]) # -1
        /\ \A i \in 1..m : v[i] = Percent => i + 2 <= m /\ HexValue(v[i + 1]) # -1
                                            /\ HexValue(v[i + 2]) # -1
    BY DEF Whole
  <1> HIDE DEF n, m, w
  <1>4. \A i \in 1..n + m : i \in 1..n \/ \E j \in 1..m : i = n + j
    <2> SUFFICES ASSUME NEW i \in 1..n + m, i \notin 1..n PROVE \E j \in 1..m : i = n + j
      OBVIOUS
    <2>1. i - n \in 1..m /\ i = n + (i - n)
      BY <1>1
    <2> QED BY <2>1
  <1>5. ASSUME NEW i \in 1..n, w[i] = Percent
        PROVE  i + 2 <= n /\ w[i + 1] = u[i + 1] /\ w[i + 2] = u[i + 2]
    <2>1. i + 2 <= n
      BY <1>2, <1>3, <1>5
    <2>2. i + 1 \in 1..n /\ i + 2 \in 1..n
      BY <1>1, <2>1
    <2> QED BY <1>2, <2>1, <2>2
  <1>6. ASSUME NEW i \in 1..m, w[n + i] = Percent
        PROVE  i + 2 <= m /\ w[n + i + 1] = v[i + 1] /\ w[n + i + 2] = v[i + 2]
    <2>1. i + 2 <= m
      BY <1>2, <1>3, <1>6
    <2>2. i + 1 \in 1..m /\ i + 2 \in 1..m /\ n + i + 1 = n + (i + 1) /\ n + i + 2 = n + (i + 2)
      BY <1>1, <2>1
    <2>3. w[n + (i + 1)] = v[i + 1] /\ w[n + (i + 2)] = v[i + 2]
      BY <1>2, <2>2
    <2> QED BY <2>1, <2>2, <2>3
  <1>7. Whole(w)
    <2> SUFFICES ASSUME NEW i \in 1..n + m, w[i] = Percent
                 PROVE  i + 2 <= n + m /\ HexValue(w[i + 1]) # -1 /\ HexValue(w[i + 2]) # -1
      BY <1>2 DEF Whole
    <2>1. CASE i \in 1..n
      <3>1. i + 2 <= n + m
        BY <1>1, <1>5, <2>1
      <3> QED BY <1>2, <1>3, <1>5, <2>1, <3>1
    <2>2. ASSUME NEW j \in 1..m, i = n + j
          PROVE  i + 2 <= n + m /\ HexValue(w[i + 1]) # -1 /\ HexValue(w[i + 2]) # -1
      <3>1. j + 2 <= m /\ w[i + 1] = v[j + 1] /\ w[i + 2] = v[j + 2] /\ v[j] = Percent
        BY <1>2, <1>6, <2>2
      <3>2. i + 2 <= n + m
        BY <1>1, <2>2, <3>1
      <3> QED BY <1>3, <3>1, <3>2
    <2> QED BY <1>4, <2>1, <2>2
  <1>8. ASSUME NEW i \in 1..n PROVE DecodedAt(w, i) = DecodedAt(u, i)
    <2>1. i \in EscapeDigits(w) <=> i \in EscapeDigits(u)
      <3>1. \A j \in {i - 1, i - 2} : /\ j \in 1..n + m <=> j \in 1..n
                                      /\ j \in 1..n => w[j] = u[j]
        <4>1. \A j \in {i - 1, i - 2} : j \in 1..n + m <=> j \in 1..n
          BY <1>1
        <4>2. \A j \in 1..n : w[j] = u[j]
          BY <1>2
        <4> QED BY <4>1, <4>2
      <3>2. i \in EscapeDigits(u) <=> \/ i - 1 \in 1..n /\ u[i - 1] = Percent
                                      \/ i - 2 \in 1..n /\ u[i - 2] = Percent
        BY EscapeDigitsAre DEF n
      <3>3. i \in EscapeDigits(w) <=> \/ i - 1 \in 1..n + m /\ w[i - 1] = Percent
                                      \/ i - 2 \in 1..n + m /\ w[i - 2] = Percent
        BY <1>2, EscapeDigitsAre
      <3> QED BY <3>1, <3>2, <3>3
    <2>2. w[i] = u[i]
      BY <1>2
    <2>3. ASSUME u[i] = Percent
          PROVE  DigitAt(w, i + 1) = DigitAt(u, i + 1) /\ DigitAt(w, i + 2) = DigitAt(u, i + 2)
      <3>1. i + 2 <= n /\ w[i + 1] = u[i + 1] /\ w[i + 2] = u[i + 2]
        BY <1>5, <2>2, <2>3
      <3>2. DOMAIN w = 1..n + m /\ DOMAIN u = 1..n
        BY <1>2, LenProperties DEF n
      <3>3. i + 1 \in 1..n /\ i + 2 \in 1..n /\ i + 1 \in 1..n + m /\ i + 2 \in 1..n + m
        BY <1>1, <3>1
      <3> QED BY <3>1, <3>2, <3>3 DEF DigitAt
    <2> QED BY <2>1, <2>2, <2>3 DEF DecodedAt
  <1>9. ASSUME NEW i \in 1..m PROVE DecodedAt(w, n + i) = DecodedAt(v, i)
    <2>1. n + i \in EscapeDigits(w) <=> i \in EscapeDigits(v)
      <3>1. /\ n + i - 1 \in 1..n + m /\ w[n + i - 1] = Percent
                 <=> i - 1 \in 1..m /\ v[i - 1] = Percent
        <4>1. CASE i = 1
          <5>1. n + i - 1 = n /\ i - 1 \notin 1..m /\ (n >= 1 => n \in 1..n) /\ ~(n + 2 <= n)
            BY <1>1, <4>1
          <5> QED BY <1>1, <1>5, <5>1
        <4>2. CASE i # 1
          <5>1. i - 1 \in 1..m /\ n + i - 1 = n + (i - 1) /\ n + i - 1 \in 1..n + m
            BY <1>1, <4>2
          <5> QED BY <1>2, <5>1
        <4> QED BY <4>1, <4>2
      <3>2. /\ n + i - 2 \in 1..n + m /\ w[n + i - 2] = Percent
                 <=> i - 2 \in 1..m /\ v[i - 2] = Percent
        <4>1. CASE i - 2 <= 0
          <5>1. /\ i - 2 \notin 1..m
                /\ n + i - 2 \in 1..n + m => n + i - 2 \in 1..n /\ ~(n + i - 2 + 2 <= n)
            BY <1>1, <4>1
          <5> QED BY <1>5, <5>1
        <4>2. CASE ~(i - 2 <= 0)
          <5>1. i - 2 \in 1..m /\ n + i - 2 = n + (i - 2) /\ n + i - 2 \in 1..n + m
            BY <1>1, <4>2
          <5> QED BY <1>2, <5>1
        <4> QED BY <4>1, <4>2
      <3>3. i \in EscapeDigits(v) <=> \/ i - 1 \in 1..m /\ v[i - 1] = Percent
                                      \/ i - 2 \in 1..m /\ v[i - 2] = Percent
        BY EscapeDigitsAre DEF m
      <3>4. \A k \in Int :
              k \in EscapeDigits(w)
                <=> \/ k - 1 \in 1..n + m /\ w[k - 1] = Percent
                    \/ k - 2 \in 1..n + m /\ w[k - 2] = Percent
        BY <1>2, EscapeDigitsAre
      <3>5. PICK k \in Int : k = n + i /\ k - 1 = n + i - 1 /\ k - 2 = n + i - 2
        BY <1>1
      <3>6. k \in EscapeDigits(w)
              <=> \/ k - 1 \in 1..n + m /\ w[k - 1] = Percent
                  \/ k - 2 \in 1..n + m /\ w[k - 2] = Percent
        BY <3>4
      <3> QED BY <3>1, <3>2, <3>3, <3>5, <3>6, Zenon
    <2>2. w[n + i] = v[i]
      BY <1>2
    <2>3. ASSUME v[i] = Percent
          PROVE  /\ DigitAt(w, n + i + 1) = DigitAt(v, i + 1)
                 /\ DigitAt(w, n + i + 2) = DigitAt(v, i + 2)
      <3>1. i + 2 <= m /\ w[n + i + 1] = v[i + 1] /\ w[n + i + 2] = v[i + 2]
        BY <1>6, <2>2, <2>3
      <3>2. DOMAIN w = 1..n + m /\ DOMAIN v = 1..m
        BY <1>2, LenProperties DEF m
      <3>3. i + 1 \in 1..m /\ i + 2 \in 1..m /\ n + i + 1 \in 1..n + m /\ n + i + 2 \in 1..n + m
        BY <1>1, <3>1
      <3> QED BY <3>1, <3>2, <3>3 DEF DigitAt
    <2> QED BY <2>1, <2>2, <2>3 DEF DecodedAt
  <1>10. Decoding(w) = Decoding(u) \o Decoding(v)
    <2> DEFINE p == Decoding(w)
               q == Decoding(u) \o Decoding(v)
    <2>1. /\ p \in Seq(Seq(Int)) /\ Len(p) = n + m
          /\ \A i \in 1..n + m : p[i] = DecodedAt(w, i)
      BY <1>2, DecodingTyped
    <2>2. /\ Decoding(u) \in Seq(Seq(Int)) /\ Len(Decoding(u)) = n
          /\ Decoding(v) \in Seq(Seq(Int)) /\ Len(Decoding(v)) = m
          /\ \A i \in 1..n : Decoding(u)[i] = DecodedAt(u, i)
          /\ \A i \in 1..m : Decoding(v)[i] = DecodedAt(v, i)
      BY DecodingTyped DEF n, m
    <2>3. /\ q \in Seq(Seq(Int)) /\ Len(q) = n + m
          /\ \A i \in 1..n + m :
               q[i] = IF i <= n THEN Decoding(u)[i] ELSE Decoding(v)[i - n]
      BY <2>2, ConcatProperties
    <2> HIDE DEF p, q
    <2>4. ASSUME NEW i \in 1..n + m PROVE p[i] = q[i]
      <3>1. CASE i \in 1..n
        BY <1>8, <2>1, <2>2, <2>3, <3>1
      <3>2. ASSUME NEW j \in 1..m, i = n + j PROVE p[i] = q[i]
        <4>1. ~(i <= n) /\ i - n = j
          BY <1>1, <3>2
        <4>2. p[i] = DecodedAt(v, j)
          BY <1>9, <2>1, <3>2
        <4> QED BY <2>2, <2>3, <4>1, <4>2
      <3> QED BY <1>4, <3>1, <3>2
    <2>5. p = q
      BY <2>1, <2>3, <2>4, SeqEqual
    <2> QED BY <2>5 DEF p, q
  <1>11. /\ DecodeUrl(w) = FlattenSeq(Decoding(w))
         /\ DecodeUrl(u) = FlattenSeq(Decoding(u)) /\ DecodeUrl(v) = FlattenSeq(Decoding(v))
    BY <1>2, <1>7, DecodeWhole
  <1>12. FlattenSeq(Decoding(u) \o Decoding(v))
           = FlattenSeq(Decoding(u)) \o FlattenSeq(Decoding(v))
    BY DecodingTyped, FlattenConcat
  <1>13. DecodeUrl(w) = DecodeUrl(u) \o DecodeUrl(v)
    BY <1>10, <1>11, <1>12, Zenon
  <1> QED BY <1>7, <1>13 DEF w

\* One byte: written as it is, or as an escape.
LEMMA CharDecodes ==
  ASSUME NEW code \in Bytes
  PROVE  /\ EncodedChar(code) \in Seq(Bytes \ {Amp, Equals})
         /\ Whole(EncodedChar(code)) /\ DecodeUrl(EncodedChar(code)) = <<code>>
  <1>1. code \in Int /\ code >= 0 /\ code <= 255
    BY DEF Bytes
  <1>2. CASE code \in SafeForUrlPart
    <2>1. code \in Bytes \ {Amp, Equals, Percent, Plus}
      BY <1>2 DEF SafeForUrlPart, Bytes, Amp, Equals, Percent, Plus
    <2> DEFINE u == <<code>>
    <2>2. EncodedChar(code) = u
      BY <1>2 DEF EncodedChar
    <2>3. u \in Seq(Bytes \ {Amp, Equals}) /\ u \in Seq(Int) /\ Len(u) = 1 /\ u[1] = code
          /\ DOMAIN u = 1..1
      BY <1>1, <2>1
    <2> HIDE DEF u
    <2>4. Whole(u)
      BY <2>1, <2>3 DEF Whole
    <2>5. DecodedAt(u, 1) = <<code>>
      <3>1. 1 \notin EscapeDigits(u)
        BY <2>3, EscapeDigitsAre
      <3> QED BY <2>1, <2>3, <3>1 DEF DecodedAt
    <2>6. Decoding(u) = <<<<code>>>>
      BY <2>3, <2>5 DEF Decoding
    <2>7. FlattenSeq(<<<<code>>>>) = <<code>>
      <3>1. <<code>> \in Seq(Int)
        BY <1>1
      <3> QED BY <3>1, FlattenOne
    <2> QED BY <2>2, <2>3, <2>4, <2>6, <2>7, DecodeWhole
  <1>3. CASE code \notin SafeForUrlPart
    <2> DEFINE h == HexDigit(code \div 16)
               l == HexDigit(code % 16)
               u == <<Percent, h, l>>
    <2>1. /\ code \div 16 \in 0..15 /\ code % 16 \in 0..15
          /\ (code \div 16) * 16 + (code % 16) = code
      BY <1>1
    <2>2. \A x \in 0..15 : /\ HexDigit(x) \in 48..70
                           /\ HexDigit(x) \notin {Amp, Equals, Percent}
                           /\ HexValue(HexDigit(x)) = x
      BY DEF HexDigit, HexValue, Amp, Equals, Percent
    <2>3. h \in 48..70 /\ l \in 48..70 /\ h \notin {Amp, Equals, Percent}
          /\ l \notin {Amp, Equals, Percent}
          /\ HexValue(h) = code \div 16 /\ HexValue(l) = code % 16
      BY <2>1, <2>2
    <2>4. EncodedChar(code) = u
      BY <1>3 DEF EncodedChar
    <2> HIDE DEF h, l
    <2>5. u \in Seq(Bytes \ {Amp, Equals}) /\ u \in Seq(Int) /\ Len(u) = 3
          /\ u[1] = Percent /\ u[2] = h /\ u[3] = l /\ DOMAIN u = 1..3
      BY <2>3 DEF Bytes, Amp, Equals, Percent
    <2> HIDE DEF u
    <2>6. HexValue(h) # -1 /\ HexValue(l) # -1
      BY <2>1, <2>3
    <2>7. Whole(u)
      <3> SUFFICES ASSUME NEW i \in 1..3, u[i] = Percent
                   PROVE  i + 2 <= 3 /\ HexValue(u[i + 1]) # -1 /\ HexValue(u[i + 2]) # -1
        BY <2>5 DEF Whole
      <3>1. i = 1
        BY <2>3, <2>5
      <3> QED BY <2>5, <2>6, <3>1
    <2>8. /\ 1 \notin EscapeDigits(u) /\ 2 \in EscapeDigits(u) /\ 3 \in EscapeDigits(u)
      <3>1. \A i \in 1..3 : i \in Int
        OBVIOUS
      <3> QED BY <2>5, <3>1, EscapeDigitsAre
    <2>9. DecodedAt(u, 1) = <<code>> /\ DecodedAt(u, 2) = <<>> /\ DecodedAt(u, 3) = <<>>
      <3>1. DigitAt(u, 1 + 1) = code \div 16 /\ DigitAt(u, 1 + 2) = code % 16
        BY <2>3, <2>5 DEF DigitAt
      <3>2. DigitAt(u, 1 + 1) * 16 + DigitAt(u, 1 + 2) = code
        BY <2>1, <3>1
      <3> QED BY <2>5, <2>8, <3>2 DEF DecodedAt
    <2>10. Decoding(u) = <<<<code>>, <<>>, <<>>>>
      BY <2>5, <2>9 DEF Decoding
    <2>11. FlattenSeq(<<<<code>>, <<>>, <<>>>>) = <<code>>
      <3> DEFINE one == <<<<code>>>>
                 two == <<<<code>>, <<>>>>
      <3>1. <<code>> \in Seq(Int) /\ <<>> \in Seq(Int)
        BY <1>1
      <3>2. one \in Seq(Seq(Int)) /\ two \in Seq(Seq(Int))
        BY <3>1
      <3>3. two = Append(one, <<>>) /\ <<<<code>>, <<>>, <<>>>> = Append(two, <<>>)
        OBVIOUS
      <3>4. FlattenSeq(one) = <<code>>
        BY <3>1, FlattenOne
      <3>5. <<code>> \o <<>> = <<code>>
        BY <3>1, ConcatEmptySeq
      <3> HIDE DEF one, two
      <3>6. FlattenSeq(two) = <<code>>
        BY <3>1, <3>2, <3>3, <3>4, <3>5, FlattenAppend
      <3> QED BY <3>1, <3>2, <3>3, <3>5, <3>6, FlattenAppend
    <2> QED BY <2>4, <2>5, <2>7, <2>10, <2>11, DecodeWhole
  <1> QED BY <1>2, <1>3

\* What is neither a delimiter of pairs nor ends a key.
Plain == Bytes \ {Amp, Equals}

\* Any text: by induction over its bytes.
LEMMA PartDecodes ==
  ASSUME NEW part \in Seq(Bytes)
  PROVE  /\ EncodeUrlPart(part) \in Seq(Plain)
         /\ DecodeUrl(EncodeUrlPart(part)) = part
  <1> DEFINE Done == {p \in Seq(Bytes) : /\ EncodeUrlPart(p) \in Seq(Plain)
                                         /\ Whole(EncodeUrlPart(p))
                                         /\ DecodeUrl(EncodeUrlPart(p)) = p}
             char == [code \in Bytes |-> EncodedChar(code)]
             Chars(p) == [i \in DOMAIN p |-> char[p[i]]]
  <1>1. char \in [Bytes -> Seq(Plain)] /\ \A code \in Bytes : char[code] = EncodedChar(code)
    BY CharDecodes DEF Plain
  <1>2. \A p \in Seq(Bytes) : EncodeUrlPart(p) = FlattenSeq(Chars(p))
    <2> SUFFICES ASSUME NEW p \in Seq(Bytes) PROVE EncodeUrlPart(p) = FlattenSeq(Chars(p))
      OBVIOUS
    <2>1. \A i \in DOMAIN p : EncodedChar(p[i]) = char[p[i]]
      BY <1>1, LenProperties
    <2> HIDE DEF char
    <2>2. [i \in DOMAIN p |-> EncodedChar(p[i])] = Chars(p)
      BY <2>1
    <2> QED BY <2>2 DEF EncodeUrlPart
  <1>3. <<>> \in Done
    <2>1. EncodeUrlPart(<<>>) = <<>>
      <3>1. [i \in DOMAIN <<>> |-> EncodedChar(<<>>[i])] = <<>>
        OBVIOUS
      <3> QED BY <3>1, FlattenEmpty DEF EncodeUrlPart
    <2>2. Whole(<<>>)
      BY DEF Whole
    <2>3. Decoding(<<>>) = <<>>
      BY DEF Decoding
    <2>4. DecodeUrl(<<>>) = <<>>
      BY <2>2, <2>3, DecodeWhole, FlattenEmpty, EmptySeq
    <2>5. <<>> \in Seq(Bytes) /\ <<>> \in Seq(Plain)
      BY EmptySeq
    <2> QED BY <2>1, <2>2, <2>4, <2>5
  <1>4. ASSUME NEW p \in Seq(Bytes), NEW code \in Bytes, p \in Done
        PROVE  Append(p, code) \in Done
    <2> DEFINE e == EncodeUrlPart(p)
               c == EncodedChar(code)
    <2>1. EncodeUrlPart(Append(p, code)) = e \o c
      <3> HIDE DEF char
      <3>1. Chars(p) \in Seq(Seq(Plain)) /\ Chars(Append(p, code)) = Append(Chars(p), char[code])
        <4> DEFINE more  == Append(p, code)
                   image == Chars(p)
                   next  == Chars(more)
        <4>1. \A q \in Seq(Bytes) : /\ Chars(q) \in Seq(Seq(Plain)) /\ Len(Chars(q)) = Len(q)
                                    /\ \A i \in 1..Len(q) : Chars(q)[i] = char[q[i]]
          <5> SUFFICES ASSUME NEW q \in Seq(Bytes)
                       PROVE  /\ Chars(q) \in Seq(Seq(Plain)) /\ Len(Chars(q)) = Len(q)
                              /\ \A i \in 1..Len(q) : Chars(q)[i] = char[q[i]]
            OBVIOUS
          <5>1. DOMAIN q = 1..Len(q) /\ Len(q) \in Nat /\ \A i \in 1..Len(q) : q[i] \in Bytes
            BY LenProperties, ElementOfSeq
          <5>2. Chars(q) \in [1..Len(q) -> Seq(Plain)]
            BY <1>1, <5>1
          <5> QED BY <5>1, <5>2
        <4>2. /\ more \in Seq(Bytes) /\ Len(more) = Len(p) + 1
              /\ more[Len(p) + 1] = code /\ \A i \in 1..Len(p) : more[i] = p[i]
          BY AppendProperties
        <4>3. Len(p) \in Nat /\ Len(p) + 1 \in 1..Len(p) + 1
              /\ \A i \in 1..Len(p) : i \in 1..Len(p) + 1
          BY LenProperties
        <4> HIDE DEF more, Chars
        <4>4. /\ image \in Seq(Seq(Plain)) /\ Len(image) = Len(p)
              /\ \A i \in 1..Len(p) : image[i] = char[p[i]]
          BY <4>1
        <4>5. /\ next \in Seq(Seq(Plain)) /\ Len(next) = Len(p) + 1
              /\ \A i \in 1..Len(p) + 1 : next[i] = char[more[i]]
          BY <4>1, <4>2
        <4> HIDE DEF image, next
        <4>6. next[Len(image) + 1] = char[code] /\ \A i \in 1..Len(image) : next[i] = image[i]
          <5>1. next[Len(p) + 1] = char[code]
            BY <4>2, <4>3, <4>5
          <5>2. ASSUME NEW i \in 1..Len(p) PROVE next[i] = image[i]
            <6>1. next[i] = char[more[i]]
              BY <4>3, <4>5
            <6>2. more[i] = p[i] /\ image[i] = char[p[i]]
              BY <4>2, <4>4
            <6> QED BY <6>1, <6>2, Zenon
          <5> QED BY <4>4, <5>1, <5>2
        <4>7. next = Append(image, char[code])
          <5>1. char[code] \in Seq(Plain) /\ Len(next) = Len(image) + 1
            BY <1>1, <4>4, <4>5
          <5> QED BY <4>4, <4>5, <4>6, <5>1, AppendIs, Zenon
        <4> QED BY <4>4, <4>7 DEF image, next, more
      <3>2. char[code] = c /\ c \in Seq(Plain) /\ Append(p, code) \in Seq(Bytes)
        BY <1>1, AppendProperties
      <3> HIDE DEF Chars
      <3>3. FlattenSeq(Append(Chars(p), c)) = FlattenSeq(Chars(p)) \o c
        BY <3>1, <3>2, FlattenAppend
      <3> HIDE DEF c
      <3>4. EncodeUrlPart(Append(p, code)) = FlattenSeq(Chars(Append(p, code)))
            /\ e = FlattenSeq(Chars(p))
        BY <1>2, <3>2
      <3> QED BY <3>1, <3>2, <3>3, <3>4
    <2>2. e \in Seq(Plain) /\ Whole(e) /\ DecodeUrl(e) = p
      BY <1>4
    <2>3. c \in Seq(Plain) /\ Whole(c) /\ DecodeUrl(c) = <<code>>
      BY CharDecodes DEF Plain
    <2> HIDE DEF e, c
    <2>4. e \in Seq(Int) /\ c \in Seq(Int)
      <3>1. Plain \subseteq Int
        <4>1. Bytes \subseteq Int
          BY DEF Bytes
        <4> QED BY <4>1 DEF Plain
      <3> QED BY <2>2, <2>3, <3>1, SubsetSeq
    <2>5. Whole(e \o c) /\ DecodeUrl(e \o c) = p \o <<code>>
      BY <2>2, <2>3, <2>4, DecodeConcat
    <2>6. e \o c \in Seq(Plain) /\ p \o <<code>> = Append(p, code)
          /\ Append(p, code) \in Seq(Bytes)
      BY <2>2, <2>3, ConcatProperties, AppendIsConcat, AppendProperties
    <2> QED BY <2>1, <2>5, <2>6
  <1> HIDE DEF Done
  <1>5. part \in Done
    BY <1>3, <1>4, SequenceInduction
  <1> QED BY <1>5 DEF Done

\* A pair is cut at its first '='.
LEMMA PairCut ==
  ASSUME NEW u \in Seq(Plain), NEW v \in Seq(Plain)
  PROVE  LET pair == u \o <<Equals>> \o v
             eq   == Find(pair, <<Equals>>)
         IN /\ pair \in Seq(Bytes \ {Amp}) /\ pair # <<>> /\ eq # NPos
            /\ Before(pair, eq) = u /\ From(pair, eq + 1) = v
  <1> DEFINE n == Len(u)
             m == Len(v)
             front == u \o <<Equals>>
             pair == front \o v
             eq == Find(pair, <<Equals>>)
             at == {i \in 1..Len(pair) - Len(<<Equals>>) + 1 :
                      SubSeq(pair, i, i + Len(<<Equals>>) - 1) = <<Equals>>}
  <1>1. n \in Nat /\ m \in Nat /\ (\A i \in 1..n : u[i] \in Plain) /\ \A i \in 1..m : v[i] \in Plain
    BY LenProperties, ElementOfSeq
  <1>2. Equals \in Bytes \ {Amp} /\ Equals \notin Plain /\ Plain \subseteq Bytes \ {Amp}
        /\ Bytes \subseteq Int
    BY DEF Plain, Bytes, Amp, Equals
  <1>3. u \in Seq(Bytes \ {Amp}) /\ v \in Seq(Bytes \ {Amp}) /\ <<Equals>> \in Seq(Bytes \ {Amp})
    <2>1. u \in Seq(Bytes \ {Amp}) /\ v \in Seq(Bytes \ {Amp})
      BY <1>2, SubsetSeq
    <2> QED BY <1>2, <2>1
  <1>4. /\ front \in Seq(Bytes \ {Amp}) /\ Len(front) = n + 1
        /\ front[n + 1] = Equals /\ \A i \in 1..n : front[i] = u[i]
    <2>1. front = Append(u, Equals)
      BY <1>3, AppendIsConcat
    <2> QED BY <1>2, <1>3, <2>1, AppendProperties
  <1> HIDE DEF front
  <1>5. /\ pair \in Seq(Bytes \ {Amp}) /\ Len(pair) = n + 1 + m
        /\ \A i \in 1..n + 1 + m : pair[i] = IF i <= n + 1 THEN front[i] ELSE v[i - (n + 1)]
    <2>1. /\ pair \in Seq(Bytes \ {Amp}) /\ Len(pair) = Len(front) + Len(v)
          /\ \A i \in 1..Len(front) + Len(v) :
               pair[i] = IF i <= Len(front) THEN front[i] ELSE v[i - Len(front)]
      BY <1>3, <1>4, ConcatProperties
    <2> HIDE DEF pair, n
    <2> QED BY <1>4, <2>1
  <1> HIDE DEF n, m
  <1>6. /\ pair[n + 1] = Equals /\ n + 1 \in 1..n + 1 + m
        /\ \A i \in 1..n : i \in 1..n + 1 + m /\ pair[i] = u[i] /\ pair[i] # Equals
    <2>1. n + 1 \in 1..n + 1 + m /\ n + 1 <= n + 1
      BY <1>1
    <2>2. \A i \in 1..n : i \in 1..n + 1 + m /\ i <= n + 1 /\ u[i] # Equals
      BY <1>1, <1>2
    <2> HIDE DEF pair
    <2> QED BY <1>4, <1>5, <2>1, <2>2
  <1> HIDE DEF pair
  <1>7. \A i \in 1..n + 1 + m : SubSeq(pair, i, i) = <<pair[i]>>
    <2> SUFFICES ASSUME NEW i \in 1..n + 1 + m PROVE SubSeq(pair, i, i) = <<pair[i]>>
      OBVIOUS
    <2>1. \A j \in i..i : pair[j] \in Bytes
      BY <1>5, ElementOfSeq
    <2>2. i \in Int
      BY <1>1
    <2>3. SubSeq(pair, i, i) \in Seq(Bytes) /\ Len(SubSeq(pair, i, i)) = 1
          /\ SubSeq(pair, i, i)[1] = pair[i]
      <3>1. /\ SubSeq(pair, i, i) \in Seq(Bytes)
            /\ Len(SubSeq(pair, i, i)) = IF i <= i THEN i - i + 1 ELSE 0
            /\ \A j \in 1..i - i + 1 : SubSeq(pair, i, i)[j] = pair[i + j - 1]
        BY <2>1, <2>2, SubSeqProperties
      <3>2. i <= i /\ i - i + 1 = 1 /\ i + 1 - 1 = i /\ 1 \in 1..1
        BY <2>2
      <3> QED BY <3>1, <3>2
    <2>4. <<pair[i]>> \in Seq(Bytes) /\ Len(<<pair[i]>>) = 1 /\ <<pair[i]>>[1] = pair[i]
      BY <2>1, <2>2
    <2>5. \A j \in 1..1 : j = 1
      OBVIOUS
    <2> QED BY <2>3, <2>4, <2>5, SeqEqual
  <1>8. at = {i \in 1..n + 1 + m : pair[i] = Equals}
    <2>1. Len(<<Equals>>) = 1 /\ Len(pair) - 1 + 1 = n + 1 + m
      BY <1>1, <1>5
    <2>2. \A i \in 1..n + 1 + m : i + 1 - 1 = i
      BY <1>1
    <2>3. \A x : <<x>> = <<Equals>> <=> x = Equals
      OBVIOUS
    <2> QED BY <1>7, <2>1, <2>2, <2>3
  <1>9. Min(at) = n + 1 /\ n + 1 \in at
    <2>1. n + 1 \in at /\ at \subseteq 1..n + 1 + m /\ \A i \in at : i >= n + 1
      BY <1>1, <1>6, <1>8
    <2> HIDE DEF at
    <2>2. n + 1 + m \in Nat
      BY <1>1
    <2>3. Min(at) \in at /\ \A i \in at : Min(at) <= i
      BY <2>1, <2>2, LeastPosition
    <2>4. Min(at) \in Int
      <3>1. \A i \in 1..n + 1 + m : i \in Int
        OBVIOUS
      <3> QED BY <2>1, <2>3, <3>1
    <2> QED BY <1>1, <2>1, <2>3, <2>4
  <1>10. eq = n + 1
    <2>1. eq = IF at = {} THEN NPos ELSE Min(at)
      BY DEF Find
    <2> HIDE DEF at, eq
    <2> QED BY <1>9, <2>1
  <1> HIDE DEF eq, at
  <1>11. Before(pair, eq) = u
    <2>1. eq # NPos /\ eq - 1 = n
      BY <1>1, <1>10 DEF NPos
    <2> DEFINE first == SubSeq(pair, 1, n)
    <2>2. first \in Seq(Bytes) /\ Len(first) = n /\ \A i \in 1..n : first[i] = pair[i]
      <3>1. \A i \in 1..n : pair[i] \in Bytes
        BY <1>5, <1>6, ElementOfSeq
      <3> QED BY <1>1, <3>1, SubSeqProperties
    <2>3. Before(pair, eq) = first
      BY <2>1 DEF Before
    <2> HIDE DEF first
    <2>4. u \in Seq(Bytes) /\ Len(u) = n
      <3>1. Bytes \ {Amp} \subseteq Bytes
        OBVIOUS
      <3> QED BY <1>3, <3>1, SubsetSeq DEF n
    <2>5. first = u
      BY <1>6, <2>2, <2>4, SeqEqual
    <2> QED BY <2>3, <2>5
  <1>12. From(pair, eq + 1) = v
    <2>1. eq + 1 # NPos /\ eq + 1 = n + 2
      BY <1>1, <1>10 DEF NPos
    <2> DEFINE rest == SubSeq(pair, n + 2, n + 1 + m)
    <2>2. rest \in Seq(Bytes) /\ Len(rest) = m /\ \A i \in 1..m : rest[i] = pair[n + 1 + i]
      <3>1. \A i \in n + 2..n + 1 + m : pair[i] \in Bytes
        <4>1. \A i \in n + 2..n + 1 + m : i \in 1..n + 1 + m
          BY <1>1
        <4> QED BY <1>5, <4>1, ElementOfSeq
      <3>2. n + 2 \in Int /\ n + 1 + m \in Int
        BY <1>1
      <3>3. /\ rest \in Seq(Bytes)
            /\ Len(rest) = IF n + 2 <= n + 1 + m THEN (n + 1 + m) - (n + 2) + 1 ELSE 0
            /\ \A i \in 1..(n + 1 + m) - (n + 2) + 1 : rest[i] = pair[n + 2 + i - 1]
        BY <3>1, <3>2, SubSeqProperties
      <3>4. (n + 1 + m) - (n + 2) + 1 = m /\ (n + 2 <= n + 1 + m <=> m # 0)
            /\ \A i \in 1..m : n + 2 + i - 1 = n + 1 + i
        BY <1>1
      <3> HIDE DEF rest
      <3> QED BY <3>3, <3>4
    <2>3. From(pair, eq + 1) = rest
      BY <1>5, <2>1 DEF From
    <2> HIDE DEF rest
    <2>4. v \in Seq(Bytes) /\ Len(v) = m
      <3>1. Bytes \ {Amp} \subseteq Bytes
        OBVIOUS
      <3> QED BY <1>3, <3>1, SubsetSeq DEF m
    <2>5. \A i \in 1..m : rest[i] = v[i]
      <3> SUFFICES ASSUME NEW i \in 1..m PROVE rest[i] = v[i]
        OBVIOUS
      <3>1. n + 1 + i \in 1..n + 1 + m /\ ~(n + 1 + i <= n + 1) /\ (n + 1 + i) - (n + 1) = i
        BY <1>1
      <3> QED BY <1>5, <2>2, <3>1
    <2>6. rest = v
      BY <2>2, <2>4, <2>5, SeqEqual
    <2> QED BY <2>3, <2>6
  <1>13. eq # NPos /\ pair # <<>>
    <2>1. n + 1 # 0 /\ n + 1 + m # 0
      BY <1>1
    <2> QED BY <1>5, <1>10, <2>1, EmptySeq DEF NPos
  <1> QED BY <1>5, <1>11, <1>12, <1>13 DEF eq, pair, front

-----------------------------------------------------------------------------
(* split. *)

LEMMA TokensTyped ==
  ASSUME NEW S, NEW text \in Seq(S), NEW d
  PROVE  \A i \in 1..Len(text) + 1 : TokenAt(text, d, i) \in Seq(Seq(S))
  <1>1. DOMAIN text = 1..Len(text) /\ Len(text) \in Nat /\ \A i \in 1..Len(text) : text[i] \in S
    BY LenProperties, ElementOfSeq
  <1> DEFINE later(i) == {j \in Cuts(text, d) : j >= i} \cup {Len(text) + 1}
  <1>2. ASSUME NEW i \in 1..Len(text) + 1
        PROVE  SubSeq(text, i, Min(later(i)) - 1) \in Seq(S)
    <2>1. later(i) \subseteq 1..Len(text) + 1 /\ later(i) # {}
      BY <1>1 DEF Cuts
    <2> HIDE DEF later
    <2>2. Len(text) + 1 \in Nat
      BY <1>1
    <2>3. Min(later(i)) \in 1..Len(text) + 1
      BY <2>1, <2>2, LeastPosition
    <2> DEFINE last == Min(later(i)) - 1
    <2>4. last \in Int /\ i \in Int /\ \A j \in i..last : j \in 1..Len(text)
      BY <1>1, <2>3
    <2> HIDE DEF last
    <2>5. \A j \in i..last : text[j] \in S
      BY <1>1, <2>4
    <2>6. SubSeq(text, i, last) \in Seq(S)
      BY <2>4, <2>5, SubSeqProperties
    <2> QED BY <2>6 DEF last
  <1>3. \A s \in Seq(S) : <<s>> \in Seq(Seq(S))
    OBVIOUS
  <1>4. <<>> \in Seq(Seq(S))
    OBVIOUS
  <1> SUFFICES ASSUME NEW i \in 1..Len(text) + 1 PROVE TokenAt(text, d, i) \in Seq(Seq(S))
    OBVIOUS
  <1>5. TokenAt(text, d, i) \in {<<SubSeq(text, i, Min(later(i)) - 1)>>, <<>>}
    BY DEF TokenAt
  <1> QED BY <1>2, <1>3, <1>4, <1>5

\* A text without the delimiter is one token.
LEMMA SplitOne ==
  ASSUME NEW S, NEW d, NEW word \in Seq(S \ {d})
  PROVE  Split(word, d) = <<word>>
  <1> DEFINE n == Len(word)
             tokens == [i \in 1..Len(word) + 1 |-> TokenAt(word, d, i)]
  <1>1. /\ DOMAIN word = 1..n /\ n \in Nat /\ word \in Seq(S)
        /\ \A i \in 1..n : word[i] \in S \ {d}
    <2>1. S \ {d} \subseteq S
      OBVIOUS
    <2> QED BY <2>1, LenProperties, ElementOfSeq, SubsetSeq
  <1>2. Cuts(word, d) = {}
    BY <1>1 DEF Cuts
  <1>3. Min({n + 1}) = n + 1
    <2>1. {n + 1} \subseteq Int /\ n + 1 \in {n + 1} /\ \A y \in {n + 1} : n + 1 <= y
      BY <1>1
    <2> HIDE DEF n
    <2> QED BY <2>1, MinIs
  <1>4. TokenAt(word, d, 1) = <<word>>
    <2>1. {j \in Cuts(word, d) : j >= 1} \cup {n + 1} = {n + 1}
      BY <1>2
    <2>2. (n + 1) - 1 = n
      BY <1>1
    <2>3. SubSeq(word, 1, n) = word
      BY <1>1, SubSeqFull
    <2> QED BY <1>3, <2>1, <2>2, <2>3 DEF TokenAt
  <1>5. \A i \in 2..n + 1 : TokenAt(word, d, i) = <<>>
    BY <1>1, <1>2 DEF TokenAt
  <1>6. /\ tokens \in Seq(Seq(Seq(S))) /\ Len(tokens) = n + 1
        /\ \A i \in 1..n + 1 : tokens[i] = TokenAt(word, d, i)
    <2>1. tokens \in [1..n + 1 -> Seq(Seq(S))]
      BY <1>1, TokensTyped
    <2> QED BY <1>1, <2>1
  <1> HIDE DEF tokens
  <1>7. <<word>> \in Seq(Seq(S)) /\ tokens[1] = <<word>> /\ \A i \in 2..n + 1 : tokens[i] = <<>>
    <2>1. 1 \in 1..n + 1 /\ \A i \in 2..n + 1 : i \in 1..n + 1
      BY <1>1
    <2> HIDE DEF n
    <2> QED BY <1>1, <1>4, <1>5, <1>6, <2>1
  <1> HIDE DEF n
  <1>8. FlattenSeq(tokens) = <<word>>
    <2> DEFINE T == Seq(S)
               s == <<word>>
    <2>1. /\ n \in Nat /\ s \in Seq(T) /\ tokens \in Seq(Seq(T)) /\ Len(tokens) = n + 1
          /\ tokens[1] = s /\ \A i \in 2..n + 1 : tokens[i] = <<>>
      BY <1>1, <1>6, <1>7
    <2> HIDE DEF T, s
    <2>2. FlattenSeq(tokens) = s
      BY <2>1, FlattenFirst
    <2> QED BY <2>2 DEF s
  <1> QED BY <1>8 DEF Split, tokens

\* A token ends before `end`, the first delimiter from i on, or the end of the text.
EndsAt(text, d, i, end) ==
  /\ end \in Cuts(text, d) \cup {Len(text) + 1} /\ i <= end
  /\ \A j \in Cuts(text, d) : i <= j => end <= j

\* The token that begins at i, when one does.
TokenTo(text, d, i, end) ==
  IF i = 1 \/ (i - 1 \in Cuts(text, d) /\ i \notin Cuts(text, d))
  THEN <<SubSeq(text, i, end - 1)>> ELSE <<>>

LEMMA TokenEnds ==
  ASSUME NEW text \in Seq(Bytes), NEW d, NEW i \in 1..Len(text) + 1
  PROVE  \E end \in 1..Len(text) + 1 : EndsAt(text, d, i, end)
  <1> DEFINE n == Len(text)
             later == {j \in Cuts(text, d) : j >= i} \cup {n + 1}
  <1>1. DOMAIN text = 1..n /\ n \in Nat /\ n + 1 \in Nat
    BY LenProperties
  <1>2. later \subseteq 1..n + 1 /\ later # {}
    BY <1>1 DEF Cuts
  <1>3. Min(later) \in later /\ \A j \in later : Min(later) <= j
    <2> HIDE DEF later, n
    <2> QED BY <1>1, <1>2, LeastPosition
  <1>4. Cuts(text, d) \subseteq Int
    BY <1>1 DEF Cuts
  <1> QED BY <1>1, <1>2, <1>3, <1>4 DEF EndsAt

LEMMA TokenIs ==
  ASSUME NEW text \in Seq(Bytes), NEW d, NEW i \in 1..Len(text) + 1,
         NEW end \in 1..Len(text) + 1, EndsAt(text, d, i, end)
  PROVE  TokenAt(text, d, i) = TokenTo(text, d, i, end)
  <1> DEFINE n == Len(text)
             later == {j \in Cuts(text, d) : j >= i} \cup {n + 1}
  <1>1. DOMAIN text = 1..n /\ n \in Nat
    BY LenProperties
  <1>2. later \subseteq Int /\ end \in later /\ \A j \in later : end <= j
    BY <1>1 DEF Cuts, EndsAt
  <1>3. Min(later) = end
    <2> HIDE DEF later
    <2> QED BY <1>2, MinIs
  <1> QED BY <1>3 DEF TokenAt, TokenTo

\* A delimiter, at n + 1, divides w in the texts u and v, of which v may be empty;
\* none ends u or is in v.
Divided(w, n, m, u, d, v) ==
  /\ n \in Nat /\ m \in Nat /\ n > 0
  /\ u \in Seq(Bytes) /\ Len(u) = n /\ DOMAIN u = 1..n /\ u[n] # d
  /\ v \in Seq(Bytes) /\ Len(v) = m /\ \A k \in 1..m : v[k] # d
  /\ w \in Seq(Bytes) /\ Len(w) = n + 1 + m /\ DOMAIN w = 1..n + 1 + m
  /\ \A i \in 1..n : w[i] = u[i]
  /\ w[n + 1] = d
  /\ \A k \in 1..m : w[n + 1 + k] = v[k]

\* The tokens of a text that a delimiter divides in two.
LEMMA TokensDivided ==
  ASSUME NEW d \in Bytes, NEW n, NEW m, NEW u, NEW v, NEW w, Divided(w, n, m, u, d, v)
  PROVE  /\ \A i \in 1..n + 1 : TokenAt(w, d, i) = TokenAt(u, d, i)
         /\ TokenAt(w, d, n + 2) = <<v>>
         /\ \A k \in 2..m + 1 : TokenAt(w, d, n + 1 + k) = <<>>
  <1> USE DEF Divided
  <1>1. (\A i \in 1..n : u[i] \in Bytes) /\ \A i \in 1..n + 1 + m : w[i] \in Bytes
    BY ElementOfSeq
  <1>3. Cuts(w, d) = Cuts(u, d) \cup {n + 1} /\ Cuts(u, d) \subseteq 1..n /\ n \notin Cuts(u, d)
    <2>1. ASSUME NEW i \in 1..n + 1 + m
          PROVE  w[i] = d <=> i = n + 1 \/ (i \in 1..n /\ u[i] = d)
      <3>1. CASE i \in 1..n
        <4>1. i # n + 1
          BY <1>1, <3>1
        <4> QED BY <3>1, <4>1
      <3>2. CASE i = n + 1
        BY <3>2
      <3>3. CASE i \notin 1..n /\ i # n + 1
        <4> PICK k \in 1..m : i = n + 1 + k
          <5>1. i - (n + 1) \in 1..m /\ i = n + 1 + (i - (n + 1))
            BY <1>1, <3>3
          <5> QED BY <5>1
        <4> QED BY <1>1, <3>3
      <3> QED BY <3>1, <3>2, <3>3
    <2>2. \A i \in 1..n : i \in 1..n + 1 + m
      BY <1>1
    <2>3. n + 1 \in 1..n + 1 + m
      BY <1>1
    <2> QED BY <1>1, <2>1, <2>2, <2>3 DEF Cuts
  <1>4. ASSUME NEW i \in 1..n + 1 PROVE TokenAt(w, d, i) = TokenAt(u, d, i)
    <2>1. i \in 1..Len(w) + 1 /\ i \in 1..Len(u) + 1
      BY <1>1
    <2> PICK end \in 1..Len(u) + 1 : EndsAt(u, d, i, end)
      BY <2>1, TokenEnds
    <2>2. end \in 1..Len(w) + 1 /\ end \in 1..n + 1
      BY <1>1
    <2>3. EndsAt(w, d, i, end)
      BY <1>1, <1>3, <2>2 DEF EndsAt
    <2>4. TokenAt(w, d, i) = TokenTo(w, d, i, end)
      BY <2>1, <2>2, <2>3, TokenIs, Zenon
    <2>5. TokenAt(u, d, i) = TokenTo(u, d, i, end)
      BY <2>1, TokenIs, Zenon
    <2>6. (i = 1 \/ (i - 1 \in Cuts(w, d) /\ i \notin Cuts(w, d)))
            <=> (i = 1 \/ (i - 1 \in Cuts(u, d) /\ i \notin Cuts(u, d)))
      BY <1>1, <1>3
    <2>7. SubSeq(w, i, end - 1) = SubSeq(u, i, end - 1)
      <3>1. \A j \in i..end - 1 : j \in 1..n
        BY <2>2
      <3>2. \A j \in i..end - 1 : u[j] \in Bytes /\ w[j] = u[j]
        BY <1>1, <3>1
      <3>3. i \in Int /\ end - 1 \in Int
        BY <2>2
      <3> HIDE DEF Divided
      <3> QED BY <3>2, <3>3, SubSeqSame
    <2> QED BY <2>4, <2>5, <2>6, <2>7, Zenon DEF TokenTo
  <1>5. TokenAt(w, d, n + 2) = <<v>>
    <2>1. n + 2 \in 1..Len(w) + 1 /\ n + 2 + m = Len(w) + 1 /\ n + 2 + m \in 1..Len(w) + 1
      BY <1>1
    <2>2. EndsAt(w, d, n + 2, n + 2 + m)
      BY <1>1, <1>3, <2>1 DEF EndsAt
    <2>3. TokenAt(w, d, n + 2) = TokenTo(w, d, n + 2, n + 2 + m)
      BY <2>1, <2>2, TokenIs, Zenon
    <2>4. n + 2 - 1 \in Cuts(w, d) /\ n + 2 \notin Cuts(w, d) /\ n + 2 + m - 1 = n + 1 + m
      BY <1>1, <1>3
    <2>5. SubSeq(w, n + 2, n + 1 + m) = v
      <3> DEFINE a == SubSeq(w, n + 2, n + 1 + m)
      <3>1. \A j \in n + 2..n + 1 + m : w[j] \in Bytes
        <4>1. \A j \in n + 2..n + 1 + m : j \in 1..n + 1 + m
          BY <1>1
        <4> QED BY <4>1, ElementOfSeq
      <3>2. n + 2 \in Int /\ n + 1 + m \in Int
        BY <1>1
      <3>3. /\ a \in Seq(Bytes)
            /\ Len(a) = IF n + 2 <= n + 1 + m THEN (n + 1 + m) - (n + 2) + 1 ELSE 0
            /\ \A k \in 1..(n + 1 + m) - (n + 2) + 1 : a[k] = w[n + 2 + k - 1]
        BY <3>1, <3>2, SubSeqProperties
      <3>4. (n + 1 + m) - (n + 2) + 1 = m /\ (n + 2 <= n + 1 + m <=> m # 0)
            /\ \A k \in 1..m : n + 2 + k - 1 = n + 1 + k
        BY <1>1
      <3> HIDE DEF a
      <3>5. \A k \in 1..m : a[k] = v[k]
        BY <3>3, <3>4
      <3>6. a = v
        BY <1>1, <3>3, <3>4, <3>5, SeqEqual
      <3> QED BY <3>6 DEF a
    <2> QED BY <2>3, <2>4, <2>5 DEF TokenTo
  <1>6. ASSUME NEW k \in 2..m + 1 PROVE TokenAt(w, d, n + 1 + k) = <<>>
    <2>1. n + 1 + k # 1 /\ (n + 1 + k) - 1 \notin Cuts(w, d)
      BY <1>1, <1>3
    <2> QED BY <2>1 DEF TokenAt
  <1> QED BY <1>4, <1>5, <1>6

LEMMA SplitDivided ==
  ASSUME NEW d \in Bytes, NEW n, NEW m, NEW u, NEW v, NEW w, Divided(w, n, m, u, d, v)
  PROVE  Split(u, d) \in Seq(Seq(Bytes)) /\ Split(w, d) = Append(Split(u, d), v)
  <1> DEFINE all == [i \in 1..Len(w) + 1 |-> TokenAt(w, d, i)]
             front == [i \in 1..Len(u) + 1 |-> TokenAt(u, d, i)]
             T == Seq(Bytes)
             s == <<v>>
  <1>1. /\ \A i \in 1..n + 1 : TokenAt(w, d, i) = TokenAt(u, d, i)
        /\ TokenAt(w, d, n + 2) = <<v>>
        /\ \A k \in 2..m + 1 : TokenAt(w, d, n + 1 + k) = <<>>
    BY TokensDivided
  <1>a. /\ n \in Nat /\ m \in Nat /\ u \in Seq(Bytes) /\ w \in Seq(Bytes)
        /\ Len(u) = n /\ Len(w) = n + 1 + m
    BY DEF Divided
  <1>2. /\ all \in Seq(Seq(T)) /\ Len(all) = n + 1 + (m + 1)
        /\ \A i \in 1..n + 1 + (m + 1) : all[i] = TokenAt(w, d, i)
    <2>1. all \in [1..Len(w) + 1 -> Seq(Seq(Bytes))]
      BY <1>a, TokensTyped
    <2>2. Len(w) + 1 = n + 1 + (m + 1) /\ n + 1 + (m + 1) \in Nat
      BY <1>a
    <2> QED BY <2>1, <2>2
  <1>3. /\ front \in Seq(Seq(T)) /\ Len(front) = n + 1
        /\ \A i \in 1..n + 1 : front[i] = TokenAt(u, d, i)
    <2>1. front \in [1..Len(u) + 1 -> Seq(Seq(Bytes))]
      BY <1>a, TokensTyped
    <2>2. Len(u) + 1 = n + 1 /\ n + 1 \in Nat
      BY <1>a
    <2> QED BY <2>1, <2>2
  <1>4. s \in Seq(T)
    BY DEF Divided
  <1>5. Split(w, d) = FlattenSeq(all) /\ Split(u, d) = FlattenSeq(front)
    BY DEF Split
  <1> HIDE DEF all, front, T
  <1>6. \A i \in 1..n + 1 : all[i] = front[i]
    <2>1. \A i \in 1..n + 1 : i \in 1..n + 1 + (m + 1)
      BY <1>a
    <2> QED BY <1>1, <1>2, <1>3, <2>1
  <1>7. all[(n + 1) + 1] = s
    <2>1. n + 2 \in 1..n + 1 + (m + 1) /\ (n + 1) + 1 = n + 2
      BY <1>a
    <2> QED BY <1>1, <1>2, <2>1
  <1>8. \A k \in 2..m + 1 : all[(n + 1) + k] = <<>>
    <2> SUFFICES ASSUME NEW k \in 2..m + 1 PROVE all[(n + 1) + k] = <<>>
      OBVIOUS
    <2>1. (n + 1) + k \in 1..n + 1 + (m + 1) /\ (n + 1) + k = n + 1 + k
      BY <1>a
    <2> QED BY <1>1, <1>2, <2>1
  <1> HIDE DEF s
  <1>9. FlattenSeq(all) = FlattenSeq(front) \o s
    <2>1. Len(all) > Len(front) /\ (\A i \in 1..Len(front) : all[i] = front[i])
          /\ all[Len(front) + 1] = s
      BY <1>a, <1>2, <1>3, <1>6, <1>7
    <2>2. \A i \in Len(front) + 2..Len(all) : all[i] = <<>>
      <3> SUFFICES ASSUME NEW i \in Len(front) + 2..Len(all) PROVE all[i] = <<>>
        OBVIOUS
      <3>1. i - (n + 1) \in 2..m + 1 /\ (n + 1) + (i - (n + 1)) = i
        BY <1>a, <1>2, <1>3
      <3> QED BY <1>8, <3>1
    <2> QED BY <1>2, <1>3, <1>4, <2>1, <2>2, FlattenDivided
  <1>10. FlattenSeq(front) \in Seq(T)
    <2>1. <<>> \in Seq(T)
      BY EmptySeq
    <2> QED BY <1>3, <2>1, FlattenAppend
  <1>11. FlattenSeq(front) \o s = Append(FlattenSeq(front), v)
    <2>1. v \in T
      BY DEF Divided, T
    <2> QED BY <1>10, <2>1, AppendIsConcat DEF s
  <1> QED BY <1>5, <1>9, <1>10, <1>11, Zenon DEF T

\* A text of tokens, a delimiter, and one token more, which may be empty.
LEMMA SplitAppend ==
  ASSUME NEW d \in Bytes, NEW u \in Seq(Bytes), u # <<>>, u[Len(u)] # d,
         NEW v \in Seq(Bytes \ {d}),
         NEW w, w = u \o <<d>> \o v
  PROVE  w \in Seq(Bytes) /\ Split(u, d) \in Seq(Seq(Bytes)) /\ Split(w, d) = Append(Split(u, d), v)
  <1> DEFINE n == Len(u)
             m == Len(v)
  <1>1. /\ n \in Nat /\ m \in Nat /\ n > 0 /\ v \in Seq(Bytes)
        /\ (\A i \in 1..n : u[i] \in Bytes) /\ (\A i \in 1..m : v[i] \in Bytes /\ v[i] # d)
        /\ DOMAIN u = 1..n /\ DOMAIN v = 1..m
    <2>1. Bytes \ {d} \subseteq Bytes
      OBVIOUS
    <2>2. v \in Seq(Bytes)
      BY <2>1, SubsetSeq
    <2>3. n # 0
      BY EmptySeq
    <2>4. \A i \in 1..m : v[i] \in Bytes \ {d}
      BY ElementOfSeq
    <2> QED BY <2>2, <2>3, <2>4, LenProperties, ElementOfSeq
  <1>2. /\ w \in Seq(Bytes) /\ Len(w) = n + 1 + m /\ DOMAIN w = 1..n + 1 + m
        /\ \A i \in 1..n : w[i] = u[i]
        /\ w[n + 1] = d
        /\ \A k \in 1..m : w[n + 1 + k] = v[k]
    <2> DEFINE ud == u \o <<d>>
    <2>1. <<d>> \in Seq(Bytes) /\ Len(<<d>>) = 1 /\ <<d>>[1] = d
      OBVIOUS
    <2>2. /\ ud \in Seq(Bytes) /\ Len(ud) = n + 1
          /\ \A i \in 1..n + 1 : ud[i] = IF i <= n THEN u[i] ELSE <<d>>[i - n]
      BY <2>1, ConcatProperties
    <2> HIDE DEF ud
    <2>3. /\ w \in Seq(Bytes) /\ Len(w) = n + 1 + m
          /\ \A i \in 1..n + 1 + m : w[i] = IF i <= n + 1 THEN ud[i] ELSE v[i - (n + 1)]
      <3>1. w = ud \o v
        BY DEF ud
      <3>2. /\ w \in Seq(Bytes) /\ Len(w) = Len(ud) + Len(v)
            /\ \A i \in 1..Len(ud) + Len(v) :
                 w[i] = IF i <= Len(ud) THEN ud[i] ELSE v[i - Len(ud)]
        BY <1>1, <2>2, <3>1, ConcatProperties
      <3> QED BY <2>2, <3>2, Zenon
    <2>4. \A i \in 1..n : w[i] = u[i]
      <3> SUFFICES ASSUME NEW i \in 1..n PROVE w[i] = u[i]
        OBVIOUS
      <3>1. i <= n /\ i <= n + 1 /\ i \in 1..n + 1 /\ i \in 1..n + 1 + m
        BY <1>1
      <3> HIDE DEF n, m
      <3> QED BY <2>2, <2>3, <3>1
    <2>5. w[n + 1] = d
      <3>1. n + 1 <= n + 1 /\ ~(n + 1 <= n) /\ (n + 1) - n = 1
            /\ n + 1 \in 1..n + 1 /\ n + 1 \in 1..n + 1 + m
        BY <1>1
      <3> HIDE DEF n, m
      <3> QED BY <2>1, <2>2, <2>3, <3>1
    <2>6. \A k \in 1..m : w[n + 1 + k] = v[k]
      <3> SUFFICES ASSUME NEW k \in 1..m PROVE w[n + 1 + k] = v[k]
        OBVIOUS
      <3>1. ~(n + 1 + k <= n + 1) /\ n + 1 + k \in 1..n + 1 + m /\ (n + 1 + k) - (n + 1) = k
        BY <1>1
      <3> HIDE DEF n, m
      <3> QED BY <2>3, <3>1
    <2> QED BY <2>3, <2>4, <2>5, <2>6, LenProperties
  <1>3. u[n] # d /\ Len(u) = n /\ Len(v) = m
    OBVIOUS
  <1> HIDE DEF n, m
  <1>4. Divided(w, n, m, u, d, v)
    BY <1>1, <1>2, <1>3 DEF Divided
  <1>5. Split(u, d) \in Seq(Seq(Bytes)) /\ Split(w, d) = Append(Split(u, d), v)
    <2>1. \A x : Divided(x, n, m, u, d, v) =>
                 Split(u, d) \in Seq(Seq(Bytes)) /\ Split(x, d) = Append(Split(u, d), v)
      BY SplitDivided
    <2> QED BY <1>4, <2>1, Zenon
  <1> QED BY <1>2, <1>5, Zenon

\* The same, where the delimiter was put before the last token ...
Joined(w, u, d, v) == w = u \o (<<d>> \o v)

\* ... with what the next step of an induction needs.
SplitsOff(w, u, d, v) ==
  /\ w \in Seq(Bytes) /\ w # <<>> /\ w[Len(w)] = v[Len(v)]
  /\ Split(w, d) = Append(Split(u, d), v)

LEMMA SplitLast ==
  ASSUME NEW d \in Bytes, NEW u \in Seq(Bytes), u # <<>>, u[Len(u)] # d,
         NEW v \in Seq(Bytes \ {d}), v # <<>>,
         NEW w, Joined(w, u, d, v)
  PROVE  SplitsOff(w, u, d, v)
  <1> DEFINE one == <<d>>
             head == u \o one
  <1>1. one \in Seq(Bytes) /\ v \in Seq(Bytes)
    <2>1. Bytes \ {d} \subseteq Bytes
      OBVIOUS
    <2>2. v \in Seq(Bytes)
      BY <2>1, SubsetSeq
    <2> QED BY <2>2
  <1>2. w = u \o (one \o v)
    BY DEF Joined
  <1> HIDE DEF one
  <1>3. u \o (one \o v) = (u \o one) \o v
    BY <1>1, ConcatAssociative
  <1>4. w = head \o v
    BY <1>2, <1>3
  <1>5. head \in Seq(Bytes)
    BY <1>1, ConcatProperties
  <1> HIDE DEF head
  <1>6. w \in Seq(Bytes) /\ w # <<>> /\ w[Len(w)] = v[Len(v)]
    BY <1>1, <1>4, <1>5, LastOfConcat
  <1>7. Split(u, d) \in Seq(Seq(Bytes)) /\ Split(w, d) = Append(Split(u, d), v)
    BY <1>4, SplitAppend DEF head, one
  <1> QED BY <1>6, <1>7, Zenon DEF SplitsOff
-----------------------------------------------------------------------------
\* A pair without '=' is all key.
LEMMA NoCut ==
  ASSUME NEW v \in Seq(Plain)
  PROVE  Find(v, <<Equals>>) = NPos
  <1> DEFINE n == Len(v)
             at == {i \in 1..Len(v) - Len(<<Equals>>) + 1 :
                      SubSeq(v, i, i + Len(<<Equals>>) - 1) = <<Equals>>}
  <1>1. n \in Nat /\ \A i \in 1..n : v[i] \in Plain
    BY LenProperties, ElementOfSeq
  <1>2. Len(<<Equals>>) = 1 /\ <<Equals>>[1] = Equals /\ Equals \notin Plain
    BY DEF Plain, Equals
  <1>3. ASSUME NEW i \in 1..Len(v) - Len(<<Equals>>) + 1,
               SubSeq(v, i, i + Len(<<Equals>>) - 1) = <<Equals>>
        PROVE  FALSE
    <2>1. i \in 1..n /\ i \in Int /\ i + Len(<<Equals>>) - 1 = i
      BY <1>1, <1>2, <1>3
    <2>2. /\ Len(SubSeq(v, i, i)) = IF i <= i THEN i - i + 1 ELSE 0
          /\ \A j \in 1..i - i + 1 : SubSeq(v, i, i)[j] = v[i + j - 1]
      <3>1. \A j \in i..i : v[j] \in Plain
        BY <1>1, <2>1
      <3> QED BY <2>1, <3>1, SubSeqProperties
    <2>3. SubSeq(v, i, i)[1] = v[i]
      <3>1. 1 \in 1..i - i + 1 /\ i + 1 - 1 = i
        BY <2>1
      <3> QED BY <2>2, <3>1
    <2>4. v[i] = Equals
      BY <1>2, <1>3, <2>1, <2>3
    <2> QED BY <1>1, <1>2, <2>1, <2>4
  <1>4. at = {}
    BY <1>3
  <1> QED BY <1>4 DEF Find

\* Only the empty text is decoded to it.
LEMMA DecodeNonempty ==
  ASSUME NEW url \in Seq(Bytes), url # <<>>
  PROVE  DecodeUrl(url) # <<>>
  <1> DEFINE n == Len(url)
             parts == Decoding(url)
  <1>1. url \in Seq(Int) /\ n \in Nat /\ n # 0 /\ DOMAIN url = 1..n
    <2>1. Bytes \subseteq Int
      BY DEF Bytes
    <2>2. url \in Seq(Int)
      BY <2>1, SubsetSeq
    <2> QED BY <2>2, EmptySeq, LenProperties
  <1>2. parts \in Seq(Seq(Int)) /\ Len(parts) = n /\ \A i \in 1..n : parts[i] = DecodedAt(url, i)
    BY <1>1, DecodingTyped
  <1>3. 1 \notin EscapeDigits(url)
    BY <1>1, EscapeDigitsAre
  <1>4. Len(parts[1]) = 1
    <2>1. 1 \in 1..n
      BY <1>1
    <2>2. parts[1] = DecodedAt(url, 1)
      BY <1>2, <2>1
    <2>3. \A x : Len(<<x>>) = 1
      OBVIOUS
    <2>4. \E x : DecodedAt(url, 1) = <<x>>
      BY <1>3, Zenon DEF DecodedAt
    <2> QED BY <2>2, <2>3, <2>4
  <1> DEFINE first == <<parts[1]>>
             rest == SubSeq(parts, 2, n)
  <1> HIDE DEF parts
  <1>5. first \in Seq(Seq(Int)) /\ rest \in Seq(Seq(Int)) /\ parts = first \o rest
    <2> DEFINE T == Seq(Int)
    <2>1. 1 \in 1..n /\ parts[1] \in T /\ \A j \in 2..n : parts[j] \in T
      <3>1. 1 \in 1..n /\ \A j \in 2..n : j \in 1..n
        BY <1>1
      <3> QED BY <1>2, <3>1, ElementOfSeq
    <2> HIDE DEF T
    <2>2. 2 \in Int /\ n \in Int
      BY <1>1
    <2>3. /\ rest \in Seq(T)
          /\ Len(rest) = IF 2 <= n THEN n - 2 + 1 ELSE 0
          /\ \A j \in 1..n - 2 + 1 : rest[j] = parts[2 + j - 1]
      BY <2>1, <2>2, SubSeqProperties
    <2>4. first \in Seq(T) /\ Len(first) = 1 /\ first[1] = parts[1]
      BY <2>1
    <2>5. Len(rest) = n - 1 /\ \A j \in 1..n - 1 : rest[j] = parts[1 + j]
      <3>1. n - 2 + 1 = n - 1 /\ \A j \in 1..n - 1 : 2 + j - 1 = 1 + j
        BY <1>1
      <3>2. (IF 2 <= n THEN n - 2 + 1 ELSE 0) = n - 1
        BY <1>1
      <3> HIDE DEF rest
      <3> QED BY <2>3, <3>1, <3>2
    <2> HIDE DEF first, rest
    <2>6. /\ Len(parts) = Len(first) + Len(rest)
          /\ \A i \in 1..Len(first) : parts[i] = first[i]
          /\ \A k \in 1..Len(rest) : parts[Len(first) + k] = rest[k]
      BY <1>1, <1>2, <2>4, <2>5
    <2>7. first \o rest = parts
      BY <1>2, <2>3, <2>4, <2>6, ConcatIs DEF T
    <2> QED BY <2>3, <2>4, <2>7 DEF T
  <1>6. FlattenSeq(parts) = parts[1] \o FlattenSeq(rest) /\ FlattenSeq(rest) \in Seq(Int)
    <2>1. parts[1] \in Seq(Int)
      <3>1. 1 \in 1..n
        BY <1>1
      <3> QED BY <1>2, <3>1, ElementOfSeq
    <2>2. FlattenSeq(first) = parts[1]
      BY <2>1, FlattenOne DEF first
    <2> HIDE DEF first, rest
    <2>3. FlattenSeq(parts) = FlattenSeq(first) \o FlattenSeq(rest)
      BY <1>5, FlattenConcat
    <2>4. FlattenSeq(rest) \in Seq(Int)
      BY <1>5, <2>1, FlattenAppend
    <2> QED BY <2>2, <2>3, <2>4
  <1>7. FlattenSeq(parts) # <<>>
    <2> DEFINE tail == FlattenSeq(rest)
    <2> HIDE DEF tail, first, rest
    <2>1. parts[1] \in Seq(Int) /\ tail \in Seq(Int)
      <3>1. 1 \in 1..n
        BY <1>1
      <3> QED BY <1>2, <1>6, <3>1, ElementOfSeq DEF tail
    <2>2. Len(parts[1] \o tail) = Len(parts[1]) + Len(tail) /\ Len(tail) \in Nat
      BY <2>1, ConcatProperties, LenProperties
    <2>3. Len(parts[1] \o tail) # 0
      BY <1>4, <2>2
    <2>4. parts[1] \o tail # <<>>
      BY <2>3, EmptySeq
    <2> QED BY <1>6, <2>4 DEF tail
  <1>8. DecodeUrl(url) \in {Thrown, FlattenSeq(parts)}
    BY Zenon DEF DecodeUrl, parts, Decoding
  <1>9. Thrown # <<>>
    BY DEF Thrown
  <1> QED BY <1>7, <1>8, <1>9

\* ... and the empty text to itself.
LEMMA DecodeEmpty == DecodeUrl(<<>>) = <<>>
  <1>1. DOMAIN <<>> = {}
    OBVIOUS
  <1>2. EscapeDigits(<<>>) = {}
    BY <1>1 DEF EscapeDigits, Escapes
  <1>3. DecodeUrl(<<>>) = FlattenSeq([i \in DOMAIN <<>> |-> DecodedAt(<<>>, i)])
    BY <1>2, Zenon DEF DecodeUrl
  <1>4. [i \in DOMAIN <<>> |-> DecodedAt(<<>>, i)] = <<>>
    <2> DEFINE F(i) == DecodedAt(<<>>, i)
    <2> HIDE DEF F
    <2>1. [i \in DOMAIN <<>> |-> F(i)] = <<>>
      OBVIOUS
    <2> QED BY <2>1, Zenon DEF F
  <1> QED BY <1>3, <1>4, FlattenEmpty

\* What splits a form into pairs.
LEMMA AmpIsByte == Amp \in Bytes /\ <<Amp>> \in Seq(Bytes) /\ <<Amp>> # <<>> /\ Bytes \ {Amp} \subseteq Bytes
  BY DEF Amp, Bytes
-----------------------------------------------------------------------------
(* What find finds, pieces of texts, and what is trimmed of them. *)

\* seq is in text at i.
Matches(text, seq, i) == \A k \in 1..Len(seq) : text[i + k - 1] = seq[k]

\* A comparison of codes is one of pieces.
LEMMA MatchesIs ==
  ASSUME NEW text \in Seq(Int), NEW seq \in Seq(Int), NEW i \in 1..Len(text) - Len(seq) + 1
  PROVE  SubSeq(text, i, i + Len(seq) - 1) = seq <=> Matches(text, seq, i)
  <1> DEFINE n == Len(text)
             m == Len(seq)
             last == i + m - 1
             piece == SubSeq(text, i, last)
  <1>1. n \in Nat /\ m \in Nat /\ \A j \in 1..n : text[j] \in Int
    BY LenProperties, ElementOfSeq
  <1> HIDE DEF n, m
  <1>2. i \in Int /\ last \in Int /\ last - i + 1 = m /\ (m # 0 => i <= last)
        /\ \A j \in i..last : text[j] \in Int
    BY <1>1 DEF n, m
  <1> HIDE DEF last
  <1>3. /\ piece \in Seq(Int) /\ Len(piece) = IF i <= last THEN last - i + 1 ELSE 0
        /\ \A k \in 1..last - i + 1 : piece[k] = text[i + k - 1]
    BY <1>2, SubSeqProperties
  <1> HIDE DEF piece
  <1>4. Len(piece) = m /\ \A k \in 1..m : piece[k] = text[i + k - 1]
    BY <1>1, <1>2, <1>3
  <1>5. piece = seq <=> \A k \in 1..m : piece[k] = seq[k]
    BY <1>3, <1>4, SeqEqual DEF m
  <1> QED BY <1>4, <1>5 DEF Matches, m, piece, last

\* What find returns: the first position, if there is one.
FindsAt(text, seq, pos) ==
  /\ pos \in 1..Len(text) - Len(seq) + 1
  /\ Matches(text, seq, pos)
  /\ \A i \in 1..pos - 1 : ~Matches(text, seq, i)

FindsNone(text, seq) == \A i \in 1..Len(text) - Len(seq) + 1 : ~Matches(text, seq, i)

\* Where find stops, by the codes that are there.
LEMMA FindIs ==
  ASSUME NEW text \in Seq(Int), NEW seq \in Seq(Int)
  PROVE  /\ FindsNone(text, seq) => Find(text, seq) = NPos
         /\ \A pos : FindsAt(text, seq, pos) => Find(text, seq) = pos
         /\ FindsNone(text, seq) \/ FindsAt(text, seq, Find(text, seq))
  <1> DEFINE last == Len(text) - Len(seq) + 1
             at == {i \in 1..last : SubSeq(text, i, i + Len(seq) - 1) = seq}
  <1>1. last \in Int
    BY LenProperties
  <1>2. \A i \in 1..last : i \in at <=> Matches(text, seq, i)
    BY MatchesIs
  <1>3. Find(text, seq) = IF at = {} THEN NPos ELSE Min(at)
    BY DEF Find
  <1>4. at \subseteq 1..last
    OBVIOUS
  <1> HIDE DEF at
  <1>5. at # {} => Min(at) \in at /\ \A i \in at : Min(at) <= i
    <2>1. at \subseteq Int /\ \A i \in at : 1 <= i
      BY <1>1, <1>4
    <2>2. 1 \in Int
      OBVIOUS
    <2> QED BY <2>1, <2>2, MinIsLeast, Zenon
  <1>6. FindsNone(text, seq) <=> at = {}
    BY <1>2, <1>4 DEF FindsNone
  <1>7. at # {} => FindsAt(text, seq, Min(at))
    <2> SUFFICES ASSUME at # {} PROVE FindsAt(text, seq, Min(at))
      OBVIOUS
    <2>1. Min(at) \in 1..last /\ Matches(text, seq, Min(at))
      BY <1>2, <1>4, <1>5
    <2>2. \A i \in 1..Min(at) - 1 : i \in 1..last /\ ~(Min(at) <= i)
      BY <1>1, <2>1
    <2> QED BY <1>2, <1>5, <2>1, <2>2 DEF FindsAt
  <1>8. \A pos : FindsAt(text, seq, pos) => at # {} /\ Min(at) = pos
    <2> SUFFICES ASSUME NEW pos, FindsAt(text, seq, pos) PROVE at # {} /\ Min(at) = pos
      OBVIOUS
    <2>1. pos \in at /\ at \subseteq Int
      BY <1>1, <1>2, <1>4 DEF FindsAt
    <2>2. ASSUME NEW i \in at PROVE pos <= i
      <3>1. i \in 1..last /\ Matches(text, seq, i)
        BY <1>2, <1>4, <2>2
      <3>2. i \notin 1..pos - 1
        BY <3>1 DEF FindsAt
      <3> QED BY <1>1, <1>4, <2>1, <3>1, <3>2
    <2> QED BY <2>1, <2>2, MinIs
  <1> QED BY <1>3, <1>6, <1>7, <1>8, Zenon

\* ... a single code.
LEMMA FindCode ==
  ASSUME NEW text \in Seq(Int), NEW code \in Int
  PROVE  /\ \A pos \in 1..Len(text) :
              text[pos] = code /\ (\A i \in 1..pos - 1 : text[i] # code) => Find(text, <<code>>) = pos
         /\ (\A i \in 1..Len(text) : text[i] # code) => Find(text, <<code>>) = NPos
  <1>1. <<code>> \in Seq(Int) /\ Len(<<code>>) = 1 /\ <<code>>[1] = code
    OBVIOUS
  <1>2. Len(text) \in Nat /\ Len(text) - 1 + 1 = Len(text)
    BY LenProperties
  <1>3. \A i \in Int : Matches(text, <<code>>, i) <=> text[i] = code
    <2>1. \A i \in Int : i + 1 - 1 = i
      OBVIOUS
    <2>2. 1..1 = {1}
      OBVIOUS
    <2> QED BY <1>1, <2>1, <2>2 DEF Matches
  <1>4. \A pos \in 1..Len(text) :
          text[pos] = code /\ (\A i \in 1..pos - 1 : text[i] # code) => FindsAt(text, <<code>>, pos)
    BY <1>1, <1>2, <1>3 DEF FindsAt
  <1>5. (\A i \in 1..Len(text) : text[i] # code) => FindsNone(text, <<code>>)
    BY <1>1, <1>2, <1>3 DEF FindsNone
  <1> QED BY <1>1, <1>4, <1>5, FindIs, Zenon

\* A piece of a text.
LEMMA PieceAt ==
  ASSUME NEW S, NEW text \in Seq(S), NEW i \in Int, NEW last \in Int,
         i >= 1, last <= Len(text), i <= last + 1
  PROVE  /\ SubSeq(text, i, last) \in Seq(S) /\ Len(SubSeq(text, i, last)) = last - i + 1
         /\ \A k \in 1..last - i + 1 : SubSeq(text, i, last)[k] = text[i + k - 1]
  <1>1. Len(text) \in Nat /\ \A j \in 1..Len(text) : text[j] \in S
    BY LenProperties, ElementOfSeq
  <1>2. \A j \in i..last : text[j] \in S
    BY <1>1
  <1>3. /\ SubSeq(text, i, last) \in Seq(S)
        /\ Len(SubSeq(text, i, last)) = IF i <= last THEN last - i + 1 ELSE 0
        /\ \A k \in 1..last - i + 1 : SubSeq(text, i, last)[k] = text[i + k - 1]
    BY <1>2, SubSeqProperties
  <1>4. (IF i <= last THEN last - i + 1 ELSE 0) = last - i + 1
    OBVIOUS
  <1> QED BY <1>3, <1>4

\* The codes of a piece.
LEMMA PieceIs ==
  ASSUME NEW S, NEW text \in Seq(S), NEW i \in Int, NEW last \in Int,
         i >= 1, last <= Len(text), i <= last + 1,
         NEW v \in Seq(S), Len(v) = last - i + 1,
         \A k \in 1..Len(v) : v[k] = text[i + k - 1]
  PROVE  SubSeq(text, i, last) = v
  <1> DEFINE piece == SubSeq(text, i, last)
  <1>1. /\ piece \in Seq(S) /\ Len(piece) = last - i + 1
        /\ \A k \in 1..last - i + 1 : piece[k] = text[i + k - 1]
    BY PieceAt
  <1> HIDE DEF piece
  <1>2. piece = v
    BY <1>1, SeqEqual
  <1> QED BY <1>2 DEF piece

\* What begins with no space stays.
LEMMA TrimLeftIs ==
  ASSUME NEW text \in Seq(Int), NEW pos \in 1..Len(text), text[pos] # Space,
         \A i \in 1..pos - 1 : text[i] = Space
  PROVE  TrimLeft(text) = SubSeq(text, pos, Len(text))
  <1> DEFINE kept == {i \in DOMAIN text : text[i] # Space}
  <1>1. DOMAIN text = 1..Len(text) /\ Len(text) \in Nat
    BY LenProperties
  <1>2. kept \subseteq Int /\ pos \in kept /\ \A i \in kept : pos <= i
    BY <1>1
  <1>3. kept # {} /\ Min(kept) = pos
    <2> HIDE DEF kept
    <2> QED BY <1>2, MinIs
  <1> QED BY <1>3 DEF TrimLeft

\* One quote at either end goes.
LEMMA TrimQuotesIs ==
  ASSUME NEW text \in Seq(Int)
  PROVE  /\ (\A i \in 1..Len(text) : text[i] = Quote) => TrimQuotes(text) = <<>>
         /\ \A a, b \in 1..Len(text) :
              /\ a <= b /\ text[a] # Quote /\ text[b] # Quote
              /\ \A i \in 1..a - 1 : text[i] = Quote
              /\ \A i \in b + 1..Len(text) : text[i] = Quote
              => TrimQuotes(text) = SubSeq(text, a, b)
  <1> DEFINE kept == {i \in DOMAIN text : text[i] # Quote}
  <1>1. DOMAIN text = 1..Len(text) /\ Len(text) \in Nat
    BY LenProperties
  <1>2. (\A i \in 1..Len(text) : text[i] = Quote) => kept = {}
    BY <1>1
  <1>3. TrimQuotes(text) = IF kept = {} THEN <<>> ELSE SubSeq(text, Min(kept), Max(kept))
    BY DEF TrimQuotes
  <1>4. ASSUME NEW a \in 1..Len(text), NEW b \in 1..Len(text),
               a <= b, text[a] # Quote, text[b] # Quote,
               \A i \in 1..a - 1 : text[i] = Quote,
               \A i \in b + 1..Len(text) : text[i] = Quote
        PROVE  kept # {} /\ Min(kept) = a /\ Max(kept) = b
    <2>1. kept \subseteq Int /\ a \in kept /\ b \in kept /\ \A i \in kept : a <= i /\ i <= b
      BY <1>1, <1>4
    <2> HIDE DEF kept
    <2>2. Min(kept) = a
      BY <2>1, MinIs
    <2>3. Max(kept) \in kept /\ \A i \in kept : Max(kept) >= i
      BY <2>1, MaxIsGreatest
    <2>4. Max(kept) \in Int /\ b \in Int /\ Max(kept) <= b /\ Max(kept) >= b
      BY <2>1, <2>3
    <2>5. Max(kept) = b
      BY <2>4
    <2> QED BY <2>1, <2>2, <2>5
  <1> HIDE DEF kept
  <1> QED BY <1>2, <1>3, <1>4

\* A map of two keys, whichever was put first.
LEMMA TwoSingles ==
  ASSUME NEW x, NEW y
  PROVE  <<x>> \o <<y>> = <<x, y>>
  <1> DEFINE T == {x, y}
             a == <<x>>
             b == <<y>>
             c == <<x, y>>
  <1>1. /\ a \in Seq(T) /\ b \in Seq(T) /\ c \in Seq(T)
        /\ Len(a) = 1 /\ Len(b) = 1 /\ Len(c) = 2
        /\ a[1] = x /\ b[1] = y /\ c[1] = x /\ c[2] = y
    OBVIOUS
  <1> HIDE DEF T, a, b, c
  <1>2. /\ Len(c) = Len(a) + Len(b)
        /\ \A i \in 1..Len(a) : c[i] = a[i]
        /\ \A i \in 1..Len(b) : c[Len(a) + i] = b[i]
    BY <1>1
  <1>3. a \o b = c
    BY <1>1, <1>2, ConcatIs
  <1> QED BY <1>3 DEF a, b, c

\* A leading delimiter makes an empty token.
LEMMA SplitLeading ==
  ASSUME NEW S, NEW d \in S, NEW word \in Seq(S \ {d}), NEW text \in Seq(S),
         Len(text) = Len(word) + 1, text[1] = d,
         \A i \in 1..Len(word) : text[i + 1] = word[i]
  PROVE  Split(text, d) = <<<<>>, word>>
  <1> DEFINE n == Len(word)
             tokens == [i \in 1..Len(text) + 1 |-> TokenAt(text, d, i)]
  <1>1. /\ n \in Nat /\ word \in Seq(S) /\ DOMAIN text = 1..n + 1 /\ Len(text) = n + 1
        /\ \A i \in 1..n : word[i] \in S \ {d}
    <2>1. S \ {d} \subseteq S
      OBVIOUS
    <2> QED BY <2>1, LenProperties, ElementOfSeq, SubsetSeq
  <1>2. Cuts(text, d) = {1}
    <2>1. ASSUME NEW i \in 2..n + 1 PROVE text[i] # d
      <3>1. i - 1 \in 1..n /\ (i - 1) + 1 = i
        BY <1>1, <2>1
      <3> QED BY <1>1, <3>1
    <2>2. 1 \in 1..n + 1 /\ \A i \in 1..n + 1 : i = 1 \/ i \in 2..n + 1
      BY <1>1
    <2> HIDE DEF n
    <2> QED BY <1>1, <2>1, <2>2 DEF Cuts
  <1> HIDE DEF n
  <1>3. TokenAt(text, d, 1) = <<<<>>>>
    <2>1. {j \in Cuts(text, d) : j >= 1} \cup {Len(text) + 1} = {1, n + 2}
      BY <1>1, <1>2
    <2>2. Min({1, n + 2}) = 1
      <3> DEFINE ends == {1, n + 2}
      <3>1. ends \subseteq Int /\ 1 \in ends /\ \A x \in ends : 1 <= x
        BY <1>1
      <3> HIDE DEF ends
      <3>2. Min(ends) = 1
        BY <3>1, MinIs
      <3> QED BY <3>2 DEF ends
    <2>3. SubSeq(text, 1, 1 - 1) = <<>>
      OBVIOUS
    <2> QED BY <2>1, <2>2, <2>3 DEF TokenAt
  <1>4. TokenAt(text, d, 2) = <<word>>
    <2> DEFINE ends == {j \in Cuts(text, d) : j >= 2} \cup {Len(text) + 1}
    <2>1. ends \subseteq Int /\ n + 2 \in ends /\ \A j \in ends : n + 2 <= j
      BY <1>1, <1>2
    <2>2. Min(ends) = n + 2
      <3> HIDE DEF ends
      <3> QED BY <2>1, MinIs
    <2>3. SubSeq(text, 2, n + 2 - 1) = word
      <3> DEFINE last == n + 2 - 1
      <3>1. last \in Int /\ last = n + 1 /\ 2 <= last + 1 /\ n = last - 2 + 1
        BY <1>1
      <3>2. \A k \in 1..n : word[k] = text[2 + k - 1]
        <4>1. \A k \in 1..n : 2 + k - 1 = k + 1
          BY <1>1
        <4> QED BY <4>1 DEF n
      <3> HIDE DEF last
      <3>3. SubSeq(text, 2, last) = word
        BY <1>1, <3>1, <3>2, PieceIs DEF n
      <3> QED BY <3>3 DEF last
    <2>4. 2 - 1 \in Cuts(text, d) /\ 2 \notin Cuts(text, d)
      BY <1>2
    <2>5. TokenAt(text, d, 2)
            = IF 2 = 1 \/ (2 - 1 \in Cuts(text, d) /\ 2 \notin Cuts(text, d))
              THEN <<SubSeq(text, 2, Min(ends) - 1)>> ELSE <<>>
      BY DEF TokenAt
    <2> HIDE DEF ends
    <2>6. TokenAt(text, d, 2) = <<SubSeq(text, 2, Min(ends) - 1)>>
      BY <2>4, <2>5
    <2>7. SubSeq(text, 2, Min(ends) - 1) = word
      <3>1. Min(ends) - 1 = n + 1 /\ n + 2 - 1 = n + 1
        BY <1>1, <2>2
      <3> QED BY <2>3, <3>1
    <2> QED BY <2>6, <2>7, Zenon
  <1>5. \A i \in 3..n + 2 : TokenAt(text, d, i) = <<>>
    BY <1>1, <1>2 DEF TokenAt
  <1>6. /\ tokens \in Seq(Seq(Seq(S))) /\ Len(tokens) = n + 2
        /\ \A i \in 1..n + 2 : tokens[i] = TokenAt(text, d, i)
    <2>1. tokens \in [1..n + 2 -> Seq(Seq(S))]
      BY <1>1, TokensTyped
    <2> QED BY <1>1, <2>1
  <1> HIDE DEF tokens
  <1>7. FlattenSeq(tokens) = <<<<>>, word>>
    <2> DEFINE T == Seq(S)
               none == <<<<>>>>
               s == <<word>>
               front == <<none>>
    <2>1. /\ s \in Seq(T) /\ none \in Seq(T) /\ front \in Seq(Seq(T)) /\ tokens \in Seq(Seq(T))
          /\ Len(tokens) = n + 2 /\ Len(front) = 1 /\ front[1] = none
      BY <1>1, <1>6, EmptySeq
    <2>2. 1 \in 1..n + 2 /\ 2 \in 1..n + 2 /\ \A i \in 3..n + 2 : i \in 1..n + 2
      BY <1>1
    <2>3. tokens[1] = none /\ tokens[2] = s /\ \A i \in 3..n + 2 : tokens[i] = <<>>
      BY <1>3, <1>4, <1>5, <1>6, <2>2
    <2>4. none \o s = <<<<>>, word>>
      BY TwoSingles
    <2> HIDE DEF T, s, none
    <2>5. FlattenSeq(front) = none
      BY <2>1, FlattenOne
    <2> HIDE DEF front
    <2>6. FlattenSeq(tokens) = FlattenSeq(front) \o s
      <3>1. /\ Len(tokens) > Len(front)
            /\ \A i \in 1..Len(front) : tokens[i] = front[i]
            /\ tokens[Len(front) + 1] = s
            /\ \A i \in Len(front) + 2..Len(tokens) : tokens[i] = <<>>
        BY <1>1, <2>1, <2>3
      <3> QED BY <2>1, <3>1, FlattenDivided
    <2> QED BY <2>4, <2>5, <2>6
  <1> QED BY <1>7 DEF Split, tokens
-----------------------------------------------------------------------------
(* parseKeyValuePairs. *)

\* What is between quotes, of which the second may be cut off.
LEMMA QuotesTrimmed ==
  ASSUME NEW value \in Seq(Int), \A i \in 1..Len(value) : value[i] # Quote,
         NEW inner \in Seq(Int), Len(inner) \in {Len(value) + 1, Len(value) + 2},
         inner[1] = Quote, \A i \in 1..Len(value) : inner[1 + i] = value[i],
         Len(inner) = Len(value) + 2 => inner[Len(value) + 2] = Quote
  PROVE  TrimQuotes(inner) = value
  <1> DEFINE a == Len(value)
             n == Len(inner)
  <1>1. a \in Nat /\ n \in {a + 1, a + 2} /\ n \in Nat
    BY LenProperties
  <1>a. /\ \A i \in 1..a : value[i] # Quote /\ inner[1 + i] = value[i]
        /\ n = a + 2 => inner[a + 2] = Quote
    OBVIOUS
  <1> HIDE DEF a, n
  <1>2. CASE a = 0
    <2>1. \A i \in 1..n : i = 1 \/ (i = 2 /\ n = a + 2)
      BY <1>1, <1>2
    <2>2. \A i \in 1..n : inner[i] = Quote
      BY <1>2, <1>a, <2>1
    <2>3. value = <<>>
      BY <1>2, EmptySeq DEF a
    <2>4. TrimQuotes(inner) = <<>>
      <3>1. \A i \in 1..Len(inner) : inner[i] = Quote
        BY <2>2 DEF n
      <3>2. (\A i \in 1..Len(inner) : inner[i] = Quote) => TrimQuotes(inner) = <<>>
        BY TrimQuotesIs
      <3> QED BY <3>1, <3>2
    <2> QED BY <2>3, <2>4
  <1>3. CASE a # 0
    <2>1. /\ 2 \in 1..n /\ a + 1 \in 1..n /\ 2 <= a + 1
          /\ \A i \in 1..2 - 1 : i = 1
          /\ \A i \in a + 1 + 1..n : i = a + 2 /\ n = a + 2
      BY <1>1, <1>3
    <2>2. inner[2] # Quote /\ inner[a + 1] # Quote
      <3>1. 1 \in 1..a /\ a \in 1..a /\ 1 + 1 = 2 /\ 1 + a = a + 1
        BY <1>1, <1>3
      <3> QED BY <1>a, <3>1
    <2>3. (\A i \in 1..2 - 1 : inner[i] = Quote) /\ \A i \in a + 1 + 1..n : inner[i] = Quote
      BY <1>a, <2>1
    <2>4. TrimQuotes(inner) = SubSeq(inner, 2, a + 1)
      <3> DEFINE b == a + 1
      <3>1. /\ 2 \in 1..n /\ b \in 1..n /\ 2 <= b /\ inner[2] # Quote /\ inner[b] # Quote
            /\ (\A i \in 1..2 - 1 : inner[i] = Quote) /\ \A i \in b + 1..n : inner[i] = Quote
        BY <2>1, <2>2, <2>3
      <3> HIDE DEF b
      <3>2. TrimQuotes(inner) = SubSeq(inner, 2, b)
        BY <3>1, TrimQuotesIs DEF n
      <3> QED BY <3>2 DEF b
    <2>5. SubSeq(inner, 2, a + 1) = value
      <3> DEFINE b == a + 1
      <3>1. b \in Int /\ 2 <= b + 1 /\ b <= n /\ a = b - 2 + 1
        BY <1>1
      <3>2. \A k \in 1..a : value[k] = inner[2 + k - 1]
        <4>1. \A k \in 1..a : 2 + k - 1 = 1 + k
          BY <1>1
        <4> QED BY <1>a, <4>1
      <3> HIDE DEF b
      <3>3. SubSeq(inner, 2, b) = value
        BY <3>1, <3>2, PieceIs DEF a, n
      <3> QED BY <3>3 DEF b
    <2> QED BY <2>4, <2>5
  <1> QED BY <1>2, <1>3

\* word="value" ends the text, or a delimiter follows.
WordAndValue(text, word, value) ==
  LET a == Len(value) IN
  /\ text[1] = word /\ text[2] = Equals /\ text[3] = Quote
  /\ \A i \in 1..a : text[3 + i] = value[i]
  /\ text[a + 4] = Quote
  /\ Len(text) >= a + 4
  /\ Len(text) # a + 4 => text[a + 5] = Semicolon

\* keyAndValue of a word and what is quoted behind it.
LEMMA WordPair ==
  ASSUME NEW text \in Seq(Int), NEW word \in Int \ {Equals, Semicolon},
         NEW value \in Seq(Int), \A i \in 1..Len(value) : value[i] \notin {Quote, Semicolon},
         WordAndValue(text, word, value)
  PROVE  NextKeyValue(text) = <<<<word>>, value>>
  <1> DEFINE a == Len(value)
             n == Len(text)
             pos == Find(text, <<Semicolon>>)
             stop == IF pos = NPos THEN n ELSE pos
             pair == Before(text, stop)
             inner == SubSeq(pair, 3, Len(pair))
  <1>1. a \in Nat /\ n \in Nat
    BY LenProperties
  <1>2. /\ text[1] = word /\ text[2] = Equals /\ text[3] = Quote
        /\ \A i \in 1..a : text[3 + i] = value[i] /\ value[i] # Quote /\ value[i] # Semicolon
        /\ text[a + 4] = Quote /\ n >= a + 4 /\ (n # a + 4 => text[a + 5] = Semicolon)
    BY DEF WordAndValue
  <1> HIDE DEF a, n
  <1>3. \A i \in 1..a + 4 : text[i] # Semicolon
    <2>1. ASSUME NEW i \in 4..a + 3 PROVE text[i] # Semicolon
      <3>1. i - 3 \in 1..a /\ 3 + (i - 3) = i
        BY <1>1
      <3> QED BY <1>2, <3>1
    <2>2. \A i \in 1..a + 4 : i = 1 \/ i = 2 \/ i = 3 \/ i = a + 4 \/ i \in 4..a + 3
      BY <1>1
    <2>3. word # Semicolon /\ Equals # Semicolon /\ Quote # Semicolon
      BY DEF Equals, Semicolon, Quote
    <2> QED BY <1>2, <2>1, <2>2, <2>3
  <1>4. stop \in {a + 4, a + 5} /\ stop <= n /\ (stop = a + 5 \/ n = a + 4)
    <2>1. CASE n = a + 4
      <3>1. \A i \in 1..n : text[i] # Semicolon
        BY <1>3, <2>1
      <3>2. Semicolon \in Int
        BY DEF Semicolon
      <3>3. pos = NPos
        BY <3>1, <3>2, FindCode DEF n
      <3> HIDE DEF pos
      <3> QED BY <1>1, <2>1, <3>3
    <2>2. CASE n # a + 4
      <3> DEFINE end == a + 5
      <3>1. end \in 1..n /\ text[end] = Semicolon
        BY <1>1, <1>2, <2>2
      <3>2. \A i \in 1..end - 1 : text[i] # Semicolon
        <4>1. \A i \in 1..end - 1 : i \in 1..a + 4
          BY <1>1
        <4> QED BY <1>3, <4>1
      <3>3. Semicolon \in Int /\ end # NPos
        BY <1>1 DEF Semicolon, NPos
      <3> HIDE DEF end
      <3>4. pos = end
        BY <3>1, <3>2, <3>3, FindCode DEF n
      <3> HIDE DEF pos
      <3>5. stop = end
        BY <3>3, <3>4
      <3>6. end = a + 5 /\ end <= n
        BY <3>1 DEF end
      <3> HIDE DEF stop
      <3> QED BY <3>5, <3>6
    <2> QED BY <2>1, <2>2
  <1>5. NextKeyValue(text) = KeyValue(text, stop)
    BY DEF NextKeyValue, n
  <1> HIDE DEF stop
  <1>6. Find(text, <<Equals>>) = 2
    <2>1. 2 \in 1..n /\ \A i \in 1..2 - 1 : i = 1
      BY <1>1, <1>2
    <2>2. word # Equals
      OBVIOUS
    <2>3. \A i \in 1..2 - 1 : text[i] # Equals
      BY <1>2, <2>1, <2>2
    <2>4. Equals \in Int
      BY DEF Equals
    <2> QED BY <1>2, <2>1, <2>3, <2>4, FindCode DEF n
  <1>7. stop \in Int /\ stop - 1 \in Int /\ stop # NPos /\ 2 < stop /\ 2 # NPos /\ stop - 1 >= 3
        /\ stop - 1 <= n
    BY <1>1, <1>4 DEF NPos
  <1>8. KeyValue(text, stop) = <<Before(text, 2), TrimQuotes(inner)>>
    <2>1. 2 + 1 = 3
      OBVIOUS
    <2> HIDE DEF pair
    <2> QED BY <1>6, <1>7, <2>1, Zenon DEF KeyValue, pair
  <1>9. Before(text, 2) = <<word>>
    <2>1. Before(text, 2) = SubSeq(text, 1, 1)
      BY DEF Before, NPos
    <2>2. <<word>> \in Seq(Int) /\ Len(<<word>>) = 1 /\ <<word>>[1] = word
      OBVIOUS
    <2> DEFINE one == <<word>>
    <2> HIDE DEF one
    <2>3. one \in Seq(Int) /\ Len(one) = 1 - 1 + 1 /\ \A k \in 1..Len(one) : one[k] = text[1 + k - 1]
      BY <1>2, <2>2 DEF one
    <2>4. SubSeq(text, 1, 1) = one
      BY <1>1, <1>2, <2>3, PieceIs DEF n
    <2> QED BY <2>1, <2>4 DEF one
  <1>10. /\ pair \in Seq(Int) /\ Len(pair) = stop - 1 /\ \A k \in 1..stop - 1 : pair[k] = text[k]
    <2> DEFINE last == stop - 1
    <2>1. pair = SubSeq(text, 1, last)
      BY <1>7 DEF Before
    <2>2. last \in Int /\ 1 <= last + 1 /\ last <= n /\ last - 1 + 1 = last
          /\ \A k \in 1..last : 1 + k - 1 = k
      BY <1>7
    <2> HIDE DEF last, pair
    <2>3. /\ pair \in Seq(Int) /\ Len(pair) = last - 1 + 1
          /\ \A k \in 1..last - 1 + 1 : pair[k] = text[1 + k - 1]
      BY <2>1, <2>2, PieceAt DEF n
    <2>4. pair \in Seq(Int) /\ Len(pair) = last /\ \A k \in 1..last : pair[k] = text[k]
      BY <2>2, <2>3
    <2> QED BY <2>4 DEF last
  <1> HIDE DEF pair
  <1>11. /\ inner \in Seq(Int) /\ Len(inner) = stop - 3
         /\ \A k \in 1..stop - 3 : inner[k] = text[k + 2]
    <2> DEFINE last == Len(pair)
    <2>1. last \in Int /\ 3 >= 1 /\ 3 <= last + 1 /\ last - 3 + 1 = stop - 3
          /\ \A k \in 1..stop - 3 : 3 + k - 1 = k + 2 /\ k + 2 \in 1..stop - 1
      BY <1>7, <1>10
    <2> HIDE DEF last
    <2>2. /\ inner \in Seq(Int) /\ Len(inner) = last - 3 + 1
          /\ \A k \in 1..last - 3 + 1 : inner[k] = pair[3 + k - 1]
      BY <1>10, <2>1, PieceAt DEF last
    <2> HIDE DEF inner
    <2> QED BY <1>10, <2>1, <2>2
  <1> HIDE DEF inner
  <1>12. TrimQuotes(inner) = value
    <2>1. /\ Len(inner) \in {a + 1, a + 2} /\ 1 \in 1..stop - 3 /\ 1 + 2 = 3
          /\ \A i \in 1..a : 1 + i \in 1..stop - 3 /\ (1 + i) + 2 = 3 + i
          /\ Len(inner) = a + 2 => a + 2 \in 1..stop - 3 /\ (a + 2) + 2 = a + 4
      <3>1. stop = a + 4 \/ stop = a + 5
        BY <1>4
      <3> QED BY <1>1, <1>11, <3>1
    <2>2. inner[1] = Quote /\ \A i \in 1..a : inner[1 + i] = value[i]
      BY <1>2, <1>11, <2>1
    <2>3. Len(inner) = a + 2 => inner[a + 2] = Quote
      BY <1>2, <1>11, <2>1
    <2>4. \A i \in 1..a : value[i] # Quote
      BY <1>2
    <2> QED BY <1>11, <2>1, <2>2, <2>3, <2>4, QuotesTrimmed DEF a
  <1> QED BY <1>5, <1>8, <1>9, <1>12, Zenon
=============================================================================
