------------------------------ MODULE TextUtil ------------------------------
(***************************************************************************)
(* The string functions of aconnect::util.  A string is a sequence of the  *)
(* codes of its characters (a code above 255 stands for a word that is     *)
(* never looked into), a position counts from 1, NPos is string::npos.     *)
(***************************************************************************)
EXTENDS Sequences, Integers, SequencesExt

NPos == 0

Percent == 37   Amp == 38   Plus == 43   Semicolon == 59   Equals == 61
Space == 32   Quote == 34

\* The result of a function that throws.
Thrown == <<-1>>

\* A loop over the elements of a text, with what it carries from one to the next;
\* `carried` is bound, not defined, so that TLC computes it once.
Scan(step(_, _), start, text) ==
  LET after[i \in 0..Len(text)] ==
        IF i = 0 THEN start
        ELSE CHOOSE next \in {step(carried, text[i]) : carried \in {after[i - 1]}} : TRUE
  IN after[Len(text)]

\* string::find
Find(text, seq) ==
  LET at == {i \in 1..Len(text) - Len(seq) + 1 :
               SubSeq(text, i, i + Len(seq) - 1) = seq}
  IN IF at = {} THEN NPos ELSE Min(at)

\* Faulty: a beginning of seq at the end of the text is not found.
FindWhole(text, seq) == Find(text, seq)

\* findSequence: at the end of the text a beginning of seq is enough.
FindSequence(text, seq) ==
  LET at == {i \in 1..Len(text) :
               \A k \in 1..Len(seq) : i + k - 1 <= Len(text) => text[i + k - 1] = seq[k]}
  IN IF at = {} THEN NPos ELSE Min(at)

\* substr (0, pos), and what erase (0, pos) leaves.
Before(text, pos) == IF pos = NPos THEN text ELSE SubSeq(text, 1, pos - 1)
From(text, pos)   == IF pos = NPos THEN <<>> ELSE SubSeq(text, pos, Len(text))

\* algo::split, token_compress_on: several delimiters in a row separate once.
Cuts(text, delimiter) == {i \in DOMAIN text : text[i] = delimiter}

TokenAt(text, delimiter, i) ==
  LET cuts == Cuts(text, delimiter)
      end  == Min({j \in cuts : j >= i} \cup {Len(text) + 1})
  IN IF i = 1 \/ (i - 1 \in cuts /\ i \notin cuts)
     THEN <<SubSeq(text, i, end - 1)>> ELSE <<>>

Split(text, delimiter) ==
  FlattenSeq([i \in 1..Len(text) + 1 |-> TokenAt(text, delimiter, i)])

TrimLeft(text) ==
  LET kept == {i \in DOMAIN text : text[i] # Space}
  IN IF kept = {} THEN <<>> ELSE SubSeq(text, Min(kept), Len(text))

\* algo::trim_copy_if, quotes only.
TrimQuotes(text) ==
  LET kept == {i \in DOMAIN text : text[i] # Quote}
  IN IF kept = {} THEN <<>> ELSE SubSeq(text, Min(kept), Max(kept))
-----------------------------------------------------------------------------
\* Faulty: the letters do not count from ten.
HexValueFromZero(code) ==
  CASE code \in 48..57  -> code - 48
    [] code \in 65..70  -> code - 65
    [] code \in 97..102 -> code - 97
    [] OTHER            -> -1

\* parseHexSymbol, -1 when it throws.
HexValue(code) ==
  CASE code \in 48..57  -> code - 48
    [] code \in 65..70  -> code - 55
    [] code \in 97..102 -> code - 87
    [] OTHER            -> -1

HexDigit(value) == IF value < 10 THEN 48 + value ELSE 55 + value

\* decodeUrl: the positions of '%' and of the digits that follow one.
Escapes(url)      == {i \in DOMAIN url : url[i] = Percent}
EscapeDigits(url) == {i + 1 : i \in Escapes(url)} \cup {i + 2 : i \in Escapes(url)}

\* An escape that the end of the text cuts off meets the terminating zero, which is
\* no hexadecimal digit.
DigitAt(url, i) == IF i \in DOMAIN url THEN HexValue(url[i]) ELSE -1

\* What a character stands for: with '%', the two that follow it, which are skipped.
DecodedAt(url, i) ==
  IF i \in EscapeDigits(url) THEN <<>>
  ELSE <<IF url[i] = Percent THEN DigitAt(url, i + 1) * 16 + DigitAt(url, i + 2)
         ELSE IF url[i] = Plus THEN Space ELSE url[i]>>

\* An escape that is none throws, and with it the whole text.
DecodeUrl(url) ==
  IF \E i \in EscapeDigits(url) : DigitAt(url, i) = -1 THEN Thrown
  ELSE FlattenSeq([i \in DOMAIN url |-> DecodedAt(url, i)])

\* isSafeForUrlPart: the table validChars.
SafeForUrlPart == {39, 45, 46, 95} \cup 48..57 \cup 65..90 \cup 97..122

\* encodeUrlPart
EncodedChar(code) ==
  IF code \in SafeForUrlPart THEN <<code>>
  ELSE <<Percent, HexDigit(code \div 16), HexDigit(code % 16)>>

EncodeUrlPart(url) == FlattenSeq([i \in DOMAIN url |-> EncodedChar(url[i])])

\* parseKeyValuePairs: the pair before pos; the key is all of it if no '=' is in it.
KeyValue(text, pos) ==
  LET pair == Before(text, pos)
      eq   == Find(text, <<Equals>>)
  IN IF eq # NPos /\ (pos = NPos \/ eq < pos)
     THEN <<Before(text, eq), TrimQuotes(SubSeq(pair, eq + 1, Len(pair)))>>
     ELSE <<pair, <<>>>>

\* The pair a text begins with.  Where no delimiter is left the last character is
\* taken for one.
NextKeyValue(text) ==
  LET pos == Find(text, <<Semicolon>>) IN KeyValue(text, IF pos = NPos THEN Len(text) ELSE pos)

\* The first pair, and one behind each delimiter, as long as something is left; a text
\* without any delimiter is parsed twice.  A later pair replaces one with its key.
ParseKeyValuePairs(text) ==
  LET first   == KeyValue(text, Find(text, <<Semicolon>>))
      cuts    == Cuts(text, Semicolon)
      left(i) == TrimLeft(From(text, i + 1))
      turns   == {i \in IF cuts = {} THEN {0} ELSE cuts : left(i) # <<>>}
      At(key) == {i \in turns : NextKeyValue(left(i))[1] = key}
  IN [key \in {first[1]} \cup {NextKeyValue(left(i))[1] : i \in turns} |->
        IF At(key) = {} THEN first[2] ELSE NextKeyValue(left(Max(At(key))))[2]]
=============================================================================
