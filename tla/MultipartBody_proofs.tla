------------------------ MODULE MultipartBody_proofs ------------------------
(***************************************************************************)
(* Lemmas about the body that a browser writes of the parts of a form:     *)
(* what loadHeader makes of the header of a part, where headers, data and  *)
(* boundaries are, and what each search of loadMultipartFormData finds in  *)
(* a piece of the body, wherever the reads have cut it.  They hold for any *)
(* number of parts and data of any length.                                 *)
(***************************************************************************)
EXTENDS PythonHandler, TextUtil_proofs
-----------------------------------------------------------------------------
(* The header of a part. *)

\* What a header consists of.
HeaderChars == Int \ {LineEnd, Boundary}

\* The codes that separate are different.
LEMMA CodesAre ==
  /\ {FormData, NameWord, FilenameWord, Equals, Quote, Semicolon, Space} \subseteq HeaderChars
  /\ NameChars \subseteq HeaderChars /\ NameChars \subseteq Int
  /\ \A code \in NameChars : code \notin {Semicolon, Quote, Percent, Plus, -1}
  /\ {NameWord, FilenameWord, FormData} \cap {Equals, Semicolon, Space, Quote} = {}
  /\ Cardinality({}) = 0
  BY FS_EmptySet DEF FormData, NameWord, FilenameWord, Equals, Quote, Semicolon, Space, HeaderChars,
     NameChars, LineEnd, Boundary, Percent, Plus

\* Positions in a concatenation.
LEMMA ConcatAt ==
  ASSUME NEW S, NEW p \in Seq(S), NEW q \in Seq(S)
  PROVE  /\ p \o q \in Seq(S) /\ Len(p \o q) = Len(p) + Len(q)
         /\ \A i \in 1..Len(p) : (p \o q)[i] = p[i]
         /\ \A i \in 1..Len(q) : (p \o q)[Len(p) + i] = q[i]
  <1> DEFINE all == p \o q
             n == Len(p)
             m == Len(q)
  <1>0. n \in Nat /\ m \in Nat
    BY LenProperties
  <1>1. /\ all \in Seq(S) /\ Len(all) = n + m
        /\ \A i \in 1..n + m : all[i] = IF i <= n THEN p[i] ELSE q[i - n]
    BY ConcatProperties
  <1> HIDE DEF all, n, m
  <1>2. \A i \in 1..n : i \in 1..n + m /\ i <= n
    BY <1>0
  <1>3. \A i \in 1..m : n + i \in 1..n + m /\ ~(n + i <= n) /\ (n + i) - n = i
    BY <1>0
  <1>4. \A i \in 1..n : all[i] = p[i]
    BY <1>1, <1>2
  <1>5. \A i \in 1..m : all[n + i] = q[i]
    BY <1>1, <1>3
  <1> QED BY <1>1, <1>4, <1>5 DEF all, n, m

\* A word and a quoted value, code by code.
LEMMA QuotedIs ==
  ASSUME NEW word \in HeaderChars, NEW value \in Seq(HeaderChars)
  PROVE  /\ Quoted(word, value) \in Seq(HeaderChars)
         /\ Len(Quoted(word, value)) = Len(value) + 4
         /\ WordAndValue(Quoted(word, value), word, value)
  <1> DEFINE C == HeaderChars
             a == Len(value)
             head == <<word, Equals, Quote>>
             end == <<Quote>>
             all == Quoted(word, value)
  <1>1. Equals \in C /\ Quote \in C
    BY CodesAre
  <1>2. a \in Nat /\ value \in Seq(C)
    BY LenProperties
  <1> HIDE DEF C, a
  <1>3. /\ head \in Seq(C) /\ Len(head) = 3 /\ head[1] = word /\ head[2] = Equals /\ head[3] = Quote
        /\ end \in Seq(C) /\ Len(end) = 1 /\ end[1] = Quote
    BY <1>1 DEF C
  <1> HIDE DEF head, end
  <1> DEFINE front == head \o value
  <1>4. /\ front \in Seq(C) /\ Len(front) = 3 + a
        /\ \A i \in 1..3 : front[i] = head[i]
        /\ \A i \in 1..a : front[3 + i] = value[i]
    <2>1. /\ front \in Seq(C) /\ Len(front) = Len(head) + Len(value)
          /\ \A i \in 1..Len(head) : front[i] = head[i]
          /\ \A i \in 1..Len(value) : front[Len(head) + i] = value[i]
      <3>1. head \in Seq(C) /\ value \in Seq(C)
        BY <1>2, <1>3
      <3> QED BY <3>1, ConcatAt
    <2> HIDE DEF front
    <2>2. Len(head) = 3 /\ Len(value) = a
      BY <1>3 DEF a
    <2> QED BY <2>1, <2>2
  <1>5. all = front \o end
    BY DEF Quoted, head, end
  <1> HIDE DEF front, all
  <1>6. /\ all \in Seq(C) /\ Len(all) = 3 + a + 1
        /\ \A i \in 1..3 + a : all[i] = front[i]
        /\ \A i \in 1..1 : all[3 + a + i] = end[i]
    <2>1. /\ all \in Seq(C) /\ Len(all) = Len(front) + Len(end)
          /\ \A i \in 1..Len(front) : all[i] = front[i]
          /\ \A i \in 1..Len(end) : all[Len(front) + i] = end[i]
      <3>1. front \in Seq(C) /\ end \in Seq(C)
        BY <1>3, <1>4
      <3> QED BY <1>5, <3>1, ConcatAt
    <2>2. Len(front) = 3 + a /\ Len(end) = 1
      BY <1>3, <1>4
    <2> QED BY <2>1, <2>2
  <1>7. all[1] = word /\ all[2] = Equals /\ all[3] = Quote
    <2>1. \A i \in 1..3 : i \in 1..3 + a
      BY <1>2
    <2>2. \A i \in 1..3 : all[i] = head[i]
      BY <1>4, <1>6, <2>1
    <2> QED BY <1>3, <2>2
  <1>8. \A i \in 1..a : all[3 + i] = value[i]
    <2>1. \A i \in 1..a : 3 + i \in 1..3 + a
      BY <1>2
    <2> QED BY <1>4, <1>6, <2>1
  <1>9. all[a + 4] = Quote
    <2>1. 1 \in 1..1 /\ 3 + a + 1 = a + 4
      BY <1>2
    <2> QED BY <1>3, <1>6, <2>1
  <1>10. Len(all) = a + 4
    BY <1>2, <1>6
  <1> QED BY <1>2, <1>6, <1>7, <1>8, <1>9, <1>10 DEF WordAndValue, C, a, all

\* How a header is laid out: a name, and for a file behind it a file name.
HeaderHas(header, part) ==
  LET a == Len(part.name)
      c == Len(part.fileName) IN
  /\ header \in Seq(HeaderChars)
  /\ header[1] = FormData /\ header[2] = Semicolon /\ header[3] = Space
  /\ \A i \in 1..a + 4 : header[3 + i] = Quoted(NameWord, part.name)[i]
  /\ ~part.isFile => Len(header) = a + 7
  /\ part.isFile =>
       /\ Len(header) = a + c + 13
       /\ header[a + 8] = Semicolon /\ header[a + 9] = Space
       /\ \A i \in 1..c + 4 : header[a + 9 + i] = Quoted(FilenameWord, part.fileName)[i]

\* The names and the data of a part are texts.
LEMMA PartTyped ==
  ASSUME NEW part \in WrittenParts
  PROVE  /\ part.isFile \in BOOLEAN
         /\ part.name \in Seq(NameChars) /\ part.name \in Seq(HeaderChars) /\ part.name \in Seq(Int)
         /\ part.fileName \in Seq(NameChars) /\ part.fileName \in Seq(HeaderChars)
         /\ part.fileName \in Seq(Int)
         /\ part.data \in Seq(DataChars) /\ part.data \in Seq(Int)
         /\ part.name # <<>> /\ (~part.isFile => part.fileName = <<>>)
  <1>1. /\ part.isFile \in BOOLEAN /\ part.name \in Seq(NameChars) /\ part.fileName \in Seq(NameChars)
        /\ part.data \in Seq(DataChars) /\ part.name # <<>> /\ (~part.isFile => part.fileName = <<>>)
    BY DEF WrittenParts
  <1>2. DataChars \subseteq Int
    BY DEF DataChars
  <1>3. part.data \in Seq(Int)
    BY <1>1, <1>2, SubsetSeq
  <1>4. NameChars \subseteq HeaderChars /\ NameChars \subseteq Int
    BY CodesAre
  <1>5. \A s \in Seq(NameChars) : s \in Seq(HeaderChars) /\ s \in Seq(Int)
    BY <1>4, SubsetSeq
  <1> QED BY <1>1, <1>3, <1>5

\* A header, code by code.
LEMMA HeaderLaid ==
  ASSUME NEW part \in WrittenParts
  PROVE  HeaderHas(HeaderText(part), part)
  <1> DEFINE C == HeaderChars
             a == Len(part.name)
             c == Len(part.fileName)
             head == <<FormData, Semicolon, Space>>
             first == Quoted(NameWord, part.name)
             second == Quoted(FilenameWord, part.fileName)
             gap == <<Semicolon, Space>>
             front == head \o first
             back == gap \o second
             all == HeaderText(part)
  <1>1. /\ first \in Seq(C) /\ Len(first) = a + 4 /\ second \in Seq(C) /\ Len(second) = c + 4
        /\ a \in Nat /\ c \in Nat
    BY PartTyped, CodesAre, QuotedIs, LenProperties
  <1>2. /\ head \in Seq(C) /\ Len(head) = 3 /\ head[1] = FormData /\ head[2] = Semicolon
        /\ head[3] = Space
        /\ gap \in Seq(C) /\ Len(gap) = 2 /\ gap[1] = Semicolon /\ gap[2] = Space
    BY CodesAre
  <1>3. all = front \o (IF part.isFile THEN back ELSE <<>>)
    BY DEF HeaderText
  <1> HIDE DEF C, a, c, head, first, second, gap, all
  <1>4. /\ front \in Seq(C) /\ Len(front) = 3 + (a + 4)
        /\ \A i \in 1..3 : front[i] = head[i]
        /\ \A i \in 1..a + 4 : front[3 + i] = first[i]
    <2>1. /\ front \in Seq(C) /\ Len(front) = Len(head) + Len(first)
          /\ \A i \in 1..Len(head) : front[i] = head[i]
          /\ \A i \in 1..Len(first) : front[Len(head) + i] = first[i]
      <3>1. head \in Seq(C) /\ first \in Seq(C)
        BY <1>1, <1>2
      <3> QED BY <3>1, ConcatAt
    <2> HIDE DEF front
    <2>2. Len(head) = 3 /\ Len(first) = a + 4
      BY <1>1, <1>2
    <2> QED BY <2>1, <2>2
  <1>5. /\ back \in Seq(C) /\ Len(back) = 2 + (c + 4)
        /\ \A i \in 1..2 : back[i] = gap[i]
        /\ \A i \in 1..c + 4 : back[2 + i] = second[i]
    <2>1. /\ back \in Seq(C) /\ Len(back) = Len(gap) + Len(second)
          /\ \A i \in 1..Len(gap) : back[i] = gap[i]
          /\ \A i \in 1..Len(second) : back[Len(gap) + i] = second[i]
      <3>1. gap \in Seq(C) /\ second \in Seq(C)
        BY <1>1, <1>2
      <3> QED BY <3>1, ConcatAt
    <2> HIDE DEF back
    <2>2. Len(gap) = 2 /\ Len(second) = c + 4
      BY <1>1, <1>2
    <2> QED BY <2>1, <2>2
  <1> HIDE DEF front, back
  <1>6. /\ front[1] = FormData /\ front[2] = Semicolon /\ front[3] = Space
        /\ Len(front) = a + 7
    <2>1. 1 \in 1..3 /\ 2 \in 1..3 /\ 3 \in 1..3 /\ 3 + (a + 4) = a + 7
      BY <1>1
    <2> QED BY <1>2, <1>4, <2>1
  <1>7. CASE ~part.isFile
    <2>1. all = front
      <3>1. all = front \o <<>>
        BY <1>3, <1>7
      <3> QED BY <1>4, <3>1, ConcatEmptySeq
    <2> QED BY <1>4, <1>6, <1>7, <2>1 DEF HeaderHas, C, a, c, first, all
  <1>8. CASE part.isFile
    <2>0. all = front \o back
      BY <1>3, <1>8
    <2>1. /\ all \in Seq(C) /\ Len(all) = (a + 7) + (c + 6)
          /\ \A i \in 1..a + 7 : all[i] = front[i]
          /\ \A i \in 1..c + 6 : all[a + 7 + i] = back[i]
      <3>1. /\ all \in Seq(C) /\ Len(all) = Len(front) + Len(back)
            /\ \A i \in 1..Len(front) : all[i] = front[i]
            /\ \A i \in 1..Len(back) : all[Len(front) + i] = back[i]
        <4>1. front \in Seq(C) /\ back \in Seq(C)
          BY <1>4, <1>5
        <4> QED BY <2>0, <4>1, ConcatAt
      <3>2. Len(front) = a + 7 /\ Len(back) = c + 6
        BY <1>1, <1>5, <1>6
      <3> QED BY <3>1, <3>2
    <2>2. Len(all) = a + c + 13
      BY <1>1, <2>1
    <2>5. all[1] = FormData /\ all[2] = Semicolon /\ all[3] = Space
      <3>1. 1 \in 1..a + 7 /\ 2 \in 1..a + 7 /\ 3 \in 1..a + 7
        BY <1>1
      <3> QED BY <1>6, <2>1, <3>1
    <2>6. \A i \in 1..a + 4 : all[3 + i] = first[i]
      <3>1. \A i \in 1..a + 4 : 3 + i \in 1..a + 7
        BY <1>1
      <3> QED BY <1>4, <2>1, <3>1
    <2>7. all[a + 8] = Semicolon /\ all[a + 9] = Space
      <3>1. 1 \in 1..c + 6 /\ 2 \in 1..c + 6 /\ a + 7 + 1 = a + 8 /\ a + 7 + 2 = a + 9
            /\ 1 \in 1..2 /\ 2 \in 1..2
        BY <1>1
      <3>2. back[1] = gap[1] /\ back[2] = gap[2]
        BY <1>5, <3>1
      <3>3. all[a + 7 + 1] = back[1] /\ all[a + 7 + 2] = back[2]
        BY <2>1, <3>1
      <3> QED BY <1>2, <3>1, <3>2, <3>3
    <2>8. \A i \in 1..c + 4 : all[a + 9 + i] = second[i]
      <3> SUFFICES ASSUME NEW i \in 1..c + 4 PROVE all[a + 9 + i] = second[i]
        OBVIOUS
      <3>1. 2 + i \in 1..c + 6 /\ a + 7 + (2 + i) = a + 9 + i
        BY <1>1
      <3>2. back[2 + i] = second[i]
        BY <1>5
      <3>3. all[a + 7 + (2 + i)] = back[2 + i]
        BY <2>1, <3>1
      <3> QED BY <3>1, <3>2, <3>3
    <2> QED BY <1>8, <2>1, <2>2, <2>5, <2>6, <2>7, <2>8 DEF HeaderHas, C, a, c, first, second, all
  <1> QED BY <1>7, <1>8, PartTyped
-----------------------------------------------------------------------------
(* Its pairs. *)

\* What is left behind a delimiter and the space after it.
LEMMA LeftBehind ==
  ASSUME NEW text \in Seq(Int), NEW i \in Nat, i >= 1, i + 2 <= Len(text),
         text[i + 1] = Space, text[i + 2] # Space
  PROVE  LET left == TrimLeft(From(text, i + 1)) IN
         /\ left \in Seq(Int) /\ Len(left) = Len(text) - i - 1
         /\ \A k \in 1..Len(text) - i - 1 : left[k] = text[i + 1 + k]
  <1> DEFINE n == Len(text)
             rest == From(text, i + 1)
             m == n - i
             left == TrimLeft(rest)
  <1>1. n \in Nat /\ m \in Nat /\ m >= 2 /\ i + 1 \in Int /\ i + 1 >= 1 /\ i + 1 <= n + 1
        /\ n - (i + 1) + 1 = m /\ i + 1 # NPos
    BY LenProperties DEF NPos
  <1>2. rest = SubSeq(text, i + 1, n)
    BY <1>1 DEF From
  <1>3. rest \in Seq(Int) /\ Len(rest) = m /\ \A k \in 1..m : rest[k] = text[i + k]
    <2> DEFINE from == i + 1
    <2>1. from \in Int /\ from >= 1 /\ from <= n + 1 /\ n \in Int /\ n <= Len(text)
          /\ n - from + 1 = m /\ \A k \in 1..m : from + k - 1 = i + k
      BY <1>1
    <2>2. rest = SubSeq(text, from, n)
      BY <1>2
    <2> HIDE DEF from, rest, n, m
    <2>3. /\ rest \in Seq(Int) /\ Len(rest) = n - from + 1
          /\ \A k \in 1..n - from + 1 : rest[k] = text[from + k - 1]
      BY <2>1, <2>2, PieceAt
    <2> QED BY <2>1, <2>3
  <1> HIDE DEF rest
  <1>4. rest[1] = Space /\ rest[2] # Space
    <2>1. 1 \in 1..m /\ 2 \in 1..m
      BY <1>1
    <2>2. rest[1] = text[i + 1] /\ rest[2] = text[i + 2]
      BY <1>3, <2>1
    <2> QED BY <2>2
  <1>5. left = SubSeq(rest, 2, m)
    <2>1. 2 \in 1..Len(rest) /\ \A k \in 1..2 - 1 : rest[k] = Space
      <3>1. \A k \in 1..2 - 1 : k = 1
        OBVIOUS
      <3> QED BY <1>1, <1>3, <1>4, <3>1
    <2> HIDE DEF m
    <2>2. left = SubSeq(rest, 2, Len(rest))
      BY <1>3, <1>4, <2>1, TrimLeftIs
    <2> QED BY <1>3, <2>2
  <1>6. left \in Seq(Int) /\ Len(left) = m - 1 /\ \A k \in 1..m - 1 : left[k] = text[i + 1 + k]
    <2>1. m \in Int /\ 2 <= m + 1 /\ m - 2 + 1 = m - 1 /\ m <= Len(rest)
          /\ \A k \in 1..m - 1 : 2 + k - 1 \in 1..m /\ i + (2 + k - 1) = i + 1 + k
      BY <1>1, <1>3
    <2> HIDE DEF m, left
    <2>2. /\ left \in Seq(Int) /\ Len(left) = m - 2 + 1
          /\ \A k \in 1..m - 2 + 1 : left[k] = rest[2 + k - 1]
      BY <1>3, <1>5, <2>1, PieceAt
    <2> QED BY <1>3, <2>1, <2>2
  <1>7. m - 1 = n - i - 1
    BY <1>1
  <1> HIDE DEF left, m
  <1> QED BY <1>6, <1>7 DEF left, rest, n

\* The greatest of one number.
LEMMA MaxOne ==
  ASSUME NEW x \in Int
  PROVE  Max({x}) = x
  <1> DEFINE one == {x}
  <1>1. one \subseteq Int /\ x \in one /\ \A y \in one : x >= y
    OBVIOUS
  <1> HIDE DEF one
  <1>2. Max(one) \in one
    BY <1>1, MaxIsGreatest
  <1> QED BY <1>2 DEF one

\* What is left behind the first delimiter of a header begins with the name, and what is
\* left behind the second one is the file name.
LEMMA NamesLeft ==
  ASSUME NEW part \in WrittenParts, NEW text, HeaderHas(text, part)
  PROVE  /\ NextKeyValue(TrimLeft(From(text, 2 + 1))) = <<<<NameWord>>, part.name>>
         /\ TrimLeft(From(text, 2 + 1)) # <<>>
         /\ part.isFile =>
              /\ NextKeyValue(TrimLeft(From(text, Len(part.name) + 8 + 1)))
                   = <<<<FilenameWord>>, part.fileName>>
              /\ TrimLeft(From(text, Len(part.name) + 8 + 1)) # <<>>
  <1> DEFINE a == Len(part.name)
             c == Len(part.fileName)
             first == Quoted(NameWord, part.name)
             second == Quoted(FilenameWord, part.fileName)
             n == Len(text)
  <1>1. /\ text \in Seq(HeaderChars)
        /\ text[1] = FormData /\ text[2] = Semicolon /\ text[3] = Space
        /\ \A i \in 1..a + 4 : text[3 + i] = first[i]
        /\ ~part.isFile => n = a + 7
        /\ part.isFile =>
             /\ n = a + c + 13
             /\ text[a + 8] = Semicolon /\ text[a + 9] = Space
             /\ \A i \in 1..c + 4 : text[a + 9 + i] = second[i]
    BY DEF HeaderHas
  <1>2. a \in Nat /\ c \in Nat /\ n \in Nat /\ text \in Seq(Int)
    <2>1. HeaderChars \subseteq Int
      BY DEF HeaderChars
    <2>2. text \in Seq(Int)
      BY <1>1, <2>1, SubsetSeq
    <2> QED BY <2>2, PartTyped, LenProperties
  <1>3. /\ first[1] = NameWord /\ first[2] = Equals /\ first[3] = Quote
        /\ \A i \in 1..a : first[3 + i] = part.name[i]
        /\ first[a + 4] = Quote
    <2>1. WordAndValue(first, NameWord, part.name)
      BY PartTyped, CodesAre, QuotedIs
    <2> QED BY <2>1 DEF WordAndValue
  <1>4. /\ second[1] = FilenameWord /\ second[2] = Equals /\ second[3] = Quote
        /\ \A i \in 1..c : second[3 + i] = part.fileName[i]
        /\ second[c + 4] = Quote
    <2>1. WordAndValue(second, FilenameWord, part.fileName)
      BY PartTyped, CodesAre, QuotedIs
    <2> QED BY <2>1 DEF WordAndValue
  <1>5. /\ NameWord \in Int \ {Equals, Semicolon} /\ FilenameWord \in Int \ {Equals, Semicolon}
        /\ NameWord # Space /\ FilenameWord # Space
    BY DEF NameWord, FilenameWord, Equals, Semicolon, Space
  <1>6. /\ part.name \in Seq(Int) /\ \A i \in 1..a : part.name[i] \notin {Quote, Semicolon}
        /\ part.fileName \in Seq(Int) /\ \A i \in 1..c : part.fileName[i] \notin {Quote, Semicolon}
    BY PartTyped, CodesAre, ElementOfSeq
  <1> HIDE DEF a, c, first, second, n
  <1>7. /\ NextKeyValue(TrimLeft(From(text, 2 + 1))) = <<<<NameWord>>, part.name>>
        /\ TrimLeft(From(text, 2 + 1)) # <<>>
    <2> DEFINE left == TrimLeft(From(text, 2 + 1))
               m == n - 3
    <2>1. 2 \in Nat /\ 2 >= 1 /\ 2 + 2 <= n /\ 2 + 1 = 3 /\ 2 + 2 = 4 /\ n - 2 - 1 = m
          /\ m \in Nat /\ m >= a + 4
      <3>1. n = a + 7 \/ n = a + c + 13
        BY <1>1
      <3> QED BY <1>2, <3>1
    <2>2. text[2 + 1] = Space /\ text[2 + 2] # Space
      <3>1. 1 \in 1..a + 4 /\ 3 + 1 = 2 + 2
        BY <1>2
      <3>2. text[3 + 1] = NameWord
        BY <1>1, <1>3, <3>1
      <3> QED BY <1>1, <1>5, <3>1, <3>2
    <2>3. /\ left \in Seq(Int) /\ Len(left) = n - 2 - 1
          /\ \A k \in 1..n - 2 - 1 : left[k] = text[2 + 1 + k]
      BY <1>2, <2>1, <2>2, LeftBehind DEF n
    <2> HIDE DEF left, m
    <2>4. \A k \in 1..m : left[k] = text[3 + k]
      BY <2>1, <2>3
    <2>5. \A k \in 1..a + 4 : left[k] = first[k]
      <3>1. \A k \in 1..a + 4 : k \in 1..m
        BY <1>2, <2>1
      <3>2. \A k \in 1..a + 4 : left[k] = text[3 + k]
        BY <2>4, <3>1
      <3>3. \A k \in 1..a + 4 : text[3 + k] = first[k]
        BY <1>1
      <3> QED BY <3>2, <3>3
    <2>6. WordAndValue(left, NameWord, part.name)
      <3>1. left[1] = NameWord /\ left[2] = Equals /\ left[3] = Quote /\ left[a + 4] = Quote
        <4>1. 1 \in 1..a + 4 /\ 2 \in 1..a + 4 /\ 3 \in 1..a + 4 /\ a + 4 \in 1..a + 4
          BY <1>2
        <4> QED BY <1>3, <2>5, <4>1
      <3>2. \A i \in 1..a : left[3 + i] = part.name[i]
        <4>1. \A i \in 1..a : 3 + i \in 1..a + 4
          BY <1>2
        <4> QED BY <1>3, <2>5, <4>1
      <3>3. Len(left) = m /\ m >= a + 4
        BY <2>1, <2>3
      <3>4. m # a + 4 => left[a + 5] = Semicolon
        <4> SUFFICES ASSUME m # a + 4 PROVE left[a + 5] = Semicolon
          OBVIOUS
        <4>1. part.isFile
          BY <1>1, <1>2, PartTyped DEF m
        <4>2. a + 5 \in 1..m /\ 3 + (a + 5) = a + 8
          BY <1>2, <2>1
        <4> QED BY <1>1, <2>4, <4>1, <4>2
      <3> QED BY <3>1, <3>2, <3>3, <3>4 DEF WordAndValue, a
    <2>7. left # <<>>
      <3>1. Len(left) # 0
        BY <1>2, <2>1, <2>3
      <3> QED BY <3>1
    <2>8. NextKeyValue(left) = <<<<NameWord>>, part.name>>
      <3>1. left \in Seq(Int) /\ NameWord \in Int \ {Equals, Semicolon}
        BY <1>5, <2>3
      <3> QED BY <1>6, <2>6, <3>1, WordPair DEF a
    <2> QED BY <2>7, <2>8 DEF left
  <1>8. ASSUME part.isFile
        PROVE  /\ NextKeyValue(TrimLeft(From(text, a + 8 + 1)))
                    = <<<<FilenameWord>>, part.fileName>>
               /\ TrimLeft(From(text, a + 8 + 1)) # <<>>
    <2> DEFINE left == TrimLeft(From(text, a + 8 + 1))
               j == a + 8
               m == c + 4
    <2>0. /\ n = a + c + 13 /\ text[a + 8] = Semicolon /\ text[a + 9] = Space
          /\ \A i \in 1..c + 4 : text[a + 9 + i] = second[i]
      BY <1>1, <1>8
    <2>1. j \in Nat /\ j >= 1 /\ j + 2 <= n /\ j + 1 = a + 9 /\ n - j - 1 = m /\ m \in Nat
          /\ \A k \in 1..m : j + 1 + k = a + 9 + k
      BY <1>2, <2>0
    <2>2. text[j + 1] = Space /\ text[j + 2] # Space
      <3>1. 1 \in 1..c + 4 /\ a + 9 + 1 = j + 2
        BY <1>2
      <3>2. text[a + 9 + 1] = FilenameWord
        BY <1>4, <2>0, <3>1
      <3> QED BY <1>5, <2>0, <2>1, <3>1, <3>2
    <2> HIDE DEF j
    <2>a. left = TrimLeft(From(text, j + 1))
      BY DEF j
    <2> HIDE DEF m, left
    <2>3. /\ left \in Seq(Int) /\ Len(left) = n - j - 1
          /\ \A k \in 1..n - j - 1 : left[k] = text[j + 1 + k]
      BY <1>2, <2>a, <2>1, <2>2, LeftBehind DEF n
    <2>4. Len(left) = m /\ \A k \in 1..m : left[k] = second[k]
      BY <2>0, <2>1, <2>3 DEF m
    <2>6. WordAndValue(left, FilenameWord, part.fileName)
      <3>1. left[1] = FilenameWord /\ left[2] = Equals /\ left[3] = Quote /\ left[c + 4] = Quote
        <4>1. 1 \in 1..m /\ 2 \in 1..m /\ 3 \in 1..m /\ c + 4 \in 1..m
          BY <1>2 DEF m
        <4> QED BY <1>4, <2>4, <4>1
      <3>2. \A i \in 1..c : left[3 + i] = part.fileName[i]
        <4>1. \A i \in 1..c : 3 + i \in 1..m
          BY <1>2 DEF m
        <4> QED BY <1>4, <2>4, <4>1
      <3>3. Len(left) = c + 4 /\ Len(left) >= c + 4
        BY <1>2, <2>4 DEF m
      <3> QED BY <3>1, <3>2, <3>3 DEF WordAndValue, c
    <2>7. left # <<>>
      <3>1. Len(left) # 0
        BY <1>2, <2>4 DEF m
      <3> QED BY <3>1
    <2>8. NextKeyValue(left) = <<<<FilenameWord>>, part.fileName>>
      <3>1. left \in Seq(Int) /\ FilenameWord \in Int \ {Equals, Semicolon}
        BY <1>5, <2>3
      <3> QED BY <1>6, <2>6, <3>1, WordPair DEF c
    <2> QED BY <2>7, <2>8 DEF left
  <1> QED BY <1>7, <1>8 DEF a

\* The pairs of a header are the name and for a file its file name.
LEMMA HeaderPairs ==
  ASSUME NEW part \in WrittenParts, NEW text, HeaderHas(text, part)
  PROVE  LET pairs == ParseKeyValuePairs(text) IN
         /\ <<NameWord>> \in DOMAIN pairs /\ pairs[<<NameWord>>] = part.name
         /\ <<FilenameWord>> \in DOMAIN pairs <=> part.isFile
         /\ part.isFile => pairs[<<FilenameWord>>] = part.fileName
  <1> DEFINE a == Len(part.name)
             c == Len(part.fileName)
             n == Len(text)
             first == KeyValue(text, Find(text, <<Semicolon>>))
             cuts == Cuts(text, Semicolon)
             left(i) == TrimLeft(From(text, i + 1))
             turns == {i \in IF cuts = {} THEN {0} ELSE cuts : left(i) # <<>>}
             At(key) == {i \in turns : NextKeyValue(left(i))[1] = key}
             keys == {first[1]} \cup {NextKeyValue(left(i))[1] : i \in turns}
             pairs == ParseKeyValuePairs(text)
  <1>1. pairs = [key \in keys |->
                   IF At(key) = {} THEN first[2] ELSE NextKeyValue(left(Max(At(key))))[2]]
    BY Zenon DEF ParseKeyValuePairs
  <1> HIDE DEF pairs
  <1>2. /\ text \in Seq(HeaderChars) /\ text \in Seq(Int) /\ a \in Nat /\ c \in Nat /\ n \in Nat
        /\ DOMAIN text = 1..n
    <2>1. HeaderChars \subseteq Int
      BY DEF HeaderChars
    <2>2. text \in Seq(Int) /\ text \in Seq(HeaderChars)
      BY <2>1, SubsetSeq DEF HeaderHas
    <2> QED BY <2>2, PartTyped, LenProperties
  <1>3. /\ text[1] = FormData /\ text[2] = Semicolon /\ text[3] = Space
        /\ \A i \in 1..a + 4 : text[3 + i] = Quoted(NameWord, part.name)[i]
        /\ ~part.isFile => n = a + 7
        /\ part.isFile =>
             /\ n = a + c + 13
             /\ text[a + 8] = Semicolon /\ text[a + 9] = Space
             /\ \A i \in 1..c + 4 : text[a + 9 + i] = Quoted(FilenameWord, part.fileName)[i]
    BY DEF HeaderHas
  <1> HIDE DEF a, c, n
  <1>a. a \in Nat /\ c \in Nat /\ n \in Nat
    BY <1>2
  <1>b. n = a + 7 \/ n = a + c + 13
    BY <1>3
  <1>4. first[1] = <<FormData>>
    <2>1. Find(text, <<Semicolon>>) = 2
      <3>1. 2 \in 1..n /\ \A i \in 1..2 - 1 : i = 1
        BY <1>a, <1>b
      <3>2. Semicolon \in Int /\ FormData # Semicolon
        BY DEF Semicolon, FormData
      <3>3. \A i \in 1..2 - 1 : text[i] # Semicolon
        BY <1>3, <3>1, <3>2
      <3> QED BY <1>2, <1>3, <3>1, <3>2, <3>3, FindCode DEF n
    <2>2. Before(text, 2) = <<FormData>>
      <3>1. Before(text, 2) = SubSeq(text, 1, 1)
        BY DEF Before, NPos
      <3> DEFINE one == <<FormData>>
      <3>2. one \in Seq(Int) /\ Len(one) = 1 /\ one[1] = FormData
        BY DEF FormData
      <3> HIDE DEF one
      <3>3. one \in Seq(Int) /\ Len(one) = 1 - 1 + 1 /\ \A k \in 1..Len(one) : one[k] = text[1 + k - 1]
        BY <1>3, <3>2
      <3>4. 1 <= n
        BY <1>a, <1>b
      <3>5. SubSeq(text, 1, 1) = one
        BY <1>2, <3>3, <3>4, PieceIs DEF n
      <3> QED BY <3>1, <3>5 DEF one
    <2>3. ~(Find(text, <<Equals>>) # NPos /\ Find(text, <<Equals>>) < 2)
      <3>1. /\ <<Equals>> \in Seq(Int) /\ Len(<<Equals>>) = 1 /\ <<Equals>>[1] = Equals
            /\ FormData # Equals
        BY DEF Equals, FormData
      <3> DEFINE eq == Find(text, <<Equals>>)
      <3>2. FindsNone(text, <<Equals>>) \/ FindsAt(text, <<Equals>>, eq)
        BY <1>2, <3>1, FindIs
      <3>3. FindsNone(text, <<Equals>>) => eq = NPos
        BY <1>2, <3>1, FindIs
      <3>4. FindsAt(text, <<Equals>>, eq) => eq \in Int /\ eq >= 1 /\ text[eq + 1 - 1] = Equals
        <4>1. 1 \in 1..Len(<<Equals>>)
          BY <3>1
        <4> HIDE DEF eq
        <4>2. FindsAt(text, <<Equals>>, eq) => eq \in Int /\ eq >= 1
          BY <1>2, <3>1 DEF FindsAt, n
        <4>3. FindsAt(text, <<Equals>>, eq) => text[eq + 1 - 1] = Equals
          BY <3>1, <4>1 DEF FindsAt, Matches
        <4> QED BY <4>2, <4>3
      <3>5. FindsAt(text, <<Equals>>, eq) => ~(eq < 2)
        <4> SUFFICES ASSUME FindsAt(text, <<Equals>>, eq), eq < 2 PROVE FALSE
          BY <3>4
        <4> HIDE DEF eq
        <4>1. eq + 1 - 1 = 1
          BY <3>4
        <4>2. text[1] = Equals
          BY <3>4, <4>1
        <4> QED BY <1>3, <3>1, <4>2
      <3> QED BY <3>2, <3>3, <3>5
    <2>4. KeyValue(text, 2) = <<Before(text, 2), <<>>>>
      <3>1. ~(Find(text, <<Equals>>) # NPos /\ (2 = NPos \/ Find(text, <<Equals>>) < 2))
        BY <2>3 DEF NPos
      <3> QED BY <3>1, Zenon DEF KeyValue
    <2> QED BY <2>1, <2>2, <2>4
  <1>5. cuts = IF part.isFile THEN {2, a + 8} ELSE {2}
    <2>1. \A i \in 1..a + 4 : text[3 + i] # Semicolon
      <3>1. WordAndValue(Quoted(NameWord, part.name), NameWord, part.name)
        BY PartTyped, CodesAre, QuotedIs
      <3>2. \A i \in 1..a : part.name[i] # Semicolon
        BY PartTyped, CodesAre, ElementOfSeq DEF a, c
      <3>3. NameWord # Semicolon /\ Equals # Semicolon /\ Quote # Semicolon
        BY DEF NameWord, Equals, Semicolon, Quote
      <3> DEFINE q == Quoted(NameWord, part.name)
      <3>4. /\ q[1] = NameWord /\ q[2] = Equals /\ q[3] = Quote
            /\ (\A i \in 1..a : q[3 + i] = part.name[i]) /\ q[a + 4] = Quote
        BY <3>1 DEF WordAndValue, a, c
      <3>5. \A i \in 1..a + 4 : text[3 + i] = q[i]
        BY <1>3
      <3> HIDE DEF q
      <3> SUFFICES ASSUME NEW i \in 1..a + 4 PROVE q[i] # Semicolon
        BY <3>5
      <3>6. i = 1 \/ i = 2 \/ i = 3 \/ i = a + 4 \/ (i - 3 \in 1..a /\ 3 + (i - 3) = i)
        BY <1>2
      <3>7. i - 3 \in 1..a /\ 3 + (i - 3) = i => q[i] # Semicolon
        BY <3>2, <3>4
      <3> QED BY <3>3, <3>4, <3>6, <3>7
    <2>2. part.isFile => \A i \in 1..c + 4 : text[a + 9 + i] # Semicolon
      <3>1. WordAndValue(Quoted(FilenameWord, part.fileName), FilenameWord, part.fileName)
        BY PartTyped, CodesAre, QuotedIs
      <3>2. \A i \in 1..c : part.fileName[i] # Semicolon
        BY PartTyped, CodesAre, ElementOfSeq DEF a, c
      <3>3. FilenameWord # Semicolon /\ Equals # Semicolon /\ Quote # Semicolon
        BY DEF FilenameWord, Equals, Semicolon, Quote
      <3> DEFINE q == Quoted(FilenameWord, part.fileName)
      <3>4. /\ q[1] = FilenameWord /\ q[2] = Equals /\ q[3] = Quote
            /\ (\A i \in 1..c : q[3 + i] = part.fileName[i]) /\ q[c + 4] = Quote
        BY <3>1 DEF WordAndValue, a, c
      <3>5. part.isFile => \A i \in 1..c + 4 : text[a + 9 + i] = q[i]
        BY <1>3
      <3> HIDE DEF q
      <3> SUFFICES ASSUME part.isFile, NEW i \in 1..c + 4 PROVE q[i] # Semicolon
        BY <3>5
      <3>6. i = 1 \/ i = 2 \/ i = 3 \/ i = c + 4 \/ (i - 3 \in 1..c /\ 3 + (i - 3) = i)
        BY <1>2
      <3>7. i - 3 \in 1..c /\ 3 + (i - 3) = i => q[i] # Semicolon
        BY <3>2, <3>4
      <3> QED BY <3>3, <3>4, <3>6, <3>7
    <2>3. FormData # Semicolon /\ Space # Semicolon
      BY DEF FormData, Space, Semicolon
    <2>4. \A i \in 1..a + 7 : text[i] = Semicolon <=> i = 2
      <3> SUFFICES ASSUME NEW i \in 1..a + 7 PROVE text[i] = Semicolon <=> i = 2
        OBVIOUS
      <3>1. i = 1 \/ i = 2 \/ i = 3 \/ (i - 3 \in 1..a + 4 /\ 3 + (i - 3) = i)
        BY <1>2
      <3>2. i - 3 \in 1..a + 4 /\ 3 + (i - 3) = i => text[i] # Semicolon
        BY <2>1
      <3>3. text[1] # Semicolon /\ text[2] = Semicolon /\ text[3] # Semicolon
        BY <1>3, <2>3
      <3> QED BY <3>1, <3>2, <3>3
    <2>5. CASE ~part.isFile
      <3>0. n = a + 7
        BY <1>3, <2>5
      <3>1. n = a + 7 /\ 2 \in 1..n
        BY <1>a, <3>0
      <3>2. cuts = {2}
        BY <1>2, <2>4, <3>1 DEF Cuts
      <3> QED BY <2>5, <3>2
    <2>6. CASE part.isFile
      <3>1. n = a + c + 13 /\ text[a + 8] = Semicolon /\ text[a + 9] = Space
        BY <1>3, <2>6
      <3>2. \A i \in 1..n : text[i] = Semicolon <=> (i = 2 \/ i = a + 8)
        <4> SUFFICES ASSUME NEW i \in 1..n PROVE text[i] = Semicolon <=> (i = 2 \/ i = a + 8)
          OBVIOUS
        <4>1. \/ i \in 1..a + 7 /\ i # a + 8
              \/ i = a + 8
              \/ i = a + 9 /\ i # 2 /\ i # a + 8
              \/ i - (a + 9) \in 1..c + 4 /\ a + 9 + (i - (a + 9)) = i /\ i # 2 /\ i # a + 8
          <5>1. n = a + c + 13
            BY <3>1
          <5> QED BY <1>a, <5>1
        <4>2. i - (a + 9) \in 1..c + 4 /\ a + 9 + (i - (a + 9)) = i => text[i] # Semicolon
          BY <2>2, <2>6
        <4>3. i \in 1..a + 7 => (text[i] = Semicolon <=> i = 2)
          BY <2>4
        <4> QED BY <2>3, <3>1, <4>1, <4>2, <4>3
      <3>3. 2 \in 1..n /\ a + 8 \in 1..n
        <4>1. n = a + c + 13
          BY <3>1
        <4> QED BY <1>a, <4>1
      <3>4. cuts = {2, a + 8}
        BY <1>2, <3>2, <3>3 DEF Cuts
      <3> QED BY <2>6, <3>4
    <2> QED BY <2>5, <2>6
  <1>6. /\ NextKeyValue(left(2)) = <<<<NameWord>>, part.name>> /\ left(2) # <<>>
        /\ part.isFile => /\ NextKeyValue(left(a + 8)) = <<<<FilenameWord>>, part.fileName>>
                          /\ left(a + 8) # <<>>
    BY NamesLeft DEF a
  <1> DEFINE j == a + 8
             Key(i) == NextKeyValue(left(i))[1]
             Val(i) == NextKeyValue(left(i))[2]
  <1>7. /\ Key(2) = <<NameWord>> /\ Val(2) = part.name
        /\ part.isFile => Key(j) = <<FilenameWord>> /\ Val(j) = part.fileName
    BY <1>6
  <1>8. turns = IF part.isFile THEN {2, j} ELSE {2}
    <2> HIDE DEF cuts
    <2>1. CASE part.isFile
      <3>1. cuts = {2, j} /\ left(2) # <<>> /\ left(j) # <<>>
        BY <1>5, <1>6, <2>1
      <3> HIDE DEF j, left
      <3> QED BY <2>1, <3>1
    <2>2. CASE ~part.isFile
      <3>1. cuts = {2} /\ left(2) # <<>>
        BY <1>5, <1>6, <2>2
      <3> HIDE DEF left
      <3> QED BY <2>2, <3>1
    <2> QED BY <2>1, <2>2
  <1>9. /\ <<NameWord>> # <<FilenameWord>> /\ <<FormData>> # <<FilenameWord>>
    <2>1. <<NameWord>>[1] # <<FilenameWord>>[1] /\ <<FormData>>[1] # <<FilenameWord>>[1]
      BY DEF NameWord, FilenameWord, FormData
    <2> QED BY <2>1
  <1>10. 2 \in Int /\ j \in Int
    BY <1>2
  <1>11. pairs = [key \in keys |-> IF At(key) = {} THEN first[2] ELSE Val(Max(At(key)))]
         /\ keys = {first[1]} \cup {Key(i) : i \in turns}
         /\ \A key : At(key) = {i \in turns : Key(i) = key}
    BY <1>1, Zenon
  <1> HIDE DEF j, Key, Val, left, turns, first, keys, At, cuts
  <1>12. At(<<NameWord>>) = {2} /\ <<NameWord>> \in keys
    BY <1>7, <1>8, <1>9, <1>11
  <1>13. part.isFile => At(<<FilenameWord>>) = {j} /\ <<FilenameWord>> \in keys
    BY <1>7, <1>8, <1>9, <1>11
  <1>14. ~part.isFile => <<FilenameWord>> \notin keys
    BY <1>4, <1>7, <1>8, <1>9, <1>11
  <1>15. DOMAIN pairs = keys /\ pairs[<<NameWord>>] = part.name
    <2>1. Max({2}) = 2
      BY MaxOne
    <2>2. At(<<NameWord>>) # {} /\ Max(At(<<NameWord>>)) = 2
      BY <1>12, <2>1
    <2> QED BY <1>7, <1>11, <1>12, <2>2
  <1>16. part.isFile => pairs[<<FilenameWord>>] = part.fileName
    <2>1. Max({j}) = j
      BY <1>10, MaxOne
    <2>2. part.isFile => At(<<FilenameWord>>) # {} /\ Max(At(<<FilenameWord>>)) = j
      BY <1>13, <2>1
    <2> QED BY <1>7, <1>11, <1>13, <2>2
  <1>17. <<FilenameWord>> \in DOMAIN pairs <=> part.isFile
    BY <1>13, <1>14, <1>15
  <1> QED BY <1>12, <1>15, <1>16, <1>17 DEF pairs
-----------------------------------------------------------------------------
(* What loadHeader makes of it. *)

\* A text is flattened from its characters.
Singles(text) == [i \in DOMAIN text |-> <<text[i]>>]

\* A text as the texts of its codes.
LEMMA SinglesTyped ==
  ASSUME NEW S, NEW text \in Seq(S)
  PROVE  /\ Singles(text) \in Seq(Seq(S)) /\ Len(Singles(text)) = Len(text)
         /\ \A i \in 1..Len(text) : Singles(text)[i] = <<text[i]>>
  <1>1. DOMAIN text = 1..Len(text) /\ Len(text) \in Nat /\ \A i \in 1..Len(text) : text[i] \in S
    BY LenProperties, ElementOfSeq
  <1>2. \A x \in S : <<x>> \in Seq(S)
    OBVIOUS
  <1>3. Singles(text) \in [1..Len(text) -> Seq(S)]
    BY <1>1, <1>2 DEF Singles
  <1> QED BY <1>1, <1>3, FunctionIsSeq DEF Singles

\* Joined they are the text.
LEMMA FlattenSingles ==
  ASSUME NEW S, NEW text \in Seq(S)
  PROVE  FlattenSeq(Singles(text)) = text
  <1> DEFINE Done == {s \in Seq(S) : FlattenSeq(Singles(s)) = s}
  <1>1. <<>> \in Done
    <2>1. Singles(<<>>) \in Seq(Seq(S)) /\ Len(Singles(<<>>)) = 0
      BY EmptySeq, SinglesTyped
    <2>2. Singles(<<>>) = <<>>
      BY <2>1, EmptySeq
    <2> QED BY <2>2, EmptySeq, FlattenEmpty
  <1>2. ASSUME NEW s \in Seq(S), NEW e \in S, s \in Done PROVE Append(s, e) \in Done
    <2> DEFINE grown == Append(s, e)
               a == Singles(s)
               b == Singles(grown)
               one == <<e>>
    <2>1. grown \in Seq(S) /\ Len(grown) = Len(s) + 1 /\ grown[Len(s) + 1] = e
          /\ \A i \in 1..Len(s) : grown[i] = s[i]
      BY AppendProperties
    <2>2. Len(s) \in Nat /\ one \in Seq(S)
      BY LenProperties
    <2>3. /\ a \in Seq(Seq(S)) /\ Len(a) = Len(s) /\ \A i \in 1..Len(s) : a[i] = <<s[i]>>
          /\ b \in Seq(Seq(S)) /\ Len(b) = Len(grown)
          /\ \A i \in 1..Len(grown) : b[i] = <<grown[i]>>
      BY <2>1, SinglesTyped
    <2> HIDE DEF grown, a, b
    <2>4. b = Append(a, one)
      <3> DEFINE T == Seq(S)
      <3>1. /\ Len(s) + 1 \in 1..Len(grown) /\ \A i \in 1..Len(s) : i \in 1..Len(grown)
        BY <2>1, <2>2
      <3>2. b[Len(s) + 1] = one /\ \A i \in 1..Len(s) : b[i] = a[i]
        BY <2>1, <2>3, <3>1
      <3> HIDE DEF one, T
      <3>3. a \in Seq(T) /\ b \in Seq(T) /\ one \in T /\ Len(b) = Len(a) + 1
            /\ b[Len(a) + 1] = one /\ \A i \in 1..Len(a) : b[i] = a[i]
        BY <2>1, <2>2, <2>3, <3>2 DEF T
      <3> QED BY <3>3, AppendIs
    <2>5. FlattenSeq(b) = FlattenSeq(a) \o one
      BY <2>2, <2>3, <2>4, FlattenAppend
    <2>6. FlattenSeq(a) = s
      BY <1>2 DEF a
    <2>7. s \o one = grown
      BY AppendIsConcat DEF grown
    <2> QED BY <2>1, <2>5, <2>6, <2>7 DEF b, grown
  <1> HIDE DEF Done
  <1>3. \A s \in Seq(S) : s \in Done
    BY <1>1, <1>2, SequenceInduction
  <1> QED BY <1>3 DEF Done

\* Without '%' and '+' there is nothing to decode.
LEMMA DecodePlain ==
  ASSUME NEW text \in Seq(NameChars), text # <<>>
  PROVE  DecodeUrl(text) = text /\ text # Thrown
  <1>1. /\ text \in Seq(Int) /\ DOMAIN text = 1..Len(text) /\ Len(text) \in Nat
        /\ \A i \in 1..Len(text) : text[i] \in NameChars /\ text[i] \notin {Percent, Plus, -1}
    BY CodesAre, SubsetSeq, LenProperties, ElementOfSeq
  <1>2. Escapes(text) = {}
    BY <1>1 DEF Escapes
  <1>3. EscapeDigits(text) = {}
    BY <1>2 DEF EscapeDigits
  <1>4. DecodeUrl(text) = FlattenSeq([i \in DOMAIN text |-> DecodedAt(text, i)])
    BY <1>3, Zenon DEF DecodeUrl
  <1>5. [i \in DOMAIN text |-> DecodedAt(text, i)] = Singles(text)
    <2>1. \A i \in DOMAIN text : DecodedAt(text, i) = <<text[i]>>
      BY <1>1, <1>3 DEF DecodedAt
    <2> QED BY <2>1, Zenon DEF Singles
  <1>6. DecodeUrl(text) = text
    BY <1>1, <1>4, <1>5, FlattenSingles
  <1>7. text # Thrown
    <2>1. Len(text) # 0
      BY <1>1, EmptySeq
    <2>2. 1 \in 1..Len(text)
      BY <1>1, <2>1
    <2>3. text[1] # -1
      BY <1>1, <2>2
    <2> QED BY <2>3 DEF Thrown
  <1> QED BY <1>6, <1>7

\* What is known of a part once its header has been read.
Info(part) ==
  [valid |-> TRUE, name |-> part.name, fileName |-> part.fileName, isFileData |-> part.isFile]

\* loadHeader reads what a browser writes, with or without a line end before it.
LEMMA HeaderRead ==
  ASSUME NEW part \in WrittenParts, NEW header,
         \/ Split(header, LineEnd) = <<HeaderText(part)>>
         \/ Split(header, LineEnd) = <<<<>>, HeaderText(part)>>
  PROVE  LoadHeader(header) = Info(part)
  <1> DEFINE text == HeaderText(part)
             lines == Split(header, LineEnd)
             whole == {i \in DOMAIN lines : lines[i] # <<>>}
             disposition == lines[Max(whole)]
             pairs == ParseKeyValuePairs(text)
  <1>1. HeaderHas(text, part)
    BY HeaderLaid
  <1>2. /\ <<NameWord>> \in DOMAIN pairs /\ pairs[<<NameWord>>] = part.name
        /\ <<FilenameWord>> \in DOMAIN pairs <=> part.isFile
        /\ part.isFile => pairs[<<FilenameWord>>] = part.fileName
    BY <1>1, HeaderPairs
  <1>3. text[1] = FormData /\ text # <<>>
    <2>1. text[1] = FormData /\ text \in Seq(HeaderChars)
          /\ (Len(text) = Len(part.name) + 7 \/ Len(text) = Len(part.name) + Len(part.fileName) + 13)
      BY <1>1, PartTyped DEF HeaderHas
    <2>2. Len(part.name) \in Nat /\ Len(part.fileName) \in Nat
      BY PartTyped, LenProperties
    <2> HIDE DEF text
    <2>3. Len(text) # 0
      <3> DEFINE a == Len(part.name)
                 c == Len(part.fileName)
                 n == Len(text)
      <3>1. a \in Nat /\ c \in Nat /\ (n = a + 7 \/ n = a + c + 13)
        BY <2>1, <2>2
      <3> HIDE DEF a, c, n
      <3>2. n # 0
        BY <3>1
      <3> QED BY <3>2 DEF n
    <2> QED BY <2>1, <2>3
  <1> HIDE DEF text
  <1>4. whole # {} /\ disposition = text
    <2>1. \/ DOMAIN lines = {1} /\ lines[1] = text
          \/ DOMAIN lines = {1, 2} /\ lines[1] = <<>> /\ lines[2] = text
      <3>1. /\ DOMAIN <<text>> = {1} /\ <<text>>[1] = text
            /\ DOMAIN <<<<>>, text>> = {1, 2} /\ <<<<>>, text>>[1] = <<>> /\ <<<<>>, text>>[2] = text
        OBVIOUS
      <3>2. lines = <<text>> \/ lines = <<<<>>, text>>
        BY DEF text
      <3> HIDE DEF lines
      <3> QED BY <3>1, <3>2
    <2> HIDE DEF lines
    <2>2. \/ whole = {1} /\ lines[1] = text
          \/ whole = {2} /\ lines[2] = text
      BY <1>3, <2>1
    <2>3. Max({1}) = 1 /\ Max({2}) = 2
      BY MaxOne
    <2> HIDE DEF whole
    <2> QED BY <2>2, <2>3
  <1>5. LoadHeader(header) =
          IF text[1] # FormData \/ <<NameWord>> \notin DOMAIN pairs
          THEN [NoPart EXCEPT !.valid = FALSE]
          ELSE [valid      |-> TRUE,
                name       |-> pairs[<<NameWord>>],
                fileName   |-> IF <<FilenameWord>> \in DOMAIN pairs THEN pairs[<<FilenameWord>>]
                               ELSE <<>>,
                isFileData |-> <<FilenameWord>> \in DOMAIN pairs]
    <2>1. LoadHeader(header) =
            IF whole = {} THEN NoPart
            ELSE IF disposition[1] # FormData
                    \/ <<NameWord>> \notin DOMAIN ParseKeyValuePairs(disposition)
            THEN [NoPart EXCEPT !.valid = FALSE]
            ELSE [valid      |-> TRUE,
                  name       |-> ParseKeyValuePairs(disposition)[<<NameWord>>],
                  fileName   |-> IF <<FilenameWord>> \in DOMAIN ParseKeyValuePairs(disposition)
                                 THEN ParseKeyValuePairs(disposition)[<<FilenameWord>>]
                                 ELSE <<>>,
                  isFileData |-> <<FilenameWord>> \in DOMAIN ParseKeyValuePairs(disposition)]
      BY DEF LoadHeader
    <2> HIDE DEF whole, disposition
    <2> QED BY <1>4, <2>1, Zenon
  <1>6. LoadHeader(header) =
          [valid      |-> TRUE,
           name       |-> pairs[<<NameWord>>],
           fileName   |-> IF <<FilenameWord>> \in DOMAIN pairs THEN pairs[<<FilenameWord>>]
                          ELSE <<>>,
           isFileData |-> <<FilenameWord>> \in DOMAIN pairs]
    BY <1>2, <1>3, <1>5, Zenon
  <1>7. pairs[<<NameWord>>] = part.name
        /\ (IF <<FilenameWord>> \in DOMAIN pairs THEN pairs[<<FilenameWord>>] ELSE <<>>) = part.fileName
    BY <1>2, PartTyped
  <1>8. (<<FilenameWord>> \in DOMAIN pairs) = part.isFile
    <2>1. part.isFile \in BOOLEAN
      BY PartTyped
    <2> DEFINE has == <<FilenameWord>> \in DOMAIN pairs
    <2>2. has <=> part.isFile
      BY <1>2
    <2>3. has \in BOOLEAN
      OBVIOUS
    <2> HIDE DEF has
    <2>4. has = part.isFile
      BY <2>1, <2>2, <2>3
    <2> QED BY <2>4 DEF has
  <1> HIDE DEF pairs
  <1> QED BY <1>6, <1>7, <1>8, Zenon DEF Info

\* The header of a part as it stands in the body.
LEMMA HeaderReads ==
  ASSUME NEW part \in WrittenParts
  PROVE  /\ LoadHeader(HeaderText(part)) = Info(part)
         /\ \A header \in Seq(Int) :
              /\ Len(header) = Len(HeaderText(part)) + 1 /\ header[1] = LineEnd
              /\ \A i \in 1..Len(HeaderText(part)) : header[i + 1] = HeaderText(part)[i]
              => LoadHeader(header) = Info(part)
  <1> DEFINE text == HeaderText(part)
  <1>1. text \in Seq(HeaderChars)
    BY HeaderLaid DEF HeaderHas
  <1> HIDE DEF text
  <1>2. text \in Seq(Int \ {LineEnd}) /\ LineEnd \in Int
    <2>1. HeaderChars \subseteq Int \ {LineEnd} /\ LineEnd \in Int
      BY DEF HeaderChars, LineEnd
    <2> QED BY <1>1, <2>1, SubsetSeq
  <1>3. Split(text, LineEnd) = <<text>>
    BY <1>2, SplitOne
  <1>4. LoadHeader(text) = Info(part)
    BY <1>3, HeaderRead DEF text
  <1>5. ASSUME NEW header \in Seq(Int), Len(header) = Len(text) + 1, header[1] = LineEnd,
               \A i \in 1..Len(text) : header[i + 1] = text[i]
        PROVE  LoadHeader(header) = Info(part)
    <2>1. Split(header, LineEnd) = <<<<>>, text>>
      BY <1>2, <1>5, SplitLeading
    <2> QED BY <2>1, HeaderRead DEF text
  <1> QED BY <1>4, <1>5 DEF text
-----------------------------------------------------------------------------
(* Where the parts are. *)

\* How a part is laid out.
PartLaid(text, part) ==
  LET h == Len(HeaderText(part))
      d == Len(part.data) IN
  /\ text \in Seq(Int) /\ Len(text) = h + d + 6
  /\ text[1] = Dashes /\ text[2] = Boundary /\ text[3] = LineEnd
  /\ \A i \in 1..h : text[3 + i] = HeaderText(part)[i]
  /\ text[h + 4] = LineEnd /\ text[h + 5] = LineEnd
  /\ \A i \in 1..d : text[h + 5 + i] = part.data[i]
  /\ text[h + d + 6] = LineEnd

\* The text of a part, code by code.
LEMMA PartTextLaid ==
  ASSUME NEW part \in WrittenParts
  PROVE  PartLaid(PartText(part), part)
  <1> DEFINE header == HeaderText(part)
             h == Len(header)
             data == part.data
             d == Len(data)
             begin == <<Dashes, Boundary>>
             one == <<LineEnd>>
             mark == <<LineEnd, LineEnd>>
             f1 == begin \o one
             f2 == f1 \o header
             f3 == f2 \o mark
             f4 == f3 \o data
             f5 == f4 \o one
  <1>1. header \in Seq(Int) /\ data \in Seq(Int) /\ h \in Nat /\ d \in Nat
    <2>1. header \in Seq(HeaderChars) /\ HeaderChars \subseteq Int
      BY HeaderLaid DEF HeaderHas, HeaderChars
    <2>2. header \in Seq(Int)
      BY <2>1, SubsetSeq
    <2> QED BY <2>2, PartTyped, LenProperties
  <1>2. PartText(part) = f5
    BY DEF PartText, BoundaryBegin, HeadersEndMark
  <1>3. /\ begin \in Seq(Int) /\ one \in Seq(Int) /\ mark \in Seq(Int)
    BY DEF Dashes, Boundary, LineEnd
  <1>4. /\ Len(begin) = 2 /\ Len(one) = 1 /\ Len(mark) = 2
        /\ begin[1] = Dashes /\ begin[2] = Boundary /\ one[1] = LineEnd
        /\ mark[1] = LineEnd /\ mark[2] = LineEnd
    OBVIOUS
  <1> HIDE DEF header, h, data, d, begin, one, mark
  <1>5. f1 \in Seq(Int) /\ Len(f1) = 3 /\ f1[1] = Dashes /\ f1[2] = Boundary /\ f1[3] = LineEnd
    <2>1. /\ f1 \in Seq(Int) /\ Len(f1) = Len(begin) + Len(one)
          /\ \A i \in 1..Len(begin) : f1[i] = begin[i]
          /\ \A i \in 1..Len(one) : f1[Len(begin) + i] = one[i]
      BY <1>3, ConcatAt
    <2> HIDE DEF f1
    <2>2. 1 \in 1..2 /\ 2 \in 1..2 /\ 1 \in 1..1 /\ 2 + 1 = 3
      OBVIOUS
    <2> QED BY <1>4, <2>1, <2>2
  <1> HIDE DEF f1
  <1>6. /\ f2 \in Seq(Int) /\ Len(f2) = h + 3 /\ \A i \in 1..3 : f2[i] = f1[i]
        /\ \A i \in 1..h : f2[3 + i] = header[i]
    <2>1. /\ f2 \in Seq(Int) /\ Len(f2) = Len(f1) + Len(header)
          /\ \A i \in 1..Len(f1) : f2[i] = f1[i]
          /\ \A i \in 1..Len(header) : f2[Len(f1) + i] = header[i]
      <3>1. f1 \in Seq(Int) /\ header \in Seq(Int)
        BY <1>1, <1>5
      <3> QED BY <3>1, ConcatAt
    <2>2. Len(f1) = 3 /\ Len(header) = h /\ 3 + h = h + 3
      BY <1>1, <1>5 DEF h
    <2> HIDE DEF f2
    <2> QED BY <2>1, <2>2
  <1> HIDE DEF f2
  <1>7. /\ f3 \in Seq(Int) /\ Len(f3) = h + 5 /\ \A i \in 1..h + 3 : f3[i] = f2[i]
        /\ f3[h + 4] = LineEnd /\ f3[h + 5] = LineEnd
    <2>1. /\ f3 \in Seq(Int) /\ Len(f3) = Len(f2) + Len(mark)
          /\ \A i \in 1..Len(f2) : f3[i] = f2[i]
          /\ \A i \in 1..Len(mark) : f3[Len(f2) + i] = mark[i]
      <3>1. f2 \in Seq(Int) /\ mark \in Seq(Int)
        BY <1>3, <1>6
      <3> QED BY <3>1, ConcatAt
    <2>2. Len(f2) = h + 3 /\ Len(mark) = 2 /\ h + 3 + 2 = h + 5 /\ h + 3 + 1 = h + 4
          /\ 1 \in 1..2 /\ 2 \in 1..2
      BY <1>1, <1>4, <1>6
    <2> HIDE DEF f3
    <2>3. f3[h + 3 + 1] = mark[1] /\ f3[h + 3 + 2] = mark[2]
      BY <2>1, <2>2
    <2> QED BY <1>4, <2>1, <2>2, <2>3
  <1> HIDE DEF f3
  <1>8. /\ f4 \in Seq(Int) /\ Len(f4) = h + d + 5 /\ \A i \in 1..h + 5 : f4[i] = f3[i]
        /\ \A i \in 1..d : f4[h + 5 + i] = data[i]
    <2>1. /\ f4 \in Seq(Int) /\ Len(f4) = Len(f3) + Len(data)
          /\ \A i \in 1..Len(f3) : f4[i] = f3[i]
          /\ \A i \in 1..Len(data) : f4[Len(f3) + i] = data[i]
      <3>1. f3 \in Seq(Int) /\ data \in Seq(Int)
        BY <1>1, <1>7
      <3> QED BY <3>1, ConcatAt
    <2>2. Len(f3) = h + 5 /\ Len(data) = d /\ h + 5 + d = h + d + 5
      BY <1>1, <1>7 DEF d
    <2> HIDE DEF f4
    <2> QED BY <2>1, <2>2
  <1> HIDE DEF f4
  <1>9. /\ f5 \in Seq(Int) /\ Len(f5) = h + d + 6 /\ \A i \in 1..h + d + 5 : f5[i] = f4[i]
        /\ f5[h + d + 6] = LineEnd
    <2>1. /\ f5 \in Seq(Int) /\ Len(f5) = Len(f4) + Len(one)
          /\ \A i \in 1..Len(f4) : f5[i] = f4[i]
          /\ \A i \in 1..Len(one) : f5[Len(f4) + i] = one[i]
      <3>1. f4 \in Seq(Int) /\ one \in Seq(Int)
        BY <1>3, <1>8
      <3> QED BY <3>1, ConcatAt
    <2>2. Len(f4) = h + d + 5 /\ Len(one) = 1 /\ h + d + 5 + 1 = h + d + 6 /\ 1 \in 1..1
      BY <1>1, <1>4, <1>8
    <2> HIDE DEF f5
    <2>3. f5[h + d + 5 + 1] = one[1]
      BY <2>1, <2>2
    <2> QED BY <1>4, <2>1, <2>2, <2>3
  <1> HIDE DEF f5
  <1>10. /\ \A i \in 1..h + 3 : f5[i] = f2[i]
         /\ \A i \in 1..h + 5 : f5[i] = f3[i]
    <2>1. /\ \A i \in 1..h + 5 : i \in 1..h + d + 5
          /\ \A i \in 1..h + 3 : i \in 1..h + 5
      BY <1>1
    <2>2. \A i \in 1..h + 5 : f5[i] = f3[i]
      BY <1>8, <1>9, <2>1
    <2> QED BY <1>7, <2>1, <2>2
  <1>11. f5[1] = Dashes /\ f5[2] = Boundary /\ f5[3] = LineEnd
    <2>1. \A i \in 1..3 : i \in 1..h + 3
      BY <1>1
    <2>2. 1 \in 1..3 /\ 2 \in 1..3 /\ 3 \in 1..3
      OBVIOUS
    <2> QED BY <1>5, <1>6, <1>10, <2>1, <2>2
  <1>12. \A i \in 1..h : f5[3 + i] = header[i]
    <2>1. \A i \in 1..h : 3 + i \in 1..h + 3
      BY <1>1
    <2> QED BY <1>6, <1>10, <2>1
  <1>13. f5[h + 4] = LineEnd /\ f5[h + 5] = LineEnd
    <2>1. h + 4 \in 1..h + 5 /\ h + 5 \in 1..h + 5
      BY <1>1
    <2> QED BY <1>7, <1>10, <2>1
  <1>14. \A i \in 1..d : f5[h + 5 + i] = data[i]
    <2>1. \A i \in 1..d : h + 5 + i \in 1..h + d + 5
      BY <1>1
    <2> QED BY <1>8, <1>9, <2>1
  <1> QED BY <1>2, <1>9, <1>11, <1>12, <1>13, <1>14 DEF PartLaid, h, d, header, data

\* What the first k parts make of the body.
PartsText(parts, k) == FlattenSeq([i \in 1..k |-> PartText(parts[i])])

\* A part more.
LEMMA PartsTextNext ==
  ASSUME NEW parts \in Seq(WrittenParts), NEW k \in Nat, k < Len(parts)
  PROVE  /\ PartsText(parts, 0) = <<>>
         /\ PartsText(parts, k) \in Seq(Int) /\ PartsText(parts, k + 1) \in Seq(Int)
         /\ PartsText(parts, k + 1) = PartsText(parts, k) \o PartText(parts[k + 1])
  <1> DEFINE T == Seq(Int)
             a == [i \in 1..k |-> PartText(parts[i])]
             b == [i \in 1..k + 1 |-> PartText(parts[i])]
             last == PartText(parts[k + 1])
  <1>1. \A i \in 1..k + 1 : PartText(parts[i]) \in T
    <2>1. \A i \in 1..k + 1 : i \in 1..Len(parts)
      BY LenProperties
    <2>2. \A i \in 1..k + 1 : parts[i] \in WrittenParts
      BY <2>1, ElementOfSeq
    <2> QED BY <2>2, PartTextLaid DEF PartLaid
  <1>2. /\ a \in Seq(T) /\ Len(a) = k /\ \A i \in 1..k : a[i] = PartText(parts[i])
        /\ b \in Seq(T) /\ Len(b) = k + 1 /\ \A i \in 1..k + 1 : b[i] = PartText(parts[i])
        /\ last \in T
    <2>1. \A i \in 1..k : i \in 1..k + 1
      OBVIOUS
    <2>2. k + 1 \in 1..k + 1 /\ k + 1 \in Nat
      OBVIOUS
    <2> HIDE DEF T
    <2>3. a \in [1..k -> T] /\ b \in [1..k + 1 -> T] /\ last \in T
      BY <1>1, <2>1, <2>2
    <2> QED BY <2>2, <2>3, FunctionIsSeq
  <1> HIDE DEF T, a, b
  <1>3. b = Append(a, last)
    <2>1. \A i \in 1..k : i \in 1..k + 1
      OBVIOUS
    <2>2. k + 1 \in 1..k + 1
      OBVIOUS
    <2> HIDE DEF last
    <2>3. b[k + 1] = last /\ \A i \in 1..k : b[i] = a[i]
      BY <1>2, <2>1, <2>2 DEF last
    <2> QED BY <1>2, <2>3, AppendIs
  <1>4. FlattenSeq(a) \in Seq(Int) /\ FlattenSeq(b) = FlattenSeq(a) \o last
    BY <1>2, <1>3, FlattenAppend DEF T
  <1>5. FlattenSeq(a) \o last \in Seq(Int)
    BY <1>2, <1>4, ConcatProperties DEF T
  <1>6. PartsText(parts, 0) = <<>>
    <2>1. [i \in 1..0 |-> PartText(parts[i])] = <<>>
      <3> DEFINE F(i) == PartText(parts[i])
      <3> HIDE DEF F
      <3>1. [i \in 1..0 |-> F(i)] = <<>>
        OBVIOUS
      <3> QED BY <3>1, Zenon DEF F
    <2> QED BY <2>1, FlattenEmpty DEF PartsText
  <1> QED BY <1>4, <1>5, <1>6 DEF PartsText, a, b

\* A part stays where it is when others follow.
LEMMA PartsTextKept ==
  ASSUME NEW parts \in Seq(WrittenParts), NEW k \in Nat
  PROVE  \A m \in Nat : k <= m /\ m <= Len(parts) =>
           /\ PartsText(parts, k) \in Seq(Int) /\ PartsText(parts, m) \in Seq(Int)
           /\ Len(PartsText(parts, k)) <= Len(PartsText(parts, m))
           /\ \A i \in 1..Len(PartsText(parts, k)) : PartsText(parts, m)[i] = PartsText(parts, k)[i]
  <1> DEFINE P(m) == PartsText(parts, m)
             n == Len(parts)
             Same(m) == /\ P(k) \in Seq(Int) /\ P(m) \in Seq(Int)
                        /\ Len(P(k)) <= Len(P(m))
                        /\ \A i \in 1..Len(P(k)) : P(m)[i] = P(k)[i]
             Done == {m \in Nat : k <= m /\ m <= n => Same(m)}
  <1>1. n \in Nat
    BY LenProperties
  <1>2. \A m \in Nat : m < n => P(m) \in Seq(Int) /\ P(m + 1) \in Seq(Int)
                                /\ P(m + 1) = P(m) \o PartText(parts[m + 1])
    BY PartsTextNext
  <1>3. \A m \in Nat : m < n => PartText(parts[m + 1]) \in Seq(Int)
    <2>1. \A m \in Nat : m < n => m + 1 \in 1..Len(parts)
      BY <1>1
    <2> QED BY <2>1, ElementOfSeq, PartTextLaid DEF PartLaid
  <1>4. P(0) = <<>> /\ P(0) \in Seq(Int)
    <2>1. CASE n = 0
      <3>1. [i \in 1..0 |-> PartText(parts[i])] = <<>>
        <4> DEFINE F(i) == PartText(parts[i])
        <4> HIDE DEF F
        <4>1. [i \in 1..0 |-> F(i)] = <<>>
          OBVIOUS
        <4> QED BY <4>1, Zenon DEF F
      <3> QED BY <3>1, FlattenEmpty, EmptySeq DEF PartsText
    <2>2. CASE n # 0
      <3>1. 0 \in Nat /\ 0 < n
        BY <1>1, <2>2
      <3> QED BY <3>1, PartsTextNext
    <2> QED BY <2>1, <2>2
  <1>5. \A m \in Nat : m <= n => P(m) \in Seq(Int)
    <2> SUFFICES ASSUME NEW m \in Nat, m <= n PROVE P(m) \in Seq(Int)
      OBVIOUS
    <2>1. CASE m = 0
      BY <1>4, <2>1
    <2>2. CASE m # 0
      <3> DEFINE j == m - 1
      <3>1. j \in Nat /\ j < n /\ m = j + 1
        BY <1>1, <2>2
      <3> HIDE DEF P, j
      <3> QED BY <1>2, <3>1
    <2> QED BY <2>1, <2>2
  <1> HIDE DEF P, n
  <1>6. k <= n => Same(k)
    <2>1. k <= n => P(k) \in Seq(Int)
      BY <1>5
    <2>2. k <= n => Len(P(k)) \in Nat
      BY <2>1, LenProperties
    <2> QED BY <2>1, <2>2
  <1>7. ASSUME NEW m \in Nat, m + 1 <= n, k <= m, Same(m) PROVE Same(m + 1)
    <2> DEFINE p == P(m)
               q == PartText(parts[m + 1])
               r == P(m + 1)
    <2>1. p \in Seq(Int) /\ q \in Seq(Int) /\ r = p \o q /\ r \in Seq(Int)
      <3>1. m < n
        BY <1>1, <1>7
      <3> QED BY <1>2, <1>3, <3>1
    <2> HIDE DEF p, q, r
    <2>2. Len(r) = Len(p) + Len(q) /\ \A i \in 1..Len(p) : r[i] = p[i]
      BY <2>1, ConcatAt
    <2>3. Len(p) \in Nat /\ Len(q) \in Nat
      BY <2>1, LenProperties
    <2>4. P(k) \in Seq(Int) /\ Len(P(k)) <= Len(p) /\ \A i \in 1..Len(P(k)) : p[i] = P(k)[i]
      BY <1>7 DEF p
    <2>5. Len(P(k)) \in Nat
      BY <2>4, LenProperties
    <2>6. Len(P(k)) <= Len(r) /\ \A i \in 1..Len(P(k)) : i \in 1..Len(p)
      BY <2>2, <2>3, <2>4, <2>5
    <2>7. \A i \in 1..Len(P(k)) : r[i] = P(k)[i]
      BY <2>2, <2>4, <2>6
    <2> QED BY <2>1, <2>4, <2>6, <2>7 DEF r
  <1> HIDE DEF Same
  <1>8. 0 \in Done
    <2>1. k <= 0 => k = 0
      OBVIOUS
    <2> QED BY <1>6, <2>1
  <1>9. ASSUME NEW m \in Nat, m \in Done PROVE m + 1 \in Done
    <2> SUFFICES ASSUME k <= m + 1, m + 1 <= n PROVE Same(m + 1)
      OBVIOUS
    <2>1. CASE k = m + 1
      BY <1>6, <2>1
    <2>2. CASE k # m + 1
      <3>1. k <= m /\ m <= n
        BY <1>1, <2>2
      <3> QED BY <1>7, <1>9, <3>1
    <2> QED BY <2>1, <2>2
  <1> HIDE DEF Done
  <1>10. \A m \in Nat : m \in Done
    BY <1>8, <1>9, SetInduction
  <1> QED BY <1>10 DEF Done, Same, P, n

\* Where the k-th part begins, and where its data would begin that has an end of the
\* header before it.
BoundaryAt(parts, k) == Len(PartsText(parts, k - 1)) + 1
DataAt(parts, k) == BoundaryAt(parts, k) + 4 + Len(HeaderText(parts[k]))

\* The layout of a body of which the text is.
PartAt(text, parts, k) ==
  LET s == BoundaryAt(parts, k)
      h == Len(HeaderText(parts[k]))
      d == Len(parts[k].data) IN
  /\ BoundaryAt(parts, k + 1) = s + h + d + 6
  /\ text[s] = Dashes /\ text[s + 1] = Boundary /\ text[s + 2] = LineEnd
  /\ \A i \in 1..h : text[s + 2 + i] = HeaderText(parts[k])[i]
  /\ text[s + h + 3] = LineEnd /\ text[s + h + 4] = LineEnd
  /\ \A i \in 1..d : text[s + h + 4 + i] = parts[k].data[i]
  /\ text[s + h + d + 5] = LineEnd

EndAt(text, parts) ==
  LET s == BoundaryAt(parts, Len(parts) + 1) IN
  /\ s \in Nat /\ s >= 1 /\ Len(text) = s + 3
  /\ text[s] = Dashes /\ text[s + 1] = Boundary /\ text[s + 2] = Dashes /\ text[s + 3] = LineEnd

\* The body, part by part.
LEMMA BodyLaid ==
  ASSUME NEW parts \in Seq(WrittenParts), NEW text, text = MultipartText(parts)
  PROVE  /\ text \in Seq(Int) /\ BoundaryAt(parts, 1) = 1 /\ EndAt(text, parts)
         /\ \A k \in 1..Len(parts) :
              /\ BoundaryAt(parts, k) \in Nat /\ BoundaryAt(parts, k) >= 1
              /\ BoundaryAt(parts, k + 1) <= BoundaryAt(parts, Len(parts) + 1)
              /\ PartAt(text, parts, k)
  <1> DEFINE n == Len(parts)
             P(k) == PartsText(parts, k)
             end == <<Dashes, Boundary, Dashes>>
             one == <<LineEnd>>
             front == P(n) \o end
             B(k) == BoundaryAt(parts, k)
  <1>1. n \in Nat /\ DOMAIN parts = 1..n
    BY LenProperties
  <1>2. \A k, m \in Nat : k <= m /\ m <= n =>
           /\ P(k) \in Seq(Int) /\ P(m) \in Seq(Int) /\ Len(P(k)) <= Len(P(m))
           /\ \A i \in 1..Len(P(k)) : P(m)[i] = P(k)[i]
    BY PartsTextKept
  <1>3. text = front \o one
    <2>1. <<Dashes, Boundary>> \o <<Dashes>> = end
      <3> DEFINE a == <<Dashes, Boundary>>
                 b == <<Dashes>>
      <3>1. /\ a \in Seq(Int) /\ b \in Seq(Int) /\ end \in Seq(Int)
            /\ Len(a) = 2 /\ Len(b) = 1 /\ Len(end) = 3
            /\ a[1] = end[1] /\ a[2] = end[2] /\ b[1] = end[3]
        BY DEF Dashes, Boundary
      <3> HIDE DEF a, b, end
      <3>2. /\ Len(end) = Len(a) + Len(b)
            /\ \A i \in 1..Len(a) : end[i] = a[i]
            /\ \A i \in 1..Len(b) : end[Len(a) + i] = b[i]
        BY <3>1
      <3>3. a \o b = end
        BY <3>1, <3>2, ConcatIs
      <3> QED BY <3>3 DEF a, b
    <2> QED BY <1>1, <2>1, Zenon DEF MultipartText, BoundaryEnd, BoundaryBegin, PartsText
  <1>4. P(n) \in Seq(Int) /\ Len(P(n)) \in Nat
    <2>1. n <= n
      BY <1>1
    <2>2. P(n) \in Seq(Int)
      BY <1>1, <1>2, <2>1
    <2> QED BY <2>2, LenProperties
  <1>5. /\ end \in Seq(Int) /\ one \in Seq(Int)
    BY DEF Dashes, Boundary, LineEnd
  <1>6. Len(end) = 3 /\ Len(one) = 1 /\ end[1] = Dashes /\ end[2] = Boundary /\ end[3] = Dashes
        /\ one[1] = LineEnd
    OBVIOUS
  <1>7. /\ text \in Seq(Int) /\ Len(text) = Len(P(n)) + 4
        /\ \A i \in 1..Len(P(n)) : text[i] = P(n)[i]
        /\ text[Len(P(n)) + 1] = Dashes /\ text[Len(P(n)) + 2] = Boundary
        /\ text[Len(P(n)) + 3] = Dashes /\ text[Len(P(n)) + 4] = LineEnd
    <2> DEFINE p == P(n)
               l == Len(p)
    <2> HIDE DEF p, end, one
    <2>1. p \in Seq(Int) /\ l \in Nat
      BY <1>4 DEF p
    <2>2. /\ p \o end \in Seq(Int) /\ Len(p \o end) = l + Len(end)
          /\ \A i \in 1..l : (p \o end)[i] = p[i]
          /\ \A i \in 1..Len(end) : (p \o end)[l + i] = end[i]
      BY <1>5, <2>1, ConcatAt
    <2>a. front = p \o end
      BY DEF p
    <2> HIDE DEF front
    <2>3. /\ text \in Seq(Int) /\ Len(text) = Len(front) + Len(one)
          /\ \A i \in 1..Len(front) : text[i] = front[i]
          /\ \A i \in 1..Len(one) : text[Len(front) + i] = one[i]
      <3>1. front \in Seq(Int) /\ one \in Seq(Int)
        BY <1>5, <2>2, <2>a
      <3>2. /\ front \o one \in Seq(Int) /\ Len(front \o one) = Len(front) + Len(one)
            /\ \A i \in 1..Len(front) : (front \o one)[i] = front[i]
            /\ \A i \in 1..Len(one) : (front \o one)[Len(front) + i] = one[i]
        BY <3>1, ConcatAt
      <3> QED BY <1>3, <3>2, Zenon
    <2> HIDE DEF l
    <2>4. Len(front) = l + 3 /\ Len(text) = l + 4
      <3>1. Len(front) = l + 3
        BY <1>6, <2>2, <2>a
      <3>2. Len(text) = l + 3 + 1
        BY <1>6, <2>3, <3>1
      <3> QED BY <2>1, <3>1, <3>2
    <2>5. \A i \in 1..l + 3 : text[i] = front[i]
      BY <2>3, <2>4
    <2>6. \A i \in 1..l : text[i] = p[i]
      <3>1. \A i \in 1..l : i \in 1..l + 3
        BY <2>1
      <3>2. \A i \in 1..l : front[i] = p[i]
        BY <2>2, <2>a
      <3> QED BY <2>5, <3>1, <3>2
    <2>7. text[l + 1] = Dashes /\ text[l + 2] = Boundary /\ text[l + 3] = Dashes
      <3>1. l + 1 \in 1..l + 3 /\ l + 2 \in 1..l + 3 /\ l + 3 \in 1..l + 3
            /\ 1 \in 1..3 /\ 2 \in 1..3 /\ 3 \in 1..3
        BY <2>1
      <3>2. \A i \in 1..3 : front[l + i] = end[i]
        BY <1>6, <2>2, <2>a
      <3>3. front[l + 1] = end[1] /\ front[l + 2] = end[2] /\ front[l + 3] = end[3]
        BY <3>1, <3>2
      <3> QED BY <1>6, <2>5, <3>1, <3>3
    <2>8. text[l + 4] = LineEnd
      <3>1. 1 \in 1..1 /\ l + 3 + 1 = l + 4
        BY <2>1
      <3>2. \A i \in 1..1 : text[l + 3 + i] = one[i]
        BY <1>6, <2>3, <2>4
      <3>3. text[l + 3 + 1] = one[1]
        BY <3>1, <3>2
      <3> QED BY <1>6, <3>1, <3>3
    <2> QED BY <2>3, <2>4, <2>6, <2>7, <2>8 DEF p, l
  <1> HIDE DEF end, one, front
  <1>8. B(1) = 1
    <2>1. PartsText(parts, 0) = <<>>
      <3>1. [i \in 1..0 |-> PartText(parts[i])] = <<>>
        <4> DEFINE F(i) == PartText(parts[i])
        <4> HIDE DEF F
        <4>1. [i \in 1..0 |-> F(i)] = <<>>
          OBVIOUS
        <4> QED BY <4>1, Zenon DEF F
      <3> QED BY <3>1, FlattenEmpty DEF PartsText
    <2>2. 1 - 1 = 0 /\ Len(<<>>) = 0
      OBVIOUS
    <2>3. Len(PartsText(parts, 1 - 1)) = 0
      BY <2>1, <2>2
    <2> QED BY <2>3 DEF BoundaryAt
  <1>9. \A k \in Nat : B(k + 1) = Len(P(k)) + 1
    <2>1. \A k \in Nat : k + 1 - 1 = k
      OBVIOUS
    <2> QED BY <2>1 DEF BoundaryAt
  <1> HIDE DEF B, n
  <1>10. EndAt(text, parts)
    <2> DEFINE l == Len(P(n))
    <2>1. B(n + 1) = l + 1 /\ l \in Nat
      BY <1>1, <1>4, <1>9
    <2>2. /\ Len(text) = l + 4 /\ text[l + 1] = Dashes /\ text[l + 2] = Boundary
          /\ text[l + 3] = Dashes /\ text[l + 4] = LineEnd
      BY <1>7
    <2> HIDE DEF l
    <2>3. l + 1 + 1 = l + 2 /\ l + 1 + 2 = l + 3 /\ l + 1 + 3 = l + 4 /\ l + 1 \in Nat /\ l + 1 >= 1
      BY <2>1
    <2> QED BY <2>1, <2>2, <2>3 DEF EndAt, B, n
  <1>11. ASSUME NEW k \in 1..n
         PROVE  B(k) \in Nat /\ B(k) >= 1 /\ B(k + 1) <= B(n + 1) /\ PartAt(text, parts, k)
    <2> DEFINE j == k - 1
               p == P(j)
               q == PartText(parts[k])
               r == P(k)
               part == parts[k]
               h == Len(HeaderText(part))
               d == Len(part.data)
    <2>1. j \in Nat /\ k \in Nat /\ j + 1 = k /\ j < n /\ k <= n /\ n <= n
      BY <1>1, <1>11
    <2>2. part \in WrittenParts
      BY <1>11, ElementOfSeq DEF n
    <2>3. PartLaid(q, part)
      BY <2>2, PartTextLaid
    <2>4. h \in Nat /\ d \in Nat
      <3>1. HeaderText(part) \in Seq(HeaderChars)
        BY <2>2, HeaderLaid DEF HeaderHas
      <3> QED BY <2>2, <3>1, PartTyped, LenProperties
    <2>5. p \in Seq(Int) /\ r = p \o q
      BY <2>1, PartsTextNext DEF n
    <2>6. /\ Len(q) = h + d + 6 /\ q \in Seq(Int)
          /\ q[1] = Dashes /\ q[2] = Boundary /\ q[3] = LineEnd
          /\ \A i \in 1..h : q[3 + i] = HeaderText(part)[i]
          /\ q[h + 4] = LineEnd /\ q[h + 5] = LineEnd
          /\ \A i \in 1..d : q[h + 5 + i] = part.data[i]
          /\ q[h + d + 6] = LineEnd
      BY <2>3 DEF PartLaid
    <2>7. Len(r) <= Len(P(n)) /\ \A i \in 1..Len(r) : P(n)[i] = r[i]
      BY <1>1, <1>2, <2>1
    <2>8. B(k) = Len(p) + 1 /\ B(k + 1) = Len(r) + 1 /\ B(n + 1) = Len(P(n)) + 1
      BY <1>1, <1>9, <2>1
    <2> DEFINE l == Len(P(n))
               s == Len(p)
    <2>9. \A i \in 1..l : text[i] = P(n)[i]
      BY <1>7
    <2>a. l \in Nat
      BY <1>4
    <2> HIDE DEF p, q, r, h, d, P
    <2>10. Len(r) = s + Len(q) /\ \A i \in 1..Len(q) : r[s + i] = q[i]
      <3>1. p \in Seq(Int) /\ q \in Seq(Int)
        BY <2>5, <2>6
      <3>2. Len(p \o q) = s + Len(q) /\ \A i \in 1..Len(q) : (p \o q)[s + i] = q[i]
        BY <3>1, ConcatAt
      <3> QED BY <2>5, <3>2, Zenon
    <2>11. s \in Nat
      BY <2>5, LenProperties
    <2> HIDE DEF l, s
    <2>12. Len(r) = s + (h + d + 6) /\ Len(r) <= l
      BY <2>6, <2>7, <2>10 DEF l
    <2>13. \A i \in 1..h + d + 6 : text[s + i] = q[i]
      <3> SUFFICES ASSUME NEW i \in 1..h + d + 6 PROVE text[s + i] = q[i]
        OBVIOUS
      <3>1. s + i \in 1..Len(r) /\ s + i \in 1..l
        BY <2>4, <2>11, <2>12, <2>a
      <3>2. text[s + i] = r[s + i]
        BY <2>7, <2>9, <3>1
      <3> QED BY <2>6, <2>10, <3>2
    <2>14. B(k) = s + 1 /\ B(k + 1) = s + (h + d + 6) + 1
      BY <2>8, <2>12 DEF s
    <2>15. B(k) \in Nat /\ B(k) >= 1 /\ B(k + 1) <= B(n + 1)
      <3>1. B(n + 1) = l + 1
        BY <2>8 DEF l
      <3> QED BY <2>4, <2>11, <2>12, <2>14, <2>a, <3>1
    <2> DEFINE b == B(k)
    <2>16. /\ b = s + 1 /\ B(k + 1) = b + h + d + 6
      BY <2>4, <2>11, <2>14
    <2> HIDE DEF b
    <2>17. text[b] = Dashes /\ text[b + 1] = Boundary /\ text[b + 2] = LineEnd
      <3>1. 1 \in 1..h + d + 6 /\ 2 \in 1..h + d + 6 /\ 3 \in 1..h + d + 6
            /\ b = s + 1 /\ b + 1 = s + 2 /\ b + 2 = s + 3
        BY <2>4, <2>11, <2>16
      <3>2. text[s + 1] = q[1] /\ text[s + 2] = q[2] /\ text[s + 3] = q[3]
        BY <2>13, <3>1
      <3> QED BY <2>6, <3>1, <3>2
    <2>18. \A i \in 1..h : text[b + 2 + i] = HeaderText(part)[i]
      <3> SUFFICES ASSUME NEW i \in 1..h PROVE text[b + 2 + i] = HeaderText(part)[i]
        OBVIOUS
      <3>1. 3 + i \in 1..h + d + 6 /\ b + 2 + i = s + (3 + i)
        BY <2>4, <2>11, <2>16
      <3>2. q[3 + i] = HeaderText(part)[i]
        BY <2>6
      <3> QED BY <2>13, <3>1, <3>2
    <2>19. text[b + h + 3] = LineEnd /\ text[b + h + 4] = LineEnd
      <3>1. h + 4 \in 1..h + d + 6 /\ h + 5 \in 1..h + d + 6
            /\ b + h + 3 = s + (h + 4) /\ b + h + 4 = s + (h + 5)
        BY <2>4, <2>11, <2>16
      <3>2. text[s + (h + 4)] = q[h + 4] /\ text[s + (h + 5)] = q[h + 5]
        BY <2>13, <3>1
      <3> QED BY <2>6, <3>1, <3>2
    <2>20. \A i \in 1..d : text[b + h + 4 + i] = part.data[i]
      <3> SUFFICES ASSUME NEW i \in 1..d PROVE text[b + h + 4 + i] = part.data[i]
        OBVIOUS
      <3>1. h + 5 + i \in 1..h + d + 6 /\ b + h + 4 + i = s + (h + 5 + i)
        BY <2>4, <2>11, <2>16
      <3>2. q[h + 5 + i] = part.data[i]
        BY <2>6
      <3> QED BY <2>13, <3>1, <3>2
    <2>21. text[b + h + d + 5] = LineEnd
      <3>1. h + d + 6 \in 1..h + d + 6 /\ b + h + d + 5 = s + (h + d + 6)
        BY <2>4, <2>11, <2>16
      <3>2. text[s + (h + d + 6)] = q[h + d + 6]
        BY <2>13, <3>1
      <3> QED BY <2>6, <3>1, <3>2
    <2>22. PartAt(text, parts, k)
      BY <2>16, <2>17, <2>18, <2>19, <2>20, <2>21, Zenon DEF PartAt, b, h, d, B
    <2> QED BY <2>15, <2>22
  <1> QED BY <1>7, <1>8, <1>10, <1>11 DEF B, n
-----------------------------------------------------------------------------
(* What is between two boundaries, and what findSequence finds. *)

\* A part in a body: its boundary at s, its data behind h, the next boundary at e.
Segment(text, s, h, e, part) ==
  /\ s \in Nat /\ s >= 1 /\ h \in Nat /\ h > s + 4 /\ e \in Nat /\ e >= h + 2
  /\ h = s + 4 + Len(HeaderText(part)) /\ e = h + Len(part.data) + 2
  /\ text \in Seq(Int) /\ e + 3 <= Len(text)
  /\ text[s] = Dashes /\ text[s + 1] = Boundary /\ text[s + 2] = LineEnd
  /\ text[h - 1] = LineEnd /\ text[h] = LineEnd
  /\ text[e - 1] = LineEnd /\ text[e] = Dashes /\ text[e + 1] = Boundary
  /\ \A i \in 1..Len(HeaderText(part)) : text[s + 2 + i] = HeaderText(part)[i]
  /\ \A i \in 1..Len(part.data) : text[h + i] = part.data[i]
  /\ \A i \in s + 3..h - 2 : text[i] # LineEnd
  /\ \A i \in s + 2..e : text[i] # Boundary

\* A part of the body and the boundary behind it.
LEMMA SegmentIs ==
  ASSUME NEW parts \in Seq(WrittenParts), NEW text, text = MultipartText(parts),
         NEW k \in 1..Len(parts)
  PROVE  LET e == BoundaryAt(parts, k + 1) IN
         /\ Segment(text, BoundaryAt(parts, k), DataAt(parts, k), e, parts[k])
         /\ k < Len(parts) => text[e + 2] = LineEnd
         /\ k = Len(parts) => text[e + 2] = Dashes /\ Len(text) = e + 3
  <1> DEFINE n == Len(parts)
             part == parts[k]
             header == HeaderText(part)
             data == part.data
             l == Len(header)
             d == Len(data)
             s == BoundaryAt(parts, k)
             h == DataAt(parts, k)
             e == BoundaryAt(parts, k + 1)
             last == BoundaryAt(parts, n + 1)
  <1>1. n \in Nat /\ part \in WrittenParts
    BY LenProperties, ElementOfSeq
  <1>2. header \in Seq(HeaderChars) /\ data \in Seq(DataChars) /\ l \in Nat /\ d \in Nat
    <2>1. header \in Seq(HeaderChars) /\ data \in Seq(DataChars)
      BY <1>1, HeaderLaid, PartTyped DEF HeaderHas
    <2> QED BY <2>1, LenProperties
  <1>3. l > 0
    <2>1. Len(header) = Len(part.name) + 7 \/ Len(header) = Len(part.name) + Len(part.fileName) + 13
      BY <1>1, HeaderLaid, PartTyped DEF HeaderHas
    <2>2. Len(part.name) \in Nat /\ Len(part.fileName) \in Nat
      BY <1>1, PartTyped, LenProperties
    <2> DEFINE a == Len(part.name)
               c == Len(part.fileName)
    <2>3. a \in Nat /\ c \in Nat /\ (l = a + 7 \/ l = a + c + 13)
      BY <2>1, <2>2
    <2> HIDE DEF a, c, l
    <2> QED BY <2>3
  <1>4. \A i \in 1..l : header[i] # LineEnd /\ header[i] # Boundary
    <2>1. \A i \in 1..l : header[i] \in HeaderChars
      BY <1>2, ElementOfSeq
    <2> QED BY <2>1 DEF HeaderChars
  <1>5. \A i \in 1..d : data[i] # Boundary
    <2>1. \A i \in 1..d : data[i] \in DataChars
      BY <1>2, ElementOfSeq
    <2> QED BY <2>1 DEF DataChars
  <1>6. LineEnd # Boundary /\ Dashes # Boundary
    BY DEF LineEnd, Boundary, Dashes
  <1>7. /\ text \in Seq(Int) /\ s \in Nat /\ s >= 1 /\ e <= last
        /\ last \in Nat /\ Len(text) = last + 3
        /\ PartAt(text, parts, k)
    BY BodyLaid DEF EndAt
  <1>8. /\ e = s + l + d + 6
        /\ text[s] = Dashes /\ text[s + 1] = Boundary /\ text[s + 2] = LineEnd
        /\ \A i \in 1..l : text[s + 2 + i] = header[i]
        /\ text[s + l + 3] = LineEnd /\ text[s + l + 4] = LineEnd
        /\ \A i \in 1..d : text[s + l + 4 + i] = data[i]
        /\ text[s + l + d + 5] = LineEnd
    BY <1>7 DEF PartAt
  <1>9. h = s + 4 + l
    BY DEF DataAt
  <1>10. /\ text[e] = Dashes /\ text[e + 1] = Boundary
         /\ k < n => text[e + 2] = LineEnd
         /\ k = n => text[e + 2] = Dashes /\ Len(text) = e + 3
    <2>1. CASE k = n
      <3>1. /\ Len(text) = last + 3 /\ text[last] = Dashes /\ text[last + 1] = Boundary
            /\ text[last + 2] = Dashes
        BY BodyLaid DEF EndAt
      <3>2. e = last
        BY <2>1
      <3> HIDE DEF last, e
      <3> QED BY <2>1, <3>1, <3>2
    <2>2. CASE k < n
      <3>1. k + 1 \in 1..n
        BY <1>1, <2>2
      <3>2. PartAt(text, parts, k + 1)
        BY <3>1, BodyLaid
      <3> QED BY <2>2, <3>2 DEF PartAt
    <2> QED BY <1>1, <2>1, <2>2
  <1> HIDE DEF n, part, header, data, l, d, s, h, e, last
  <1>11. /\ h \in Nat /\ h > s + 4 /\ e \in Nat /\ e >= h + 2 /\ e = h + d + 2 /\ e + 3 <= Len(text)
         /\ h - 1 = s + l + 3 /\ h = s + l + 4 /\ e - 1 = s + l + d + 5
    <2> DEFINE m == Len(text)
    <2>1. m = last + 3
      BY <1>7
    <2> HIDE DEF m
    <2>2. h \in Nat /\ h > s + 4 /\ e \in Nat /\ e >= h + 2 /\ e = h + d + 2 /\ e + 3 <= m
          /\ h - 1 = s + l + 3 /\ h = s + l + 4 /\ e - 1 = s + l + d + 5
      <3>1. s \in Nat /\ e <= last /\ last \in Nat /\ e = s + l + d + 6
        BY <1>7, <1>8
      <3> QED BY <1>2, <1>3, <1>9, <2>1, <3>1
    <2> QED BY <2>2 DEF m
  <1>12. text[h - 1] = LineEnd /\ text[h] = LineEnd /\ text[e - 1] = LineEnd
    BY <1>8, <1>11
  <1>13. \A i \in 1..d : text[h + i] = data[i]
    BY <1>8, <1>11
  <1>14. \A i \in s + 3..h - 2 : text[i] # LineEnd /\ text[i] # Boundary
    <2> SUFFICES ASSUME NEW i \in s + 3..h - 2 PROVE text[i] # LineEnd /\ text[i] # Boundary
      OBVIOUS
    <2>0. s \in Nat
      BY <1>7
    <2>1. i - (s + 2) \in 1..l /\ s + 2 + (i - (s + 2)) = i
      BY <1>2, <1>9, <2>0
    <2>2. \A j \in 1..l : text[s + 2 + j] # LineEnd /\ text[s + 2 + j] # Boundary
      BY <1>4, <1>8
    <2> QED BY <2>1, <2>2
  <1>15. \A i \in s + 2..e : text[i] # Boundary
    <2> SUFFICES ASSUME NEW i \in s + 2..e PROVE text[i] # Boundary
      OBVIOUS
    <2>0. s \in Nat
      BY <1>7
    <2>1. \/ i = s + 2 \/ i \in s + 3..h - 2 \/ i = h - 1 \/ i = h
          \/ (i - h \in 1..d /\ h + (i - h) = i) \/ i = e - 1 \/ i = e
      BY <1>2, <1>11, <2>0
    <2>2. i - h \in 1..d /\ h + (i - h) = i => text[i] # Boundary
      BY <1>5, <1>13
    <2>3. text[s + 2] # Boundary /\ text[h - 1] # Boundary /\ text[h] # Boundary
          /\ text[e - 1] # Boundary /\ text[e] # Boundary
      BY <1>6, <1>8, <1>10, <1>12
    <2> QED BY <1>14, <2>1, <2>2, <2>3
  <1>16. Segment(text, s, h, e, part)
    <2>1. /\ text \in Seq(Int) /\ s \in Nat /\ s >= 1
      BY <1>7
    <2>2. /\ text[s] = Dashes /\ text[s + 1] = Boundary /\ text[s + 2] = LineEnd
          /\ \A i \in 1..l : text[s + 2 + i] = header[i]
      BY <1>8
    <2>3. text[e] = Dashes /\ text[e + 1] = Boundary
      BY <1>10
    <2>4. \A i \in s + 3..h - 2 : text[i] # LineEnd
      BY <1>14
    <2> QED BY <1>9, <1>11, <1>12, <1>13, <1>15, <2>1, <2>2, <2>3, <2>4, Zenon
            DEF Segment, l, header, data, d
  <1> QED BY <1>10, <1>16 DEF n, part, s, h, e

\* The longest beginning of seq that the text still has at i is there.
Begins(text, seq, i) ==
  \A k \in 1..Len(seq) : i + k - 1 <= Len(text) => text[i + k - 1] = seq[k]

\* findSequence finds the first place where the sequence begins, even if the text ends in it.
LEMMA FindSequenceIs ==
  ASSUME NEW text \in Seq(Int), NEW seq
  PROVE  /\ (\A i \in 1..Len(text) : ~Begins(text, seq, i)) => FindSequence(text, seq) = NPos
         /\ \A pos \in 1..Len(text) :
              Begins(text, seq, pos) /\ (\A i \in 1..pos - 1 : ~Begins(text, seq, i))
              => FindSequence(text, seq) = pos
         /\ \/ /\ FindSequence(text, seq) = NPos
               /\ \A i \in 1..Len(text) : ~Begins(text, seq, i)
            \/ /\ FindSequence(text, seq) \in 1..Len(text)
               /\ Begins(text, seq, FindSequence(text, seq))
               /\ \A i \in 1..FindSequence(text, seq) - 1 : ~Begins(text, seq, i)
  <1> DEFINE n == Len(text)
             at == {i \in 1..n : Begins(text, seq, i)}
             pos == FindSequence(text, seq)
  <1>1. n \in Nat
    BY LenProperties
  <1>2. pos = IF at = {} THEN NPos ELSE Min(at)
    BY DEF FindSequence, Begins
  <1>3. \A i \in 1..n : i \in at <=> Begins(text, seq, i)
    OBVIOUS
  <1>4. at \subseteq 1..n
    OBVIOUS
  <1> HIDE DEF at, pos, n
  <1>5. at # {} => Min(at) \in at /\ \A i \in at : Min(at) <= i
    <2>1. at \subseteq Int /\ \A i \in at : 1 <= i
      BY <1>1, <1>4
    <2>2. 1 \in Int
      OBVIOUS
    <2> QED BY <2>1, <2>2, MinIsLeast, Zenon
  <1>6. at # {} => /\ pos \in 1..n /\ Begins(text, seq, pos)
                   /\ \A i \in 1..pos - 1 : ~Begins(text, seq, i)
    <2> SUFFICES ASSUME at # {}
                 PROVE  /\ pos \in 1..n /\ Begins(text, seq, pos)
                        /\ \A i \in 1..pos - 1 : ~Begins(text, seq, i)
      OBVIOUS
    <2>1. pos \in at /\ pos \in 1..n /\ \A i \in at : pos <= i
      BY <1>2, <1>4, <1>5
    <2>2. \A i \in 1..pos - 1 : i \in 1..n /\ ~(pos <= i)
      BY <1>1, <2>1
    <2>3. \A i \in 1..pos - 1 : ~Begins(text, seq, i)
      BY <1>3, <2>1, <2>2
    <2> QED BY <1>3, <2>1, <2>3
  <1>7. at = {} => pos = NPos /\ \A i \in 1..n : ~Begins(text, seq, i)
    BY <1>2, <1>3
  <1>8. (\A i \in 1..n : ~Begins(text, seq, i)) => at = {}
    BY <1>3, <1>4
  <1>9. ASSUME NEW p \in 1..n, Begins(text, seq, p), \A i \in 1..p - 1 : ~Begins(text, seq, i)
        PROVE  pos = p
    <2>1. at # {}
      BY <1>3, <1>9
    <2>2. pos \in 1..n /\ Begins(text, seq, pos) /\ \A i \in 1..pos - 1 : ~Begins(text, seq, i)
      BY <1>6, <2>1
    <2>3. ~(pos \in 1..p - 1) /\ ~(p \in 1..pos - 1)
      BY <1>9, <2>2
    <2> QED BY <1>1, <2>2, <2>3
  <1> QED BY <1>6, <1>7, <1>8, <1>9 DEF n, pos
-----------------------------------------------------------------------------
(* A window of the body: what has been read from some position on. *)

\* The marks that the loop looks for.
LEMMA MarksAre ==
  /\ BoundaryBegin \in Seq(Int) /\ Len(BoundaryBegin) = 2
  /\ BoundaryBegin[1] = Dashes /\ BoundaryBegin[2] = Boundary
  /\ HeadersEndMark \in Seq(Int) /\ Len(HeadersEndMark) = 2
  /\ HeadersEndMark[1] = LineEnd /\ HeadersEndMark[2] = LineEnd
  /\ BoundaryWithEndMark \in Seq(Int) /\ Len(BoundaryWithEndMark) = 3
  /\ BoundaryWithEndMark[1] = LineEnd /\ BoundaryWithEndMark[2] = Dashes
  /\ BoundaryWithEndMark[3] = Boundary
  /\ BoundaryEnd \in Seq(Int) /\ Len(BoundaryEnd) = 3
  /\ BoundaryEnd[1] = Dashes /\ BoundaryEnd[2] = Boundary /\ BoundaryEnd[3] = Dashes
  /\ BoundOffset = 3
  /\ LineEnd # Boundary /\ Dashes # Boundary /\ LineEnd # Dashes
  <1>1. LineEnd \in Int /\ Dashes \in Int /\ Boundary \in Int
        /\ LineEnd # Boundary /\ Dashes # Boundary /\ LineEnd # Dashes
    BY DEF LineEnd, Dashes, Boundary
  <1> DEFINE a == <<LineEnd>>
             b == <<Dashes, Boundary>>
             c == <<Dashes>>
             d == <<LineEnd, LineEnd>>
  <1>2. a \in Seq(Int) /\ b \in Seq(Int) /\ c \in Seq(Int) /\ d \in Seq(Int)
    BY <1>1
  <1>3. /\ Len(a) = 1 /\ Len(b) = 2 /\ Len(c) = 1 /\ Len(d) = 2 /\ a[1] = LineEnd /\ c[1] = Dashes
        /\ b[1] = Dashes /\ b[2] = Boundary /\ d[1] = LineEnd /\ d[2] = LineEnd
    OBVIOUS
  <1>4. BoundaryBegin = b /\ HeadersEndMark = d /\ BoundaryWithEndMark = a \o b
        /\ BoundaryEnd = b \o c
    BY DEF BoundaryBegin, HeadersEndMark, BoundaryWithEndMark, BoundaryEnd
  <1> HIDE DEF a, b, c, d
  <1>5. /\ a \o b \in Seq(Int) /\ Len(a \o b) = Len(a) + Len(b)
        /\ \A i \in 1..Len(a) : (a \o b)[i] = a[i]
        /\ \A i \in 1..Len(b) : (a \o b)[Len(a) + i] = b[i]
    BY <1>2, ConcatAt
  <1>6. /\ b \o c \in Seq(Int) /\ Len(b \o c) = Len(b) + Len(c)
        /\ \A i \in 1..Len(b) : (b \o c)[i] = b[i]
        /\ \A i \in 1..Len(c) : (b \o c)[Len(b) + i] = c[i]
    BY <1>2, ConcatAt
  <1> DEFINE ab == a \o b
             bc == b \o c
  <1>7. ab \in Seq(Int) /\ Len(ab) = 3 /\ ab[1] = LineEnd /\ ab[2] = Dashes /\ ab[3] = Boundary
    <2>1. /\ ab \in Seq(Int) /\ Len(ab) = 1 + 2 /\ (\A i \in 1..1 : ab[i] = a[i])
          /\ \A i \in 1..2 : ab[1 + i] = b[i]
      BY <1>3, <1>5
    <2> HIDE DEF ab
    <2>2. 1 \in 1..1 /\ 1 \in 1..2 /\ 2 \in 1..2 /\ 1 + 1 = 2 /\ 1 + 2 = 3
      OBVIOUS
    <2>3. ab[1] = a[1] /\ ab[1 + 1] = b[1] /\ ab[1 + 2] = b[2]
      BY <2>1, <2>2
    <2> QED BY <1>3, <2>1, <2>2, <2>3
  <1>8. bc \in Seq(Int) /\ Len(bc) = 3 /\ bc[1] = Dashes /\ bc[2] = Boundary /\ bc[3] = Dashes
    <2>1. /\ bc \in Seq(Int) /\ Len(bc) = 2 + 1 /\ (\A i \in 1..2 : bc[i] = b[i])
          /\ \A i \in 1..1 : bc[2 + i] = c[i]
      BY <1>3, <1>6
    <2> HIDE DEF bc
    <2>2. 1 \in 1..1 /\ 1 \in 1..2 /\ 2 \in 1..2 /\ 2 + 1 = 3
      OBVIOUS
    <2>3. bc[1] = b[1] /\ bc[2] = b[2] /\ bc[2 + 1] = c[1]
      BY <2>1, <2>2
    <2> QED BY <1>3, <2>1, <2>2, <2>3
  <1>9. BoundOffset = 3
    <2>1. Len(BoundaryBegin) = 2
      BY <1>3, <1>4
    <2> QED BY <2>1 DEF BoundOffset
  <1> HIDE DEF ab, bc
  <1>10. BoundaryWithEndMark = ab /\ BoundaryEnd = bc
    BY <1>4 DEF ab, bc
  <1> QED BY <1>1, <1>2, <1>3, <1>4, <1>7, <1>8, <1>9, <1>10

\* What has been read of a body from behind p to r.
Window(held, text, p, r) ==
  /\ p \in Nat /\ r \in Nat /\ p <= r /\ r <= Len(text)
  /\ held \in Seq(Int) /\ Len(held) = r - p
  /\ \A i \in 1..r - p : held[i] = text[p + i]

\* What has been read from some position.
LEMMA WindowIs ==
  ASSUME NEW text \in Seq(Int), NEW p \in Nat, NEW r \in Nat, p <= r, r <= Len(text)
  PROVE  /\ Window(SubSeq(text, p + 1, r), text, p, r)
         /\ \A held : Window(held, text, p, r) => held = SubSeq(text, p + 1, r)
  <1> DEFINE from == p + 1
             piece == SubSeq(text, from, r)
  <1>1. from \in Int /\ r \in Int /\ from >= 1 /\ from <= r + 1 /\ r - from + 1 = r - p
        /\ \A i \in 1..r - p : from + i - 1 = p + i
    OBVIOUS
  <1> HIDE DEF from
  <1>2. /\ piece \in Seq(Int) /\ Len(piece) = r - from + 1
        /\ \A i \in 1..r - from + 1 : piece[i] = text[from + i - 1]
    BY <1>1, PieceAt
  <1> HIDE DEF piece
  <1>3. Window(piece, text, p, r)
    BY <1>1, <1>2 DEF Window
  <1>4. ASSUME NEW held, Window(held, text, p, r) PROVE held = piece
    <2>1. /\ held \in Seq(Int) /\ Len(held) = r - p /\ \A i \in 1..r - p : held[i] = text[p + i]
          /\ piece \in Seq(Int) /\ Len(piece) = r - p /\ \A i \in 1..r - p : piece[i] = text[p + i]
      BY <1>3, <1>4 DEF Window
    <2> DEFINE n == r - p
    <2> HIDE DEF n
    <2>2. Len(held) = Len(piece) /\ \A i \in 1..Len(held) : held[i] = piece[i]
      BY <2>1 DEF n
    <2> QED BY <2>1, <2>2, SeqEqual
  <1> QED BY <1>3, <1>4 DEF piece, from

\* What is left of a window behind its first codes, and what is before.
CutsTo(held, text, p, r) ==
  \A i \in Nat : i >= 1 /\ i <= r - p + 1 =>
    /\ SubSeq(held, i, Len(held)) = SubSeq(text, p + i, r)
    /\ Window(SubSeq(held, i, Len(held)), text, p + i - 1, r)
    /\ \A j \in Nat : i <= j + 1 /\ j <= r - p =>
                       SubSeq(held, i, j) = SubSeq(text, p + i, p + j)

\* A window that is cut is one.
LEMMA WindowCut ==
  ASSUME NEW text \in Seq(Int), NEW p \in Nat, NEW r \in Nat,
         NEW held, Window(held, text, p, r)
  PROVE  CutsTo(held, text, p, r)
  <1> SUFFICES ASSUME NEW i \in Nat, i >= 1, i <= r - p + 1
               PROVE  /\ SubSeq(held, i, Len(held)) = SubSeq(text, p + i, r)
                      /\ Window(SubSeq(held, i, Len(held)), text, p + i - 1, r)
                      /\ \A j \in Nat : i <= j + 1 /\ j <= r - p =>
                                         SubSeq(held, i, j) = SubSeq(text, p + i, p + j)
    BY DEF CutsTo
  <1>1. /\ p \in Nat /\ r \in Nat /\ p <= r /\ r <= Len(text)
        /\ held \in Seq(Int) /\ Len(held) = r - p /\ \A k \in 1..r - p : held[k] = text[p + k]
    BY DEF Window
  <1>2. ASSUME NEW j \in Nat, i <= j + 1, j <= r - p
        PROVE  SubSeq(held, i, j) = SubSeq(text, p + i, p + j)
    <2> DEFINE a == SubSeq(held, i, j)
               from == p + i
               last == p + j
               b == SubSeq(text, from, last)
    <2>1. /\ i \in Int /\ j \in Int /\ i >= 1 /\ j <= Len(held) /\ i <= j + 1
      BY <1>1, <1>2
    <2>2. /\ a \in Seq(Int) /\ Len(a) = j - i + 1 /\ \A k \in 1..j - i + 1 : a[k] = held[i + k - 1]
      BY <1>1, <2>1, PieceAt
    <2>3. /\ from \in Int /\ last \in Int /\ from >= 1 /\ last <= Len(text) /\ from <= last + 1
          /\ last - from + 1 = j - i + 1
          /\ \A k \in 1..j - i + 1 : /\ i + k - 1 \in 1..r - p
                                     /\ p + (i + k - 1) = from + k - 1
      <3> DEFINE m == Len(text)
      <3>1. r <= m /\ m \in Nat
        BY <1>1, LenProperties
      <3> HIDE DEF m
      <3>2. last <= m
        BY <1>1, <1>2, <3>1
      <3>3. /\ from \in Int /\ last \in Int /\ from >= 1 /\ from <= last + 1
            /\ last - from + 1 = j - i + 1
            /\ \A k \in 1..j - i + 1 : /\ i + k - 1 \in 1..r - p
                                       /\ p + (i + k - 1) = from + k - 1
        <4>1. p \in Nat /\ r \in Nat
          BY <1>1
        <4> QED BY <1>2, <4>1
      <3> QED BY <3>2, <3>3 DEF m
    <2> HIDE DEF a, from, last
    <2>4. b \in Seq(Int) /\ Len(b) = last - from + 1
          /\ \A k \in 1..last - from + 1 : b[k] = text[from + k - 1]
      BY <2>3, PieceAt
    <2> HIDE DEF b
    <2>5. \A k \in 1..j - i + 1 : a[k] = b[k]
      BY <1>1, <2>2, <2>3, <2>4
    <2>6. a = b
      <3> DEFINE l == j - i + 1
      <3>1. Len(a) = l /\ Len(b) = l /\ \A k \in 1..l : a[k] = b[k]
        BY <2>2, <2>3, <2>4, <2>5
      <3> HIDE DEF l
      <3> QED BY <2>2, <2>4, <3>1, SeqEqual
    <2> QED BY <2>6 DEF a, b, from, last
  <1>3. SubSeq(held, i, Len(held)) = SubSeq(text, p + i, r)
    <2> DEFINE j == Len(held)
    <2>1. j \in Nat /\ i <= j + 1 /\ j <= r - p /\ p + j = r
      BY <1>1
    <2> HIDE DEF j
    <2>2. SubSeq(held, i, j) = SubSeq(text, p + i, p + j)
      BY <1>2, <2>1
    <2> QED BY <2>1, <2>2 DEF j
  <1>4. Window(SubSeq(text, p + i, r), text, p + i - 1, r)
    <2> DEFINE q == p + i - 1
    <2>1. q \in Nat /\ q <= r /\ q + 1 = p + i
      BY <1>1
    <2> HIDE DEF q
    <2>2. Window(SubSeq(text, q + 1, r), text, q, r)
      BY <1>1, <2>1, WindowIs
    <2> QED BY <2>1, <2>2 DEF q
  <1> QED BY <1>2, <1>3, <1>4
-----------------------------------------------------------------------------
(* What is found in a window. *)

\* What a search in a window finds.
LEMMA FoundThere ==
  ASSUME NEW text \in Seq(Int), NEW seq \in Seq(Int), Find(text, seq) # NPos
  PROVE  /\ Find(text, seq) \in 1..Len(text) - Len(seq) + 1
         /\ \A k \in 1..Len(seq) : text[Find(text, seq) + k - 1] = seq[k]
         /\ \A i \in 1..Find(text, seq) - 1 : ~Matches(text, seq, i)
  <1>1. FindsNone(text, seq) => Find(text, seq) = NPos
    BY FindIs
  <1>2. FindsNone(text, seq) \/ FindsAt(text, seq, Find(text, seq))
    BY FindIs
  <1>3. FindsAt(text, seq, Find(text, seq))
    BY <1>1, <1>2
  <1> QED BY <1>3 DEF FindsAt, Matches

\* The boundary behind a part's data is found when all of its beginning has come.
LEMMA BoundarySeen ==
  ASSUME NEW text, NEW s, NEW h, NEW e, NEW part, Segment(text, s, h, e, part),
         NEW held, NEW p, NEW r, Window(held, text, p, r), h <= p, p < e - 1
  PROVE  /\ r >= e + 1 => Find(held, BoundaryBegin) = e - p
         /\ ~(r >= e + 1) => Find(held, BoundaryBegin) = NPos
  <1> DEFINE seq == BoundaryBegin
  <1>1. /\ s \in Nat /\ h \in Nat /\ e \in Nat /\ h > s + 4
        /\ text[e] = Dashes /\ text[e + 1] = Boundary
        /\ \A i \in s + 2..e : text[i] # Boundary
    BY DEF Segment
  <1>2. /\ p \in Nat /\ r \in Nat /\ p <= r /\ held \in Seq(Int) /\ Len(held) = r - p
        /\ \A i \in 1..r - p : held[i] = text[p + i]
    BY DEF Window
  <1>3. seq \in Seq(Int) /\ Len(seq) = 2 /\ seq[1] = Dashes /\ seq[2] = Boundary
    BY MarksAre
  <1> HIDE DEF seq
  <1>4. \A i \in Int : Matches(held, seq, i) <=> (held[i] = Dashes /\ held[i + 1] = Boundary)
    <2>1. \A i \in Int : i + 1 - 1 = i /\ i + 2 - 1 = i + 1
      OBVIOUS
    <2>2. 1..2 = {1, 2}
      OBVIOUS
    <2> QED BY <1>3, <2>1, <2>2 DEF Matches
  <1>5. \A i \in Int : i >= 1 /\ i < e - p /\ i + 1 <= r - p => ~Matches(held, seq, i)
    <2> SUFFICES ASSUME NEW i \in Int, i >= 1, i < e - p, i + 1 <= r - p
                 PROVE  held[i + 1] # Boundary
      BY <1>4
    <2>1. i + 1 \in 1..r - p /\ p + (i + 1) \in s + 2..e
      BY <1>1, <1>2
    <2>2. held[i + 1] = text[p + (i + 1)] /\ text[p + (i + 1)] # Boundary
      BY <1>1, <1>2, <2>1
    <2> QED BY <2>2
  <1> DEFINE pos == e - p
  <1>6. CASE r >= e + 1
    <2>1. pos \in 1..(r - p) - 2 + 1 /\ pos \in 1..r - p /\ pos + 1 \in 1..r - p
          /\ p + pos = e /\ p + (pos + 1) = e + 1
      BY <1>1, <1>2, <1>6
    <2>2. held[pos] = Dashes /\ held[pos + 1] = Boundary
      BY <1>1, <1>2, <2>1
    <2>3. Matches(held, seq, pos)
      BY <1>4, <2>1, <2>2
    <2>4. \A i \in 1..pos - 1 : ~Matches(held, seq, i)
      <3>1. \A i \in 1..pos - 1 : i \in Int /\ i >= 1 /\ i < e - p /\ i + 1 <= r - p
        BY <1>1, <1>2, <2>1
      <3> QED BY <1>5, <3>1
    <2> HIDE DEF pos
    <2>5. FindsAt(held, seq, pos)
      BY <1>2, <1>3, <2>1, <2>3, <2>4 DEF FindsAt
    <2>6. Find(held, seq) = pos
      BY <1>2, <1>3, <2>5, FindIs
    <2> QED BY <1>6, <2>6 DEF seq, pos
  <1>7. CASE ~(r >= e + 1)
    <2>1. \A i \in 1..(r - p) - 2 + 1 : i \in Int /\ i >= 1 /\ i < e - p /\ i + 1 <= r - p
      BY <1>1, <1>2, <1>7
    <2>2. FindsNone(held, seq)
      BY <1>2, <1>3, <1>5, <2>1 DEF FindsNone
    <2>3. Find(held, seq) = NPos
      BY <1>2, <1>3, <2>2, FindIs
    <2> QED BY <1>7, <2>3 DEF seq
  <1> QED BY <1>6, <1>7

\* A boundary that a window begins with is found there.
LEMMA BoundaryFirst ==
  ASSUME NEW text, NEW s, s \in Nat, text[s] = Dashes, text[s + 1] = Boundary,
         NEW held, NEW p, NEW r, Window(held, text, p, r), p + 1 = s
  PROVE  /\ Len(held) >= 2 => Find(held, BoundaryBegin) = 1
         /\ Len(held) < 2 => Find(held, BoundaryBegin) = NPos
  <1> DEFINE seq == BoundaryBegin
  <1>2. /\ p \in Nat /\ r \in Nat /\ p <= r /\ held \in Seq(Int) /\ Len(held) = r - p
        /\ \A i \in 1..r - p : held[i] = text[p + i]
    BY DEF Window
  <1>3. seq \in Seq(Int) /\ Len(seq) = 2 /\ seq[1] = Dashes /\ seq[2] = Boundary
    BY MarksAre
  <1> HIDE DEF seq
  <1>4. CASE Len(held) >= 2
    <2>1. 1 \in 1..r - p /\ 2 \in 1..r - p /\ p + 2 = s + 1 /\ 1 \in 1..Len(held) - 2 + 1
          /\ \A i \in 1..1 - 1 : FALSE
      BY <1>2, <1>4
    <2>2. held[1] = Dashes /\ held[2] = Boundary
      BY <1>2, <2>1
    <2>3. \A k \in 1..2 : k = 1 \/ k = 2
      OBVIOUS
    <2>4. 1 + 1 - 1 = 1 /\ 1 + 2 - 1 = 2
      OBVIOUS
    <2>5. Matches(held, seq, 1)
      BY <1>3, <2>2, <2>3, <2>4 DEF Matches
    <2>6. FindsAt(held, seq, 1)
      BY <1>3, <2>1, <2>5 DEF FindsAt
    <2>7. Find(held, seq) = 1
      BY <1>2, <1>3, <2>6, FindIs
    <2> QED BY <1>4, <2>7 DEF seq
  <1>5. CASE Len(held) < 2
    <2>1. \A i \in 1..Len(held) - 2 + 1 : FALSE
      BY <1>2, <1>5
    <2>2. FindsNone(held, seq)
      BY <1>3, <2>1 DEF FindsNone
    <2>3. Find(held, seq) = NPos
      BY <1>2, <1>3, <2>2, FindIs
    <2> QED BY <1>5, <2>3 DEF seq
  <1>6. Len(held) \in Int
    BY <1>2
  <1> QED BY <1>4, <1>5, <1>6

\* The end of a header is found when it has come, whether the window begins with the
\* boundary or with the line end before it.
LEMMA HeaderEndSeen ==
  ASSUME NEW text, NEW s, NEW h, NEW e, NEW part, Segment(text, s, h, e, part),
         NEW held, NEW p, NEW r, Window(held, text, p, r), p + 1 \in {s, s - 1}
  PROVE  /\ r >= h => Find(held, HeadersEndMark) = h - 1 - p
         /\ ~(r >= h) => Find(held, HeadersEndMark) = NPos
  <1> DEFINE seq == HeadersEndMark
  <1>1. /\ s \in Nat /\ h \in Nat /\ h > s + 4
        /\ text[s] = Dashes /\ text[s + 1] = Boundary
        /\ text[h - 1] = LineEnd /\ text[h] = LineEnd
        /\ \A i \in s + 3..h - 2 : text[i] # LineEnd
    BY DEF Segment
  <1>2. /\ p \in Nat /\ r \in Nat /\ p <= r /\ held \in Seq(Int) /\ Len(held) = r - p
        /\ \A i \in 1..r - p : held[i] = text[p + i]
    BY DEF Window
  <1>3. seq \in Seq(Int) /\ Len(seq) = 2 /\ seq[1] = LineEnd /\ seq[2] = LineEnd
    BY MarksAre
  <1>a. Dashes # LineEnd /\ Boundary # LineEnd
    BY MarksAre
  <1> HIDE DEF seq
  <1>4. \A i \in Int : Matches(held, seq, i) <=> (held[i] = LineEnd /\ held[i + 1] = LineEnd)
    <2>1. \A i \in Int : i + 1 - 1 = i /\ i + 2 - 1 = i + 1
      OBVIOUS
    <2>2. 1..2 = {1, 2}
      OBVIOUS
    <2> QED BY <1>3, <2>1, <2>2 DEF Matches
  <1> DEFINE pos == h - 1 - p
  <1>5. \A i \in Int : i >= 1 /\ i < pos /\ i + 1 <= r - p => ~Matches(held, seq, i)
    <2> SUFFICES ASSUME NEW i \in Int, i >= 1, i < pos, i + 1 <= r - p
                 PROVE  held[i] # LineEnd \/ held[i + 1] # LineEnd
      BY <1>4
    <2>1. /\ i \in 1..r - p /\ i + 1 \in 1..r - p
          /\ \/ p + (i + 1) = s \/ p + (i + 1) = s + 1 \/ p + i = s + 1
             \/ p + (i + 1) \in s + 3..h - 2 \/ p + i \in s + 3..h - 2
      BY <1>1, <1>2
    <2>2. held[i] = text[p + i] /\ held[i + 1] = text[p + (i + 1)]
      BY <1>2, <2>1
    <2> QED BY <1>1, <1>a, <2>1, <2>2
  <1>6. CASE r >= h
    <2>1. pos \in 1..(r - p) - 2 + 1 /\ pos \in 1..r - p /\ pos + 1 \in 1..r - p
          /\ p + pos = h - 1 /\ p + (pos + 1) = h
      BY <1>1, <1>2, <1>6
    <2>2. held[pos] = LineEnd /\ held[pos + 1] = LineEnd
      BY <1>1, <1>2, <2>1
    <2>3. Matches(held, seq, pos)
      BY <1>4, <2>1, <2>2
    <2>4. \A i \in 1..pos - 1 : ~Matches(held, seq, i)
      <3>1. \A i \in 1..pos - 1 : i \in Int /\ i >= 1 /\ i < pos /\ i + 1 <= r - p
        BY <1>1, <1>2, <2>1
      <3> HIDE DEF pos
      <3> QED BY <1>5, <3>1
    <2> HIDE DEF pos
    <2>5. FindsAt(held, seq, pos)
      BY <1>2, <1>3, <2>1, <2>3, <2>4 DEF FindsAt
    <2>6. Find(held, seq) = pos
      BY <1>2, <1>3, <2>5, FindIs
    <2> QED BY <1>6, <2>6 DEF seq, pos
  <1>7. CASE ~(r >= h)
    <2>1. \A i \in 1..(r - p) - 2 + 1 : i \in Int /\ i >= 1 /\ i < pos /\ i + 1 <= r - p
      BY <1>1, <1>2, <1>7
    <2> HIDE DEF pos
    <2>2. FindsNone(held, seq)
      BY <1>2, <1>3, <1>5, <2>1 DEF FindsNone
    <2>3. Find(held, seq) = NPos
      BY <1>2, <1>3, <2>2, FindIs
    <2> QED BY <1>7, <2>3 DEF seq
  <1> QED BY <1>6, <1>7

\* Behind the last boundary there is no header.
LEMMA NoHeader ==
  ASSUME NEW text \in Seq(Int), NEW e, e \in Nat, Len(text) = e + 3, text[e] = Dashes,
         text[e + 1] = Boundary, text[e + 2] = Dashes,
         NEW held, NEW p, NEW r, Window(held, text, p, r), p + 1 \in {e, e - 1}
  PROVE  Find(held, HeadersEndMark) = NPos
  <1> DEFINE seq == HeadersEndMark
             m == Len(text)
  <1>2. /\ p \in Nat /\ r \in Nat /\ p <= r /\ r <= m /\ held \in Seq(Int) /\ Len(held) = r - p
        /\ \A i \in 1..r - p : held[i] = text[p + i]
    BY DEF Window
  <1>3. seq \in Seq(Int) /\ Len(seq) = 2 /\ seq[1] = LineEnd /\ seq[2] = LineEnd
    BY MarksAre
  <1>a. Dashes # LineEnd /\ Boundary # LineEnd
    BY MarksAre
  <1>b. m = e + 3
    OBVIOUS
  <1> HIDE DEF seq, m
  <1>4. \A i \in Int : Matches(held, seq, i) <=> (held[i] = LineEnd /\ held[i + 1] = LineEnd)
    <2>1. \A i \in Int : i + 1 - 1 = i /\ i + 2 - 1 = i + 1
      OBVIOUS
    <2>2. 1..2 = {1, 2}
      OBVIOUS
    <2> QED BY <1>3, <2>1, <2>2 DEF Matches
  <1>5. ASSUME NEW i \in 1..(r - p) - 2 + 1 PROVE ~Matches(held, seq, i)
    <2>1. /\ i \in Int /\ i \in 1..r - p /\ i + 1 \in 1..r - p
          /\ \/ p + (i + 1) = e \/ p + i = e \/ p + i = e + 1 \/ p + i = e + 2
      BY <1>2, <1>b
    <2>2. held[i] = text[p + i] /\ held[i + 1] = text[p + (i + 1)]
      BY <1>2, <2>1
    <2> QED BY <1>4, <1>a, <2>1, <2>2
  <1>6. FindsNone(held, seq)
    BY <1>2, <1>3, <1>5 DEF FindsNone
  <1> QED BY <1>2, <1>3, <1>6, FindIs DEF seq

\* What a header's end has before it in the window is the header, with a line end before
\* it or without.
HeaderTaken(held, text, p, h, r, part) ==
  /\ LoadHeader(SubSeq(held, BoundOffset + 1, h - 1 - p - 1)) = Info(part)
  /\ SubSeq(held, h - 1 - p + 2, Len(held)) = SubSeq(text, h + 1, r)

\* What is taken of a window with a whole header.
LEMMA HeaderSeen ==
  ASSUME NEW text, NEW s, NEW h, NEW e, NEW part \in WrittenParts,
         Segment(text, s, h, e, part),
         NEW held, NEW p, NEW r, Window(held, text, p, r), p + 1 \in {s, s - 1}, r >= h
  PROVE  HeaderTaken(held, text, p, h, r, part)
  <1> DEFINE l == Len(HeaderText(part))
             to == h - 1 - p - 1
             header == SubSeq(held, 4, to)
  <1>1. /\ s \in Nat /\ h \in Nat /\ h > s + 4 /\ h = s + 4 + l /\ text \in Seq(Int)
        /\ text[s + 2] = LineEnd
        /\ \A i \in 1..l : text[s + 2 + i] = HeaderText(part)[i]
    BY DEF Segment
  <1>2. p \in Nat /\ r \in Nat /\ p <= r /\ Len(held) = r - p /\ r <= Len(text)
    BY DEF Window
  <1>a. text \in Seq(Int)
    BY <1>1
  <1>b. s \in Nat /\ h \in Nat /\ h > s + 4 /\ h = s + 4 + l /\ p \in Nat /\ r \in Nat /\ p <= r /\ r >= h
    BY <1>1, <1>2
  <1>c. \A i \in Nat : i >= 1 /\ i <= r - p + 1 =>
          /\ SubSeq(held, i, Len(held)) = SubSeq(text, p + i, r)
          /\ Window(SubSeq(held, i, Len(held)), text, p + i - 1, r)
          /\ \A j \in Nat : i <= j + 1 /\ j <= r - p =>
                             SubSeq(held, i, j) = SubSeq(text, p + i, p + j)
    <2>1. text \in Seq(Int) /\ p \in Nat /\ r \in Nat
      BY <1>a, <1>b
    <2>2. CutsTo(held, text, p, r)
      BY <2>1, WindowCut, Zenon
    <2> QED BY <2>2 DEF CutsTo
  <1>3. BoundOffset + 1 = 4
    BY MarksAre
  <1>4. l \in Nat /\ HeaderText(part) \in Seq(Int)
    <2>1. HeaderText(part) \in Seq(HeaderChars) /\ HeaderChars \subseteq Int
      BY HeaderLaid DEF HeaderHas, HeaderChars
    <2>2. HeaderText(part) \in Seq(Int)
      BY <2>1, SubsetSeq
    <2> QED BY <2>2, LenProperties
  <1> HIDE DEF l
  <1>5. SubSeq(held, h - 1 - p + 2, Len(held)) = SubSeq(text, h + 1, r)
    <2> DEFINE i == h - 1 - p + 2
    <2>1. i \in Nat /\ i >= 1 /\ i <= r - p + 1 /\ p + i = h + 1
      BY <1>b
    <2> HIDE DEF i
    <2>2. SubSeq(held, i, Len(held)) = SubSeq(text, p + i, r)
      BY <1>c, <2>1
    <2> QED BY <2>1, <2>2 DEF i
  <1> DEFINE from == p + 4
             last == h - 2
  <1>6. header = SubSeq(text, from, last) /\ from \in Int /\ last \in Int /\ from >= 1
        /\ last <= Len(text) /\ from <= last + 1
    <2> DEFINE m == Len(text)
    <2>1. r <= m /\ m \in Nat
      BY <1>1, <1>2, LenProperties
    <2> HIDE DEF m
    <2> DEFINE four == 4
    <2>2. four \in Nat /\ four >= 1 /\ four <= r - p + 1 /\ to \in Nat /\ four <= to + 1
          /\ to <= r - p
      BY <1>b
    <2>3. p + to = last /\ last <= m /\ from \in Int /\ last \in Int /\ from >= 1
          /\ from <= last + 1 /\ p + four = from
      BY <1>b, <2>1
    <2> HIDE DEF to, last, from, four
    <2>4. SubSeq(held, four, to) = SubSeq(text, p + four, p + to)
      BY <1>c, <2>2
    <2>5. header = SubSeq(held, four, to)
      BY DEF four
    <2> QED BY <2>3, <2>4, <2>5 DEF m
  <1> HIDE DEF to, header
  <1>7. /\ header \in Seq(Int) /\ Len(header) = last - from + 1
        /\ \A k \in 1..last - from + 1 : header[k] = text[from + k - 1]
    <2> HIDE DEF from, last
    <2>1. /\ SubSeq(text, from, last) \in Seq(Int) /\ Len(SubSeq(text, from, last)) = last - from + 1
          /\ \A k \in 1..last - from + 1 : SubSeq(text, from, last)[k] = text[from + k - 1]
      BY <1>1, <1>6, PieceAt
    <2> QED BY <1>6, <2>1, Zenon
  <1>8. CASE p + 1 = s
    <2>1. last - from + 1 = l /\ \A k \in 1..l : from + k - 1 = s + 2 + k
      BY <1>4, <1>8, <1>b
    <2>2. Len(header) = l /\ \A k \in 1..l : header[k] = HeaderText(part)[k]
      BY <1>1, <1>7, <2>1
    <2>3. header = HeaderText(part)
      BY <1>4, <1>7, <2>2, SeqEqual DEF l
    <2>4. LoadHeader(header) = Info(part)
      BY <2>3, HeaderReads
    <2> QED BY <1>3, <1>5, <2>4 DEF header, to, HeaderTaken
  <1>9. CASE p + 1 = s - 1
    <2>1. last - from + 1 = l + 1 /\ 1 \in 1..l + 1 /\ from + 1 - 1 = s + 2
          /\ \A k \in 1..l : k + 1 \in 1..l + 1 /\ from + (k + 1) - 1 = s + 2 + k
      BY <1>4, <1>9, <1>b
    <2>2. Len(header) = l + 1 /\ header[1] = LineEnd
      BY <1>1, <1>7, <2>1
    <2>3. \A k \in 1..l : header[k + 1] = HeaderText(part)[k]
      BY <1>1, <1>7, <2>1
    <2>4. LoadHeader(header) = Info(part)
      BY <1>7, <2>2, <2>3, HeaderReads DEF l
    <2> QED BY <1>3, <1>5, <2>4 DEF header, to, HeaderTaken
  <1> QED BY <1>8, <1>9

\* A beginning of the line end and the boundary behind a part's data is found, and only
\* what is in the data before.
LEMMA MarkSeen ==
  ASSUME NEW text, NEW s, NEW h, NEW e, NEW part, Segment(text, s, h, e, part),
         NEW held, NEW p, NEW r, Window(held, text, p, r), h <= p, p < e - 1,
         NEW pos, pos = FindSequence(held, BoundaryWithEndMark)
  PROVE  /\ pos = NPos => r < e - 1
         /\ pos # NPos => /\ pos \in 1..r - p /\ p + pos <= e - 1
                          /\ Begins(held, BoundaryWithEndMark, pos)
                          /\ pos = 1 /\ r - p >= 3 => p = e - 2
  <1> DEFINE seq == BoundaryWithEndMark
             at == e - 1 - p
  <1>1. /\ s \in Nat /\ h \in Nat /\ e \in Nat /\ h > s + 4
        /\ text[e - 1] = LineEnd /\ text[e] = Dashes /\ text[e + 1] = Boundary
        /\ \A i \in s + 2..e : text[i] # Boundary
    BY DEF Segment
  <1>2. /\ p \in Nat /\ r \in Nat /\ p <= r /\ held \in Seq(Int) /\ Len(held) = r - p
        /\ \A i \in 1..r - p : held[i] = text[p + i]
    BY DEF Window
  <1>3. Len(seq) = 3 /\ seq[1] = LineEnd /\ seq[2] = Dashes /\ seq[3] = Boundary
    BY MarksAre
  <1>4. /\ \/ pos = NPos /\ \A i \in 1..Len(held) : ~Begins(held, seq, i)
           \/ /\ pos \in 1..Len(held) /\ Begins(held, seq, pos)
              /\ \A i \in 1..pos - 1 : ~Begins(held, seq, i)
    BY <1>2, FindSequenceIs, Zenon
  <1> HIDE DEF seq
  <1>5. \A i \in Int : Begins(held, seq, i) <=>
          /\ i <= r - p => held[i] = LineEnd
          /\ i + 1 <= r - p => held[i + 1] = Dashes
          /\ i + 2 <= r - p => held[i + 2] = Boundary
    <2>1. \A i \in Int : i + 1 - 1 = i /\ i + 2 - 1 = i + 1 /\ i + 3 - 1 = i + 2
      OBVIOUS
    <2>2. 1..3 = {1, 2, 3}
      OBVIOUS
    <2> DEFINE n == r - p
    <2>3. Len(held) = n
      BY <1>2
    <2> HIDE DEF n
    <2>4. \A i \in Int : Begins(held, seq, i) <=>
          /\ i <= n => held[i] = LineEnd
          /\ i + 1 <= n => held[i + 1] = Dashes
          /\ i + 2 <= n => held[i + 2] = Boundary
      BY <1>3, <2>1, <2>2, <2>3 DEF Begins
    <2> QED BY <2>4 DEF n
  <1>6. r >= e - 1 => at \in 1..r - p /\ Begins(held, seq, at)
    <2> SUFFICES ASSUME r >= e - 1 PROVE at \in 1..r - p /\ Begins(held, seq, at)
      OBVIOUS
    <2>1. /\ at \in 1..r - p /\ at \in Int
          /\ p + at = e - 1 /\ p + (at + 1) = e /\ p + (at + 2) = e + 1
          /\ at + 1 <= r - p => at + 1 \in 1..r - p
          /\ at + 2 <= r - p => at + 2 \in 1..r - p
      BY <1>1, <1>2
    <2> HIDE DEF at
    <2>2. held[at] = LineEnd
      BY <1>1, <1>2, <2>1
    <2>3. at + 1 <= r - p => held[at + 1] = Dashes
      BY <1>1, <1>2, <2>1
    <2>4. at + 2 <= r - p => held[at + 2] = Boundary
      BY <1>1, <1>2, <2>1
    <2> QED BY <1>5, <2>1, <2>2, <2>3, <2>4
  <1>7. CASE pos = NPos
    <2>1. pos # NPos \/ \A i \in 1..r - p : ~Begins(held, seq, i)
      <3>1. 1..Len(held) = 1..r - p
        BY <1>2
      <3>2. pos \in 1..Len(held) => pos # NPos
        <4>1. 0 \notin 1..Len(held)
          BY <1>2
        <4> QED BY <4>1 DEF NPos
      <3> QED BY <1>4, <3>1, <3>2
    <2>2. ~(r >= e - 1)
      <3> HIDE DEF at
      <3> QED BY <1>6, <1>7, <2>1
    <2>3. r < e - 1
      BY <1>1, <1>2, <2>2
    <2> QED BY <1>7, <2>3
  <1>8. CASE pos # NPos
    <2>1. /\ pos \in 1..r - p /\ Begins(held, seq, pos)
          /\ \A i \in 1..pos - 1 : ~Begins(held, seq, i)
      BY <1>2, <1>4, <1>8
    <2>2. p + pos <= e - 1
      <3> SUFFICES ASSUME ~(p + pos <= e - 1) PROVE FALSE
        BY <1>1, <1>2, <2>1
      <3>1. r >= e - 1 /\ at \in 1..pos - 1
        BY <1>1, <1>2, <2>1
      <3> HIDE DEF at
      <3> QED BY <1>6, <2>1, <3>1
    <2>3. pos = 1 /\ r - p >= 3 => p = e - 2
      <3> SUFFICES ASSUME pos = 1, r - p >= 3, p # e - 2 PROVE FALSE
        BY <1>1, <1>2
      <3>1. 3 \in 1..r - p /\ 1 \in Int /\ 1 + 2 = 3 /\ 1 + 2 <= r - p
        BY <1>2
      <3>2. held[3] = Boundary
        BY <1>5, <2>1, <3>1
      <3>3. p + 3 \in s + 2..e
        BY <1>1, <1>2
      <3>4. text[p + 3] # Boundary
        BY <1>1, <3>3
      <3> QED BY <1>2, <3>1, <3>2, <3>4
    <2> QED BY <1>8, <2>1, <2>2, <2>3 DEF seq
  <1> QED BY <1>7, <1>8
-----------------------------------------------------------------------------
(* The fields that are sent. *)

\* The fields that a sequence of parts amounts to.
FieldNames(parts) == {parts[i].name : i \in {j \in DOMAIN parts : ~parts[j].isFile}}

DataOf(part, name) == IF ~part.isFile /\ part.name = name THEN part.data ELSE <<>>

FieldData(parts, name) == [i \in DOMAIN parts |-> DataOf(parts[i], name)]

\* The fields by their names.
LEMMA FieldsAre ==
  ASSUME NEW parts
  PROVE  FieldsSent(parts) = [name \in FieldNames(parts) |-> FlattenSeq(FieldData(parts, name))]
  BY Zenon DEF FieldsSent, FieldNames, FieldData, DataOf

\* The data of a field are texts.
LEMMA FieldDataTyped ==
  ASSUME NEW parts \in Seq(WrittenParts), NEW name
  PROVE  /\ FieldData(parts, name) \in Seq(Seq(Int)) /\ Len(FieldData(parts, name)) = Len(parts)
         /\ \A i \in 1..Len(parts) : FieldData(parts, name)[i] = DataOf(parts[i], name)
         /\ FlattenSeq(FieldData(parts, name)) \in Seq(Int)
         /\ name \notin FieldNames(parts) => FlattenSeq(FieldData(parts, name)) = <<>>
  <1> DEFINE n == Len(parts)
             T == Seq(Int)
             fd == FieldData(parts, name)
  <1>1. n \in Nat /\ DOMAIN parts = 1..n /\ \A i \in 1..n : parts[i] \in WrittenParts
    BY LenProperties, ElementOfSeq
  <1> HIDE DEF n
  <1>2. \A i \in 1..n : DataOf(parts[i], name) \in T
    <2> SUFFICES ASSUME NEW i \in 1..n PROVE DataOf(parts[i], name) \in T
      OBVIOUS
    <2>1. parts[i].data \in Seq(Int)
      BY <1>1, PartTyped
    <2>2. <<>> \in Seq(Int)
      BY EmptySeq
    <2> QED BY <2>1, <2>2, Zenon DEF DataOf
  <1>3. fd \in [1..n -> T] /\ \A i \in 1..n : fd[i] = DataOf(parts[i], name)
    <2> HIDE DEF T
    <2> QED BY <1>1, <1>2 DEF FieldData
  <1>4. fd \in Seq(T) /\ Len(fd) = n
    <2> HIDE DEF T, fd
    <2> QED BY <1>1, <1>3, FunctionIsSeq
  <1>5. FlattenSeq(fd) \in Seq(Int)
    <2>1. <<>> \in Seq(Int)
      BY EmptySeq
    <2> QED BY <1>4, <2>1, FlattenAppend
  <1>6. name \notin FieldNames(parts) => FlattenSeq(fd) = <<>>
    <2> SUFFICES ASSUME name \notin FieldNames(parts) PROVE FlattenSeq(fd) = <<>>
      OBVIOUS
    <2>1. \A i \in 1..n : fd[i] = <<>>
      BY <1>1, <1>3 DEF FieldNames, DataOf
    <2> DEFINE E == {<<>>}
    <2>2. fd \in [1..n -> E]
      <3> HIDE DEF T
      <3> QED BY <1>3, <2>1
    <2>3. fd \in Seq(E)
      <3> HIDE DEF E, fd
      <3> QED BY <1>1, <2>2, FunctionIsSeq
    <2> QED BY <2>3, FlattenNothing
  <1> QED BY <1>3, <1>4, <1>5, <1>6 DEF n

\* A part more: a file changes no field, another adds its data to what its name has.
LEMMA FieldsAppend ==
  ASSUME NEW parts \in Seq(WrittenParts), NEW part \in WrittenParts
  PROVE  FieldsSent(Append(parts, part)) =
           IF part.isFile THEN FieldsSent(parts)
           ELSE AddTo(FieldsSent(parts), part.name, part.data)
  <1> DEFINE n == Len(parts)
             next == Append(parts, part)
             F == FieldsSent(parts)
             old(name) == FlattenSeq(FieldData(parts, name))
             new(name) == FlattenSeq(FieldData(next, name))
  <1>1. /\ n \in Nat /\ DOMAIN parts = 1..n
        /\ next \in Seq(WrittenParts) /\ Len(next) = n + 1 /\ DOMAIN next = 1..n + 1
        /\ \A i \in 1..n : next[i] = parts[i]
        /\ next[n + 1] = part
    BY LenProperties, AppendProperties
  <1> HIDE DEF n, next
  <1>2. \A name : new(name) = old(name) \o DataOf(part, name)
    <2> SUFFICES ASSUME NEW name PROVE new(name) = old(name) \o DataOf(part, name)
      OBVIOUS
    <2> DEFINE T == Seq(Int)
               a == FieldData(parts, name)
               b == FieldData(next, name)
               own == DataOf(part, name)
    <2>1. a \in Seq(T) /\ Len(a) = n /\ \A i \in 1..n : a[i] = DataOf(parts[i], name)
      BY FieldDataTyped DEF n
    <2>2. b \in Seq(T) /\ Len(b) = n + 1 /\ \A i \in 1..n + 1 : b[i] = DataOf(next[i], name)
      BY <1>1, FieldDataTyped
    <2>3. own \in T
      <3>1. part.data \in Seq(Int) /\ <<>> \in Seq(Int)
        BY PartTyped, EmptySeq
      <3> QED BY <3>1, Zenon DEF DataOf
    <2>4. \A i \in 1..n : b[i] = a[i]
      <3> HIDE DEF a, b, T
      <3> QED BY <1>1, <2>1, <2>2
    <2>5. b[n + 1] = own
      <3> HIDE DEF a, b, T
      <3> QED BY <1>1, <2>2 DEF own
    <2>6. b = Append(a, own)
      <3> HIDE DEF a, b, own, T
      <3> QED BY <2>1, <2>2, <2>3, <2>4, <2>5, AppendIs
    <2>7. FlattenSeq(Append(a, own)) = FlattenSeq(a) \o own
      <3> HIDE DEF a, own
      <3> QED BY <2>1, <2>3, FlattenAppend
    <2> QED BY <2>6, <2>7, Zenon
  <1>3. FieldNames(next) = FieldNames(parts) \cup (IF part.isFile THEN {} ELSE {part.name})
    <2>1. \A i \in 1..n + 1 : i \in 1..n \/ i = n + 1
      BY <1>1
    <2>2. n + 1 \in 1..n + 1 /\ \A i \in 1..n : i \in 1..n + 1
      BY <1>1
    <2> QED BY <1>1, <2>1, <2>2 DEF FieldNames
  <1>4. /\ DOMAIN F = FieldNames(parts) /\ \A name \in FieldNames(parts) : F[name] = old(name)
        /\ F = [name \in FieldNames(parts) |-> old(name)]
    BY FieldsAre
  <1>5. FieldsSent(next) = [name \in FieldNames(next) |-> new(name)]
    BY FieldsAre
  <1>6. \A name : old(name) \in Seq(Int) /\ (name \notin FieldNames(parts) => old(name) = <<>>)
    BY FieldDataTyped
  <1> HIDE DEF F, old, new
  <1>7. \A name \in FieldNames(parts) : DataOf(part, name) = <<>> => new(name) = old(name)
    BY <1>2, <1>6, ConcatEmptySeq
  <1>8. CASE part.isFile
    <2>1. FieldNames(next) = FieldNames(parts) /\ \A name : DataOf(part, name) = <<>>
      BY <1>3, <1>8 DEF DataOf
    <2>2. FieldsSent(next) = F
      BY <1>4, <1>5, <1>7, <2>1
    <2> QED BY <1>8, <2>2 DEF next, F
  <1>9. CASE ~part.isFile
    <2>1. FieldNames(next) = {part.name} \cup DOMAIN F
      BY <1>3, <1>4, <1>9
    <2>2. DataOf(part, part.name) = part.data /\ part.data \in Seq(Int)
      BY <1>9, PartTyped DEF DataOf
    <2>3. \A name : name # part.name => DataOf(part, name) = <<>>
      BY DEF DataOf
    <2> DEFINE v == IF part.name \in DOMAIN F THEN F[part.name] \o part.data ELSE part.data
    <2>4. new(part.name) = v
      <3>1. CASE part.name \in DOMAIN F
        BY <1>2, <1>4, <2>2, <3>1
      <3>2. CASE part.name \notin DOMAIN F
        <4>1. <<>> \o part.data = part.data
          BY <2>2, ConcatEmptySeq
        <4>2. new(part.name) = <<>> \o part.data
          BY <1>2, <1>4, <1>6, <2>2, <3>2
        <4> QED BY <3>2, <4>1, <4>2
      <3> QED BY <3>1, <3>2
    <2> HIDE DEF v
    <2>5. \A name \in {part.name} \cup DOMAIN F :
            new(name) = IF name = part.name THEN v ELSE F[name]
      BY <1>4, <1>7, <2>3, <2>4
    <2>6. FieldsSent(next) = [name \in {part.name} \cup DOMAIN F |->
                                IF name = part.name THEN v ELSE F[name]]
      BY <1>5, <2>1, <2>5
    <2>7. AddTo(F, part.name, part.data) = [name \in {part.name} \cup DOMAIN F |->
                                IF name = part.name THEN v ELSE F[name]]
      BY DEF AddTo, Put, v
    <2> QED BY <1>9, <2>6, <2>7 DEF next, F
  <1> QED BY <1>8, <1>9

\* The value of a field is a text.
LEMMA FieldsTyped ==
  ASSUME NEW parts \in Seq(WrittenParts)
  PROVE  \A name \in DOMAIN FieldsSent(parts) : FieldsSent(parts)[name] \in Seq(Int)
  BY FieldsAre, FieldDataTyped

\* No parts have no fields.
LEMMA FieldsNone == FieldsSent(<<>>) = <<>>
  <1>1. DOMAIN <<>> = {}
    OBVIOUS
  <1>2. FieldNames(<<>>) = {}
    BY <1>1 DEF FieldNames
  <1> DEFINE f(name) == FlattenSeq(FieldData(<<>>, name))
  <1>3. FieldsSent(<<>>) = [name \in {} |-> f(name)]
    BY <1>2, FieldsAre
  <1> HIDE DEF f
  <1>4. [name \in {} |-> f(name)] = <<>>
    OBVIOUS
  <1> QED BY <1>3, <1>4

\* Data that come in two pieces add up.
LEMMA AddTwice ==
  ASSUME NEW map, NEW key, key \in DOMAIN map => map[key] \in Seq(Int),
         NEW x \in Seq(Int), NEW y \in Seq(Int)
  PROVE  AddTo(AddTo(map, key, x), key, y) = AddTo(map, key, x \o y)
  <1> DEFINE D == {key} \cup DOMAIN map
             v == IF key \in DOMAIN map THEN map[key] \o x ELSE x
             w == IF key \in DOMAIN map THEN map[key] \o (x \o y) ELSE x \o y
             one == [k \in D |-> IF k = key THEN v ELSE map[k]]
  <1>1. AddTo(map, key, x) = one
    BY DEF AddTo, Put
  <1>2. AddTo(map, key, x \o y) = [k \in D |-> IF k = key THEN w ELSE map[k]]
    BY DEF AddTo, Put
  <1>3. v \o y = w
    <2>1. CASE key \in DOMAIN map
      <3> DEFINE a == map[key]
      <3>1. a \in Seq(Int) /\ x \in Seq(Int) /\ y \in Seq(Int)
        BY <2>1
      <3> HIDE DEF a
      <3>2. (a \o x) \o y = a \o (x \o y)
        BY <3>1, ConcatAssociative
      <3>3. v = a \o x /\ w = a \o (x \o y)
        BY <2>1, Zenon DEF a
      <3> HIDE DEF v, w
      <3> QED BY <3>2, <3>3, Zenon
    <2>2. CASE key \notin DOMAIN map
      BY <2>2, Zenon
    <2> QED BY <2>1, <2>2
  <1> HIDE DEF v, w
  <1>4. DOMAIN one = D /\ key \in D /\ one[key] = v /\ {key} \cup D = D
        /\ \A k \in D : k # key => one[k] = map[k]
    OBVIOUS
  <1> HIDE DEF one, D
  <1>5. AddTo(one, key, y) = [k \in D |-> IF k = key THEN w ELSE one[k]]
    BY <1>3, <1>4 DEF AddTo, Put
  <1>6. [k \in D |-> IF k = key THEN w ELSE one[k]] = [k \in D |-> IF k = key THEN w ELSE map[k]]
    BY <1>4
  <1> QED BY <1>1, <1>2, <1>5, <1>6
-----------------------------------------------------------------------------
(* What is loaded of the parts that have come. *)

\* The parts whose files can be told: those with a name, and no later one with a name of
\* theirs up to part j.
HasFile(part) == part.isFile /\ part.fileName # <<>>

LastOfNames(parts, i, j) ==
  \A k \in i + 1..j : parts[k].name # parts[i].name /\ parts[k].fileName # parts[i].fileName

Uploaded(up, fl, part, data) ==
  /\ part.name \in DOMAIN up
  /\ up[part.name].name = part.fileName
  /\ up[part.name] \in DOMAIN fl
  /\ fl[up[part.name]] = data

\* What is loaded when the parts up to j are whole ...
FieldsWhole(post, parts, j) == post = FieldsSent(Upto(parts, j))

FilesWhole(up, fl, parts, j) ==
  \A i \in 1..j : HasFile(parts[i]) /\ LastOfNames(parts, i, j) =>
                    Uploaded(up, fl, parts[i], parts[i].data)

\* ... and when of part j only some of the data have come.
FieldsBegun(post, parts, j, got) ==
  post = IF parts[j].isFile THEN FieldsSent(Upto(parts, j - 1))
         ELSE AddTo(FieldsSent(Upto(parts, j - 1)), parts[j].name, got)

FilesBegun(up, fl, parts, j, got) ==
  /\ \A i \in 1..j - 1 : HasFile(parts[i]) /\ LastOfNames(parts, i, j) =>
                           Uploaded(up, fl, parts[i], parts[i].data)
  /\ HasFile(parts[j]) => Uploaded(up, fl, parts[j], got)

\* With all of its data a part is whole.
LEMMA BegunIsWhole ==
  ASSUME NEW parts \in Seq(WrittenParts), NEW j \in 1..Len(parts), NEW post, NEW up, NEW fl,
         FieldsBegun(post, parts, j, parts[j].data)
  PROVE  /\ FieldsWhole(post, parts, j)
         /\ FilesBegun(up, fl, parts, j, parts[j].data) => FilesWhole(up, fl, parts, j)
  <1> DEFINE before == Upto(parts, j - 1)
  <1>1. Len(parts) \in Nat /\ j - 1 \in 0..Len(parts) /\ parts[j] \in WrittenParts
    BY LenProperties, ElementOfSeq
  <1>2. before \in Seq(WrittenParts)
    BY <1>1, UptoIs
  <1>3. Upto(parts, j) = Append(before, parts[j])
    BY UptoNext
  <1> HIDE DEF before
  <1>4. FieldsSent(Append(before, parts[j])) =
          IF parts[j].isFile THEN FieldsSent(before)
          ELSE AddTo(FieldsSent(before), parts[j].name, parts[j].data)
    BY <1>1, <1>2, FieldsAppend
  <1>5. FieldsWhole(post, parts, j)
    BY <1>3, <1>4 DEF FieldsWhole, FieldsBegun, before
  <1>6. FilesBegun(up, fl, parts, j, parts[j].data) => FilesWhole(up, fl, parts, j)
    <2>1. \A i \in 1..j : i \in 1..j - 1 \/ i = j
      BY <1>1
    <2> QED BY <2>1 DEF FilesBegun, FilesWhole
  <1> QED BY <1>5, <1>6

\* A field begins.
LEMMA FieldBegins ==
  ASSUME NEW parts \in Seq(WrittenParts), NEW j \in Nat, NEW k, k = j + 1, k \in 1..Len(parts),
         NEW post, NEW got, FieldsWhole(post, parts, j)
  PROVE  FieldsBegun(IF parts[k].isFile THEN post ELSE AddTo(post, parts[k].name, got),
                     parts, k, got)
  <1>1. k - 1 = j
    OBVIOUS
  <1> QED BY <1>1, Zenon DEF FieldsWhole, FieldsBegun

\* More data of a field.
LEMMA FieldGrows ==
  ASSUME NEW parts \in Seq(WrittenParts), NEW j \in 1..Len(parts), NEW post,
         NEW got \in Seq(Int), NEW data \in Seq(Int), FieldsBegun(post, parts, j, got)
  PROVE  FieldsBegun(IF parts[j].isFile THEN post ELSE AddTo(post, parts[j].name, data),
                     parts, j, got \o data)
  <1> DEFINE F == FieldsSent(Upto(parts, j - 1))
  <1>1. Len(parts) \in Nat /\ j - 1 \in 0..Len(parts)
    BY LenProperties
  <1>2. Upto(parts, j - 1) \in Seq(WrittenParts)
    BY <1>1, UptoIs
  <1>3. parts[j].name \in DOMAIN F => F[parts[j].name] \in Seq(Int)
    BY <1>2, FieldsTyped
  <1> HIDE DEF F
  <1>4. AddTo(AddTo(F, parts[j].name, got), parts[j].name, data) =
          AddTo(F, parts[j].name, got \o data)
    BY <1>3, AddTwice
  <1>5. post = IF parts[j].isFile THEN F ELSE AddTo(F, parts[j].name, got)
    BY Zenon DEF F, FieldsBegun
  <1>6. (IF parts[j].isFile THEN post ELSE AddTo(post, parts[j].name, data)) =
          IF parts[j].isFile THEN F ELSE AddTo(F, parts[j].name, got \o data)
    BY <1>4, <1>5, Zenon
  <1> QED BY <1>6, Zenon DEF F, FieldsBegun

\* The last of its names among the parts up to k was it among fewer.
LEMMA LastBefore ==
  ASSUME NEW parts, NEW j \in Nat, NEW k, k = j + 1, NEW i \in 1..j, LastOfNames(parts, i, k)
  PROVE  /\ LastOfNames(parts, i, j)
         /\ parts[k].name # parts[i].name /\ parts[k].fileName # parts[i].fileName
  BY DEF LastOfNames

\* A file begins: where its name leads was used by no part that still counts.
LEMMA FileBegins ==
  ASSUME NEW parts, NEW j \in Nat, NEW k, k = j + 1, NEW up, NEW fl, NEW up2, NEW fl2,
         NEW path, NEW got, FilesWhole(up, fl, parts, j),
         up2 = IF parts[k].isFile THEN Put(up, parts[k].name, path) ELSE up,
         fl2 = IF HasFile(parts[k]) THEN Put(fl, path, got) ELSE fl,
         HasFile(parts[k]) => path.name = parts[k].fileName
  PROVE  FilesBegun(up2, fl2, parts, k, got)
  <1>1. k - 1 = j
    OBVIOUS
  <1>2. ASSUME NEW i \in 1..j, HasFile(parts[i]), LastOfNames(parts, i, k)
        PROVE  Uploaded(up2, fl2, parts[i], parts[i].data)
    <2>1. /\ Uploaded(up, fl, parts[i], parts[i].data)
          /\ parts[k].name # parts[i].name /\ parts[k].fileName # parts[i].fileName
      BY <1>2, LastBefore DEF FilesWhole
    <2>2. parts[i].name \in DOMAIN up2 /\ up2[parts[i].name] = up[parts[i].name]
      BY <2>1 DEF Uploaded, Put
    <2>3. up[parts[i].name] \in DOMAIN fl2 /\ fl2[up[parts[i].name]] = fl[up[parts[i].name]]
      <3>1. HasFile(parts[k]) => up[parts[i].name] # path
        BY <2>1 DEF Uploaded
      <3> QED BY <2>1, <3>1 DEF Uploaded, Put
    <2> QED BY <2>1, <2>2, <2>3 DEF Uploaded
  <1>3. HasFile(parts[k]) => Uploaded(up2, fl2, parts[k], got)
    <2> SUFFICES ASSUME HasFile(parts[k]) PROVE Uploaded(up2, fl2, parts[k], got)
      OBVIOUS
    <2>1. up2 = Put(up, parts[k].name, path) /\ fl2 = Put(fl, path, got)
      BY DEF HasFile
    <2>2. parts[k].name \in DOMAIN up2 /\ up2[parts[k].name] = path
      BY <2>1 DEF Put
    <2>3. path \in DOMAIN fl2 /\ fl2[path] = got
      BY <2>1 DEF Put
    <2> QED BY <2>2, <2>3 DEF Uploaded
  <1> QED BY <1>1, <1>2, <1>3 DEF FilesBegun

\* More data of a file.
LEMMA FileGrows ==
  ASSUME NEW parts, NEW j \in Nat \ {0}, NEW up, NEW fl, NEW fl2, NEW got, NEW data,
         FilesBegun(up, fl, parts, j, got),
         fl2 = IF HasFile(parts[j]) THEN AddTo(fl, up[parts[j].name], data) ELSE fl
  PROVE  FilesBegun(up, fl2, parts, j, got \o data)
  <1>1. (j - 1) + 1 = j /\ j - 1 \in Nat
    OBVIOUS
  <1>2. ASSUME NEW i \in 1..j - 1, HasFile(parts[i]), LastOfNames(parts, i, j)
        PROVE  Uploaded(up, fl2, parts[i], parts[i].data)
    <2>1. /\ Uploaded(up, fl, parts[i], parts[i].data)
          /\ parts[j].fileName # parts[i].fileName
      <3>1. j \in i + 1..j
        BY <1>1
      <3> QED BY <1>2, <3>1 DEF FilesBegun, LastOfNames
    <2>2. HasFile(parts[j]) => up[parts[j].name] # up[parts[i].name]
      BY <2>1 DEF Uploaded, FilesBegun
    <2> QED BY <2>1, <2>2 DEF Uploaded, AddTo, Put
  <1>3. HasFile(parts[j]) => Uploaded(up, fl2, parts[j], got \o data)
    <2> SUFFICES ASSUME HasFile(parts[j]) PROVE Uploaded(up, fl2, parts[j], got \o data)
      OBVIOUS
    <2> DEFINE path == up[parts[j].name]
    <2>1. Uploaded(up, fl, parts[j], got)
      BY DEF FilesBegun
    <2>2. fl2 = AddTo(fl, path, data) /\ path \in DOMAIN fl /\ fl[path] = got
      BY <2>1 DEF Uploaded
    <2> HIDE DEF path
    <2>3. path \in DOMAIN fl2 /\ fl2[path] = got \o data
      BY <2>2 DEF AddTo, Put
    <2> QED BY <2>1, <2>3 DEF Uploaded, path
  <1> QED BY <1>2, <1>3 DEF FilesBegun
-----------------------------------------------------------------------------
(* The data of a part. *)

\* Where a text begins sequences, its rest from there does.
LEMMA BeginsRest ==
  ASSUME NEW text \in Seq(Int), NEW seq \in Seq(Int), NEW pos \in 1..Len(text),
         Begins(text, seq, pos)
  PROVE  /\ SubSeq(text, pos, Len(text)) \in Seq(Int)
         /\ Len(SubSeq(text, pos, Len(text))) = Len(text) - pos + 1
         /\ SubSeq(text, pos, Len(text))[1] = text[pos]
         /\ FindSequence(SubSeq(text, pos, Len(text)), seq) = 1
  <1> DEFINE n == Len(text)
             m == Len(seq)
             new == SubSeq(text, pos, n)
  <1>1. n \in Nat /\ m \in Nat
    BY LenProperties
  <1>2. /\ new \in Seq(Int) /\ Len(new) = n - pos + 1
        /\ \A k \in 1..n - pos + 1 : new[k] = text[pos + k - 1]
    <2>1. pos \in Int /\ n \in Int /\ pos >= 1 /\ n <= Len(text) /\ pos <= n + 1
      BY <1>1
    <2> HIDE DEF n
    <2> QED BY <2>1, PieceAt
  <1>3. \A k \in 1..m : pos + k - 1 <= n => text[pos + k - 1] = seq[k]
    BY DEF Begins
  <1> HIDE DEF n, m, new
  <1>4. \A k \in 1..m : 1 + k - 1 <= Len(new) => new[1 + k - 1] = seq[k]
    <2> SUFFICES ASSUME NEW k \in 1..m, 1 + k - 1 <= Len(new) PROVE new[1 + k - 1] = seq[k]
      OBVIOUS
    <2>1. 1 + k - 1 = k /\ k \in 1..n - pos + 1 /\ pos + k - 1 <= n
      BY <1>1, <1>2
    <2> QED BY <1>2, <1>3, <2>1
  <1>5. Begins(new, seq, 1)
    BY <1>4 DEF Begins, m
  <1>6. 1 \in 1..Len(new) /\ \A i \in 1..1 - 1 : ~Begins(new, seq, i)
    BY <1>1, <1>2 DEF n
  <1>7. FindSequence(new, seq) = 1
    <2>1. \A at \in 1..Len(new) :
              Begins(new, seq, at) /\ (\A i \in 1..at - 1 : ~Begins(new, seq, i))
              => FindSequence(new, seq) = at
      BY <1>2, FindSequenceIs, Zenon
    <2> QED BY <1>5, <1>6, <2>1, Zenon
  <1>8. new[1] = text[pos]
    <2>1. 1 \in 1..n - pos + 1 /\ pos + 1 - 1 = pos
      BY <1>1 DEF n
    <2> QED BY <1>2, <2>1
  <1> QED BY <1>2, <1>7, <1>8 DEF new, n

\* What is empty or begins with a line end is no end of the body.
LEMMA NoEnd ==
  /\ Find(<<>>, BoundaryEnd) # 1
  /\ \A text \in Seq(Int) : text[1] = LineEnd => Find(text, BoundaryEnd) # 1
  <1>1. BoundaryEnd \in Seq(Int) /\ Len(BoundaryEnd) = 3 /\ BoundaryEnd[1] = Dashes
        /\ LineEnd # Dashes
    BY MarksAre
  <1>2. Find(<<>>, BoundaryEnd) # 1
    <2> DEFINE none == <<>>
    <2>1. none \in Seq(Int) /\ Len(none) = 0
      BY EmptySeq
    <2> HIDE DEF none
    <2>2. Find(none, BoundaryEnd) \in 0..Len(none)
      <3>1. none \in Seq(Int) /\ BoundaryEnd \in Seq(Int) /\ Len(BoundaryEnd) > 0
        BY <1>1, <2>1
      <3> QED BY <3>1, FindRange
    <2>3. Find(none, BoundaryEnd) # 1
      BY <2>1, <2>2
    <2> QED BY <2>3 DEF none
  <1>3. ASSUME NEW text \in Seq(Int), text[1] = LineEnd, Find(text, BoundaryEnd) = 1 PROVE FALSE
    <2>1. Find(text, BoundaryEnd) # NPos
      BY <1>3 DEF NPos
    <2>2. \A k \in 1..Len(BoundaryEnd) : text[Find(text, BoundaryEnd) + k - 1] = BoundaryEnd[k]
      BY <1>1, <2>1, FoundThere
    <2>3. 1 \in 1..Len(BoundaryEnd) /\ 1 + 1 - 1 = 1
      BY <1>1
    <2>4. text[1 + 1 - 1] = BoundaryEnd[1]
      BY <1>3, <2>2, <2>3
    <2> QED BY <1>1, <1>3, <2>3, <2>4
  <1> QED BY <1>2, <1>3

\* The data of a part, as far as they are in the text.
DataIn(text, data, h, e) ==
  /\ \A q \in Nat : h <= q /\ q <= e - 2 =>
       /\ Upto(data, q - h) \in Seq(Int)
       /\ SubSeq(text, h + 1, q) = Upto(data, q - h)
  /\ \A p, q \in Nat : h <= p /\ p <= q /\ q <= e - 2 =>
       Upto(data, p - h) \o SubSeq(text, p + 1, q) = Upto(data, q - h)
  /\ Upto(data, e - 2 - h) = data

\* The data of a part are what its boundaries enclose.
LEMMA DataThere ==
  ASSUME NEW part \in WrittenParts, NEW text, NEW s, NEW h, NEW e, Segment(text, s, h, e, part)
  PROVE  DataIn(text, part.data, h, e)
  <1> DEFINE data == part.data
             d == Len(data)
  <1>1. /\ h \in Nat /\ e = h + d + 2 /\ text \in Seq(Int) /\ e + 3 <= Len(text)
        /\ \A i \in 1..d : text[h + i] = data[i]
    BY DEF Segment
  <1>2. data \in Seq(Int) /\ d \in Nat /\ Len(text) \in Nat
    BY <1>1, PartTyped, LenProperties
  <1> HIDE DEF d
  <1>3. ASSUME NEW p \in Nat, NEW q \in Nat, h <= p, p <= q, q <= e - 2
        PROVE  SubSeq(text, p + 1, q) = SubSeq(data, p - h + 1, q - h)
    <2> DEFINE from == p + 1
               a == p - h + 1
               b == q - h
               v == SubSeq(data, a, b)
    <2>1. a \in Int /\ b \in Int /\ a >= 1 /\ b <= d /\ a <= b + 1
      BY <1>1, <1>2, <1>3
    <2> HIDE DEF a, b
    <2>2. v \in Seq(Int) /\ Len(v) = b - a + 1 /\ \A k \in 1..b - a + 1 : v[k] = data[a + k - 1]
      BY <1>2, <2>1, PieceAt DEF d
    <2>3. /\ from \in Int /\ from >= 1 /\ q \in Int /\ q <= Len(text) /\ from <= q + 1
          /\ b - a + 1 = q - from + 1
      BY <1>1, <1>2, <1>3 DEF a, b
    <2>4. \A k \in 1..b - a + 1 : a + k - 1 \in 1..d /\ h + (a + k - 1) = from + k - 1
      BY <1>1, <1>2, <1>3 DEF a, b
    <2> HIDE DEF from, v
    <2>5. \A k \in 1..Len(v) : v[k] = text[from + k - 1]
      BY <1>1, <2>2, <2>4
    <2>6. Len(v) = q - from + 1
      BY <2>2, <2>3
    <2>7. text \in Seq(Int)
      BY <1>1
    <2>8. SubSeq(text, from, q) = v
      <3>1. v \in Seq(Int)
        BY <2>2
      <3> HIDE DEF a, b
      <3>2. from \in Int /\ from >= 1 /\ q \in Int /\ q <= Len(text) /\ from <= q + 1
        BY <2>3
      <3> QED BY <2>5, <2>6, <2>7, <3>1, <3>2, PieceIs
    <2> QED BY <2>8 DEF from, v, a, b
  <1>4. ASSUME NEW q \in Nat, h <= q, q <= e - 2
        PROVE  /\ Upto(data, q - h) \in Seq(Int)
               /\ SubSeq(text, h + 1, q) = Upto(data, q - h)
    <2>1. h <= h /\ h - h + 1 = 1 /\ q - h \in 0..d
      BY <1>1, <1>2, <1>4
    <2>2. SubSeq(text, h + 1, q) = SubSeq(data, h - h + 1, q - h)
      BY <1>1, <1>3, <1>4, <2>1
    <2>3. Upto(data, q - h) \in Seq(Int)
      <3> DEFINE m == q - h
      <3> HIDE DEF m
      <3>1. data \in Seq(Int) /\ m \in 0..Len(data)
        BY <1>2, <2>1 DEF d, m
      <3>2. Upto(data, m) \in Seq(Int)
        BY <3>1, UptoIs
      <3> QED BY <3>2 DEF m
    <2> QED BY <2>1, <2>2, <2>3 DEF Upto
  <1>5. ASSUME NEW p \in Nat, NEW q \in Nat, h <= p, p <= q, q <= e - 2
        PROVE  Upto(data, p - h) \o SubSeq(text, p + 1, q) = Upto(data, q - h)
    <2> DEFINE a == p - h
               b == q - h
    <2>1. 1 \in 1..d + 1 /\ a \in 1 - 1..d /\ b \in a..d
      BY <1>1, <1>2, <1>5
    <2> HIDE DEF a, b
    <2>2. SubSeq(data, 1, a) \o SubSeq(data, a + 1, b) = SubSeq(data, 1, b)
      BY <1>2, <2>1, ConcatAdjacentSubSeq DEF d
    <2>3. SubSeq(text, p + 1, q) = SubSeq(data, a + 1, b)
      BY <1>3, <1>5 DEF a, b
    <2> QED BY <2>2, <2>3 DEF Upto, a, b
  <1>6. Upto(data, e - 2 - h) = data
    <2>1. e - 2 - h = d
      BY <1>1, <1>2
    <2> QED BY <1>2, <2>1, UptoWhole DEF d
  <1> QED BY <1>4, <1>5, <1>6 DEF DataIn

\* A header in the window: its part is there, and what comes of its data so far.
Begun(new, got, text, h, e, data, r) ==
  \E q \in Nat : /\ h <= q /\ q < e - 1 /\ Window(new, text, q, r)
                 /\ got = Upto(data, q - h) /\ got \in Seq(Int)
                 /\ (new = <<>> \/ FindSequence(new, BoundaryWithEndMark) = 1)
                 /\ Find(new, BoundaryEnd) # 1

\* Behind a header the data begin, as far as they have come.
LEMMA DataBegin ==
  ASSUME NEW part \in WrittenParts, NEW text, NEW s, NEW h, NEW e, Segment(text, s, h, e, part),
         NEW rest, NEW r, r >= h, Window(rest, text, h, r),
         NEW pos, pos = FindSequence(rest, BoundaryWithEndMark)
  PROVE  Begun(From(rest, pos), Before(rest, pos), text, h, e, part.data, r)
  <1> DEFINE data == part.data
             n == Len(text)
  <1>1. h \in Nat /\ e \in Nat /\ e >= h + 2 /\ text \in Seq(Int)
    BY DEF Segment
  <1>2. r \in Nat /\ r <= n /\ rest \in Seq(Int) /\ Len(rest) = r - h
    BY DEF Window
  <1>3. n \in Nat
    BY <1>1, LenProperties
  <1>4. h <= h /\ h < e - 1
    BY <1>1
  <1>5. /\ pos = NPos => r < e - 1
        /\ pos # NPos => /\ pos \in 1..r - h /\ h + pos <= e - 1
                         /\ Begins(rest, BoundaryWithEndMark, pos)
    BY <1>4, MarkSeen
  <1>6. /\ \A q \in Nat : h <= q /\ q <= e - 2 =>
             Upto(data, q - h) \in Seq(Int) /\ SubSeq(text, h + 1, q) = Upto(data, q - h)
    <2>1. DataIn(text, data, h, e)
      BY DataThere, Zenon
    <2> QED BY <2>1 DEF DataIn
  <1>7. CASE pos = NPos
    <2>1. h <= r /\ r < e - 1 /\ r <= e - 2
      BY <1>1, <1>2, <1>5, <1>7
    <2>2. From(rest, pos) = <<>> /\ Before(rest, pos) = rest
      BY <1>7 DEF From, Before
    <2>3. rest = SubSeq(text, h + 1, r)
      <3>1. text \in Seq(Int) /\ h \in Nat /\ r \in Nat /\ h <= r /\ r <= Len(text)
        BY <1>1, <1>2, <2>1
      <3> QED BY <3>1, WindowIs
    <2>4. Window(<<>>, text, r, r)
      <3>1. <<>> \in Seq(Int) /\ Len(<<>>) = 0 /\ r - r = 0 /\ r <= r
        BY <1>2, EmptySeq
      <3>2. 1..r - r = {}
        BY <3>1
      <3> QED BY <1>2, <3>1, <3>2 DEF Window
    <2>5. rest = Upto(data, r - h) /\ rest \in Seq(Int)
      BY <1>2, <1>6, <2>1, <2>3
    <2>6. Find(<<>>, BoundaryEnd) # 1
      BY NoEnd
    <2> QED BY <1>2, <2>1, <2>2, <2>4, <2>5, <2>6, Zenon DEF Begun
  <1>8. CASE pos # NPos
    <2> DEFINE q == h + pos - 1
               new == SubSeq(rest, pos, Len(rest))
    <2>0. /\ pos \in 1..r - h /\ h + pos <= e - 1 /\ Len(rest) = r - h
          /\ h \in Nat /\ e \in Nat /\ r \in Nat
      BY <1>1, <1>2, <1>5, <1>8
    <2>1. /\ pos \in 1..r - h /\ pos \in 1..Len(rest) /\ q \in Nat /\ h <= q /\ q < e - 1
          /\ q <= e - 2 /\ pos \in Nat /\ pos >= 1 /\ pos <= r - h + 1 /\ pos - 1 \in Nat
          /\ 1 <= pos - 1 + 1 /\ pos - 1 <= r - h /\ h + (pos - 1) = q /\ 1 <= r - h + 1
      BY <2>0
    <2> HIDE DEF q
    <2>2. From(rest, pos) = new /\ Before(rest, pos) = SubSeq(rest, 1, pos - 1)
      BY <1>8 DEF From, Before
    <2>3. \A i \in Nat : i >= 1 /\ i <= r - h + 1 =>
          /\ SubSeq(rest, i, Len(rest)) = SubSeq(text, h + i, r)
          /\ Window(SubSeq(rest, i, Len(rest)), text, h + i - 1, r)
          /\ \A j \in Nat : i <= j + 1 /\ j <= r - h =>
                             SubSeq(rest, i, j) = SubSeq(text, h + i, h + j)
      <3>1. text \in Seq(Int) /\ h \in Nat /\ r \in Nat
        BY <1>1, <1>2
      <3>2. CutsTo(rest, text, h, r)
        BY <3>1, WindowCut, Zenon
      <3> QED BY <3>2 DEF CutsTo
    <2>4. Window(new, text, q, r)
      BY <2>1, <2>3 DEF q
    <2>5. SubSeq(rest, 1, pos - 1) = SubSeq(text, h + 1, q)
      <3> DEFINE a == pos - 1
      <3>1. a \in Nat /\ 1 <= a + 1 /\ a <= r - h /\ h + a = q /\ 1 <= r - h + 1
        BY <2>1
      <3> DEFINE one == 1
      <3>2. one \in Nat /\ one >= 1 /\ one <= r - h + 1 /\ one <= a + 1
        BY <3>1
      <3> HIDE DEF a, one
      <3>3. SubSeq(rest, one, a) = SubSeq(text, h + one, h + a)
        BY <2>3, <3>1, <3>2
      <3> QED BY <3>1, <3>3 DEF a, one
    <2>6. Upto(data, q - h) \in Seq(Int) /\ SubSeq(text, h + 1, q) = Upto(data, q - h)
      BY <1>6, <2>1
    <2>7. /\ new \in Seq(Int) /\ new[1] = rest[pos]
          /\ FindSequence(new, BoundaryWithEndMark) = 1
      <3>1. rest \in Seq(Int) /\ pos \in 1..Len(rest) /\ Begins(rest, BoundaryWithEndMark, pos)
        BY <1>2, <1>5, <1>8, <2>1
      <3>2. BoundaryWithEndMark \in Seq(Int)
        BY MarksAre
      <3> QED BY <3>1, <3>2, BeginsRest
    <2>8. rest[pos] = LineEnd
      <3>1. 1 \in 1..Len(BoundaryWithEndMark) /\ BoundaryWithEndMark[1] = LineEnd
        BY MarksAre
      <3>2. pos + 1 - 1 = pos /\ pos + 1 - 1 <= Len(rest)
        BY <2>1
      <3> QED BY <1>5, <1>8, <3>1, <3>2 DEF Begins
    <2>9. Find(new, BoundaryEnd) # 1
      BY <2>7, <2>8, NoEnd
    <2> QED BY <2>1, <2>2, <2>4, <2>5, <2>6, <2>7, <2>9, Zenon DEF Begun
  <1> QED BY <1>7, <1>8

\* A header that is found is that of the part the window begins with.
LEMMA HeaderThere ==
  ASSUME NEW text, NEW s, NEW h, NEW e, NEW part \in WrittenParts,
         Segment(text, s, h, e, part),
         NEW held, NEW p, NEW r, Window(held, text, p, r), p + 1 \in {s, s - 1},
         Find(held, HeadersEndMark) # NPos
  PROVE  LET end == Find(held, HeadersEndMark) IN
         /\ r >= h
         /\ LoadHeader(SubSeq(held, BoundOffset + 1, end - 1)) = Info(part)
         /\ Window(SubSeq(held, end + 2, Len(held)), text, h, r)
  <1>1. /\ r >= h => Find(held, HeadersEndMark) = h - 1 - p
        /\ ~(r >= h) => Find(held, HeadersEndMark) = NPos
    BY HeaderEndSeen
  <1>2. r >= h /\ Find(held, HeadersEndMark) = h - 1 - p
    BY <1>1
  <1>3. /\ LoadHeader(SubSeq(held, BoundOffset + 1, h - 1 - p - 1)) = Info(part)
        /\ SubSeq(held, h - 1 - p + 2, Len(held)) = SubSeq(text, h + 1, r)
    <2>1. r >= h
      BY <1>2
    <2>2. HeaderTaken(held, text, p, h, r, part)
      BY <2>1, HeaderSeen, Zenon
    <2> QED BY <2>2 DEF HeaderTaken
  <1>4. Window(SubSeq(text, h + 1, r), text, h, r)
    <2>1. text \in Seq(Int) /\ h \in Nat /\ r \in Nat /\ h <= r /\ r <= Len(text)
      BY <1>2 DEF Window, Segment
    <2> QED BY <2>1, WindowIs
  <1> QED BY <1>2, <1>3, <1>4

\* The header of part k in the record: what is loaded of it, and what comes of its data.
HeaderTold(parts, text, k, held, end, rest, pos, r) ==
  /\ k \in 1..Len(parts)
  /\ LoadHeader(SubSeq(held, BoundOffset + 1, end - 1)) = Info(parts[k])
  /\ Begun(From(rest, pos), Before(rest, pos), text, DataAt(parts, k),
           BoundaryAt(parts, k + 1), parts[k].data, r)

\* ... and there is such a part.
LEMMA HeaderStep ==
  ASSUME NEW parts \in Seq(WrittenParts), NEW text, text = MultipartText(parts),
         NEW j \in 0..Len(parts), NEW k, k = j + 1, NEW held, NEW p, NEW r,
         Window(held, text, p, r),
         p + 1 \in {BoundaryAt(parts, k), BoundaryAt(parts, k) - 1},
         NEW end, end = Find(held, HeadersEndMark), end # NPos,
         NEW rest, rest = SubSeq(held, end + 2, Len(held)),
         NEW pos, pos = FindSequence(rest, BoundaryWithEndMark)
  PROVE  HeaderTold(parts, text, k, held, end, rest, pos, r)
  <1> DEFINE n == Len(parts)
             s == BoundaryAt(parts, k)
             h == DataAt(parts, k)
             e == BoundaryAt(parts, k + 1)
  <1>1. n \in Nat /\ text \in Seq(Int)
    BY LenProperties, BodyLaid
  <1>2. k \in 1..n
    <2> SUFFICES ASSUME k = n + 1 PROVE FALSE
      BY <1>1
    <2> DEFINE m == BoundaryAt(parts, n + 1)
    <2>1. /\ m \in Nat /\ Len(text) = m + 3
          /\ text[m] = Dashes /\ text[m + 1] = Boundary /\ text[m + 2] = Dashes
      BY BodyLaid DEF EndAt
    <2>2. p + 1 \in {m, m - 1}
      OBVIOUS
    <2> HIDE DEF m
    <2>3. Find(held, HeadersEndMark) = NPos
      BY <1>1, <2>1, <2>2, NoHeader
    <2> QED BY <2>3
  <1>3. Segment(text, s, h, e, parts[k])
    BY <1>2, SegmentIs
  <1>4. parts[k] \in WrittenParts
    BY <1>2, ElementOfSeq
  <1>5. p + 1 \in {s, s - 1}
    OBVIOUS
  <1> HIDE DEF s, h, e
  <1>6. /\ r >= h
        /\ LoadHeader(SubSeq(held, BoundOffset + 1, Find(held, HeadersEndMark) - 1)) = Info(parts[k])
        /\ Window(SubSeq(held, Find(held, HeadersEndMark) + 2, Len(held)), text, h, r)
    BY <1>3, <1>4, <1>5, HeaderThere
  <1>7. Begun(From(rest, pos), Before(rest, pos), text, h, e, parts[k].data, r)
    <2>1. Window(rest, text, h, r)
      BY <1>6
    <2> QED BY <1>3, <1>4, <1>6, <2>1, DataBegin
  <1> QED BY <1>2, <1>6, <1>7 DEF s, h, e, HeaderTold

\* The header of a part that is to come is found when the body has come.
LEMMA HeaderComplete ==
  ASSUME NEW parts \in Seq(WrittenParts), NEW text, text = MultipartText(parts),
         NEW k \in 1..Len(parts), NEW held, NEW p, NEW r, Window(held, text, p, r),
         p + 1 \in {BoundaryAt(parts, k), BoundaryAt(parts, k) - 1}, r = Len(text)
  PROVE  Find(held, HeadersEndMark) # NPos
  <1> DEFINE s == BoundaryAt(parts, k)
             h == DataAt(parts, k)
             e == BoundaryAt(parts, k + 1)
  <1>1. Segment(text, s, h, e, parts[k])
    BY SegmentIs
  <1>2. p + 1 \in {s, s - 1}
    OBVIOUS
  <1> HIDE DEF s, h, e
  <1>3. s \in Nat /\ h \in Nat /\ e \in Nat /\ h > s + 4 /\ e >= h + 2 /\ e + 3 <= Len(text)
    BY <1>1 DEF Segment
  <1>4. p \in Nat /\ r \in Nat
    BY DEF Window
  <1>5. r >= h /\ h - 1 - p # 0
    BY <1>2, <1>3, <1>4
  <1>6. r >= h => Find(held, HeadersEndMark) = h - 1 - p
    BY <1>1, <1>2, HeaderEndSeen
  <1> QED BY <1>5, <1>6 DEF NPos

\* The boundary behind the data of a part.
DataEnds(parts, text, j, held, p, r, b) ==
  LET e == BoundaryAt(parts, j + 1) IN
  /\ SubSeq(held, 1, b - 2) \in Seq(Int)
  /\ Upto(parts[j].data, p - DataAt(parts, j)) \o SubSeq(held, 1, b - 2) = parts[j].data
  /\ e - 1 \in Nat /\ Window(From(held, b), text, e - 1, r)
  /\ Find(From(held, b), BoundaryEnd) = 1 => j = Len(parts)

\* With the boundary all data have come, and only the last part is followed by the end.
LEMMA DataEndStep ==
  ASSUME NEW parts \in Seq(WrittenParts), NEW text, text = MultipartText(parts),
         NEW j \in 1..Len(parts), NEW held, NEW p, NEW r, Window(held, text, p, r),
         DataAt(parts, j) <= p, p < BoundaryAt(parts, j + 1) - 1,
         NEW b, b = Find(held, BoundaryBegin), b # NPos
  PROVE  DataEnds(parts, text, j, held, p, r, b)
  <1> DEFINE s == BoundaryAt(parts, j)
             h == DataAt(parts, j)
             e == BoundaryAt(parts, j + 1)
             part == parts[j]
             new == SubSeq(held, b, Len(held))
  <1>1. Segment(text, s, h, e, part) /\ (j < Len(parts) => text[e + 2] = LineEnd)
    BY SegmentIs
  <1>2. part \in WrittenParts /\ h <= p /\ p < e - 1
    BY ElementOfSeq
  <1>3. Len(parts) \in Nat
    BY LenProperties
  <1> HIDE DEF s, h, e, part
  <1>4. h \in Nat /\ e \in Nat /\ e >= h + 2 /\ text \in Seq(Int)
    BY <1>1 DEF Segment
  <1>5. p \in Nat /\ r \in Nat /\ held \in Seq(Int) /\ Len(held) = r - p
    BY DEF Window
  <1>6. r >= e + 1 /\ b = e - p
    BY <1>1, <1>2, BoundarySeen
  <1>7. \A i \in Nat : i >= 1 /\ i <= r - p + 1 =>
          /\ SubSeq(held, i, Len(held)) = SubSeq(text, p + i, r)
          /\ Window(SubSeq(held, i, Len(held)), text, p + i - 1, r)
          /\ \A q \in Nat : i <= q + 1 /\ q <= r - p =>
                             SubSeq(held, i, q) = SubSeq(text, p + i, p + q)
    <2>1. text \in Seq(Int) /\ p \in Nat /\ r \in Nat
      BY <1>4, <1>5
    <2>2. CutsTo(held, text, p, r)
      BY <2>1, WindowCut, Zenon
    <2> QED BY <2>2 DEF CutsTo
  <1>8. /\ b \in Nat /\ b >= 1 /\ b <= r - p + 1 /\ p + b - 1 = e - 1 /\ e - 1 \in Nat
        /\ b - 2 \in Nat /\ 1 <= b - 2 + 1 /\ b - 2 <= r - p /\ p + (b - 2) = e - 2
        /\ 1 <= r - p + 1 /\ e - 2 \in Nat /\ p <= e - 2 /\ e - 2 <= e - 2
    BY <1>2, <1>4, <1>5, <1>6
  <1>9. Window(new, text, e - 1, r)
    BY <1>7, <1>8
  <1>10. From(held, b) = new
    BY DEF From
  <1>11. SubSeq(held, 1, b - 2) = SubSeq(text, p + 1, e - 2)
    <2> DEFINE a == b - 2
    <2>1. a \in Nat /\ 1 <= a + 1 /\ a <= r - p /\ p + a = e - 2 /\ 1 <= r - p + 1
      BY <1>8
    <2> DEFINE one == 1
    <2>2. one \in Nat /\ one >= 1 /\ one <= r - p + 1 /\ one <= a + 1
      BY <2>1
    <2> HIDE DEF a, one
    <2>3. SubSeq(held, one, a) = SubSeq(text, p + one, p + a)
      BY <1>7, <2>1, <2>2
    <2> QED BY <2>1, <2>3 DEF a, one
  <1>12. Upto(part.data, p - h) \o SubSeq(text, p + 1, e - 2) = part.data
    <2>1. /\ \A a, q \in Nat : h <= a /\ a <= q /\ q <= e - 2 =>
              Upto(part.data, a - h) \o SubSeq(text, a + 1, q) = Upto(part.data, q - h)
          /\ Upto(part.data, e - 2 - h) = part.data
      <3>1. DataIn(text, part.data, h, e)
        BY <1>1, <1>2, DataThere, Zenon
      <3> QED BY <3>1 DEF DataIn
    <2> QED BY <1>2, <1>5, <1>8, <2>1
  <1>13. SubSeq(held, 1, b - 2) \in Seq(Int)
    <2> DEFINE last == b - 2
    <2>1. 1 \in Int /\ last \in Int /\ 1 >= 1 /\ last <= Len(held) /\ 1 <= last + 1
      BY <1>5, <1>8
    <2> HIDE DEF last
    <2>2. SubSeq(held, 1, last) \in Seq(Int)
      BY <1>5, <2>1, PieceAt
    <2> QED BY <2>2 DEF last
  <1>14. Find(new, BoundaryEnd) = 1 => j = Len(parts)
    <2> SUFFICES ASSUME Find(new, BoundaryEnd) = 1, j < Len(parts) PROVE FALSE
      BY <1>3
    <2>1. /\ new \in Seq(Int) /\ Len(new) = r - (e - 1)
          /\ \A i \in 1..r - (e - 1) : new[i] = text[e - 1 + i]
      BY <1>9 DEF Window
    <2> HIDE DEF new
    <2>2. BoundaryEnd \in Seq(Int) /\ Len(BoundaryEnd) = 3 /\ BoundaryEnd[3] = Dashes
          /\ LineEnd # Dashes
      BY MarksAre
    <2>3. Find(new, BoundaryEnd) # NPos
      BY DEF NPos
    <2>4. /\ Find(new, BoundaryEnd) \in 1..Len(new) - Len(BoundaryEnd) + 1
          /\ \A i \in 1..Len(BoundaryEnd) : new[Find(new, BoundaryEnd) + i - 1] = BoundaryEnd[i]
      BY <2>1, <2>2, <2>3, FoundThere
    <2>5. 3 \in 1..Len(BoundaryEnd) /\ 1 + 3 - 1 = 3 /\ 3 \in 1..r - (e - 1) /\ e - 1 + 3 = e + 2
      BY <1>4, <1>5, <2>1, <2>2, <2>4
    <2>6. new[3] = Dashes
      BY <2>2, <2>4, <2>5
    <2> QED BY <1>1, <2>1, <2>2, <2>5, <2>6
  <1> QED BY <1>8, <1>9, <1>10, <1>11, <1>12, <1>13, <1>14 DEF s, h, e, part, DataEnds

\* Data without a beginning of the boundary.
LEMMA FileDataStep ==
  ASSUME NEW parts \in Seq(WrittenParts), NEW text, text = MultipartText(parts),
         NEW j \in 1..Len(parts), NEW held, NEW p, NEW r, Window(held, text, p, r),
         DataAt(parts, j) <= p, p < BoundaryAt(parts, j + 1) - 1,
         FindSequence(held, BoundaryWithEndMark) = NPos
  PROVE  /\ DataAt(parts, j) <= r /\ r < BoundaryAt(parts, j + 1) - 1
         /\ Upto(parts[j].data, p - DataAt(parts, j)) \o held =
              Upto(parts[j].data, r - DataAt(parts, j))
  <1> DEFINE s == BoundaryAt(parts, j)
             h == DataAt(parts, j)
             e == BoundaryAt(parts, j + 1)
             part == parts[j]
  <1>1. Segment(text, s, h, e, part)
    BY SegmentIs
  <1>2. part \in WrittenParts /\ h <= p /\ p < e - 1
    BY ElementOfSeq
  <1> HIDE DEF s, h, e, part
  <1>3. h \in Nat /\ e \in Nat /\ text \in Seq(Int)
    BY <1>1 DEF Segment
  <1>4. p \in Nat /\ r \in Nat /\ p <= r /\ r <= Len(text)
    BY DEF Window
  <1>5. r < e - 1
    BY <1>1, <1>2, MarkSeen
  <1>6. held = SubSeq(text, p + 1, r)
    <2>1. text \in Seq(Int) /\ p \in Nat /\ r \in Nat /\ p <= r /\ r <= Len(text)
      BY <1>3, <1>4
    <2> QED BY <2>1, WindowIs
  <1>7. \A a, q \in Nat : h <= a /\ a <= q /\ q <= e - 2 =>
              Upto(part.data, a - h) \o SubSeq(text, a + 1, q) = Upto(part.data, q - h)
    <2>1. DataIn(text, part.data, h, e)
      BY <1>1, <1>2, DataThere, Zenon
    <2> QED BY <2>1 DEF DataIn
  <1>8. Upto(part.data, p - h) \o held = Upto(part.data, r - h)
    <2>1. r <= e - 2
      BY <1>3, <1>4, <1>5
    <2> QED BY <1>2, <1>4, <1>6, <1>7, <2>1
  <1> QED BY <1>2, <1>3, <1>4, <1>5, <1>8 DEF s, h, e, part

\* A record that begins with a beginning of the line end and the boundary: it is that of
\* the next part, or too short to tell.
LEMMA MarkStays ==
  ASSUME NEW parts \in Seq(WrittenParts), NEW text, text = MultipartText(parts),
         NEW j \in 1..Len(parts), NEW held, NEW p, NEW r, Window(held, text, p, r),
         DataAt(parts, j) <= p, p < BoundaryAt(parts, j + 1) - 1,
         FindSequence(held, BoundaryWithEndMark) = 1
  PROVE  /\ r = Len(text) \/ Find(held, HeadersEndMark) # NPos =>
              p = BoundaryAt(parts, j + 1) - 2
         /\ Upto(parts[j].data, BoundaryAt(parts, j + 1) - 2 - DataAt(parts, j)) = parts[j].data
  <1> DEFINE s == BoundaryAt(parts, j)
             h == DataAt(parts, j)
             e == BoundaryAt(parts, j + 1)
             part == parts[j]
  <1>1. Segment(text, s, h, e, part)
    BY SegmentIs
  <1>2. part \in WrittenParts /\ h <= p /\ p < e - 1
    BY ElementOfSeq
  <1> HIDE DEF s, h, e, part
  <1>3. h \in Nat /\ e \in Nat /\ text \in Seq(Int) /\ e + 3 <= Len(text)
    BY <1>1 DEF Segment
  <1>4. p \in Nat /\ r \in Nat /\ p <= r /\ held \in Seq(Int) /\ Len(held) = r - p
    BY DEF Window
  <1>5. /\ r - p >= 3 => p = e - 2
        /\ Begins(held, BoundaryWithEndMark, 1)
    <2>1. 1 # NPos
      BY DEF NPos
    <2> QED BY <1>1, <1>2, <2>1, MarkSeen
  <1>6. r = Len(text) => r - p >= 3
    BY <1>2, <1>3, <1>4
  <1>7. Find(held, HeadersEndMark) # NPos => r - p >= 3
    <2> SUFFICES ASSUME Find(held, HeadersEndMark) # NPos, r - p < 3 PROVE FALSE
      BY <1>4
    <2> DEFINE at == Find(held, HeadersEndMark)
    <2>1. /\ HeadersEndMark \in Seq(Int) /\ Len(HeadersEndMark) = 2 /\ HeadersEndMark[2] = LineEnd
          /\ Len(BoundaryWithEndMark) = 3 /\ BoundaryWithEndMark[2] = Dashes /\ LineEnd # Dashes
      BY MarksAre
    <2>2. /\ at \in 1..Len(held) - Len(HeadersEndMark) + 1
          /\ \A i \in 1..Len(HeadersEndMark) : held[at + i - 1] = HeadersEndMark[i]
      BY <1>4, <2>1, FoundThere
    <2> HIDE DEF at
    <2>3. at = 1 /\ 2 \in 1..Len(HeadersEndMark) /\ 1 + 2 - 1 = 2 /\ 1 + 2 - 1 <= Len(held)
          /\ 2 \in 1..Len(BoundaryWithEndMark)
      BY <1>4, <2>1, <2>2
    <2>4. held[2] = LineEnd
      BY <2>1, <2>2, <2>3
    <2>5. held[2] = Dashes
      BY <1>5, <2>1, <2>3 DEF Begins
    <2> QED BY <2>1, <2>4, <2>5
  <1>8. Upto(part.data, e - 2 - h) = part.data
    <2>1. DataIn(text, part.data, h, e)
      BY <1>1, <1>2, DataThere, Zenon
    <2> QED BY <2>1 DEF DataIn
  <1> QED BY <1>5, <1>6, <1>7, <1>8 DEF s, h, e, part
=============================================================================
