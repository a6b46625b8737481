---------------------------- MODULE Paths_proofs ----------------------------
(***************************************************************************)
(* Theorems about Paths, for texts and paths of any length and any calls:   *)
(* the parser, the string of a path, and what -s leaves out.                *)
(*                                                                          *)
(* Both the loop of the parser and the string are recursive functions.  A   *)
(* text is followed by the position in it, a path by the number of elements *)
(* that the string has got.                                                 *)
(***************************************************************************)
EXTENDS Paths, SequenceTheorems, Induction, TLAPS

Words == Seq(Chars)
Stroke == <<"/">>

LEMMA StrokeIs == Stroke \in Words /\ Len(Stroke) = 1 /\ Stroke[1] = "/"
<1>1. "/" \in Chars
  BY DEF Chars
<1> QED
  BY <1>1 DEF Stroke, Words

-----------------------------------------------------------------------------
(* The string of a path.                                                    *)

(* What the first elements of a path come to, one after the other. *)
Joins(path, t) ==
  /\ t \in [0..Len(path) -> Words]
  /\ t[0] = <<>>
  /\ \A n \in 1..Len(path) : t[n] = t[n-1] \o Stroke \o path[n]

LEMMA TextIs ==
  ASSUME NEW path \in Seq(Words)
  PROVE  \E t : Joins(path, t) /\ Text(path) = t[Len(path)]
<1> DEFINE last == Len(path)
           step == [n \in 1..last |-> [s \in Words |-> s \o Stroke \o path[n]]]
           t == CHOOSE f : f = [n \in 0..last |-> IF n = 0 THEN <<>>
                                                  ELSE f[n-1] \o <<"/">> \o path[n]]
<1>1. last \in Nat /\ \A n \in 1..last : path[n] \in Words
  BY LenProperties, ElementOfSeq
<1>2. \A s \in Words, e \in Words : s \o Stroke \o e \in Words
  BY StrokeIs, ConcatProperties DEF Words
<1>3. step \in [1..last -> [Words -> Words]]
  BY <1>1, <1>2
<1>4. <<>> \in Words
  BY EmptySeq DEF Words
<1>a. PICK f : Recurs(f, Words, <<>>, last, step)
  <2> HIDE DEF step, last
  <2> QED
    BY <1>1, <1>3, <1>4, Recursion
<1>5. f \in [0..last -> Words] /\ f[0] = <<>> /\ \A n \in 1..last : f[n] = step[n][f[n-1]]
  BY <1>a DEF Recurs
<1>6. f = [n \in 0..last |-> IF n = 0 THEN <<>> ELSE f[n-1] \o <<"/">> \o path[n]]
  <2> SUFFICES ASSUME NEW n \in 0..last, n # 0
               PROVE  f[n] = f[n-1] \o <<"/">> \o path[n]
    BY <1>5
  <2>1. n \in 1..last /\ n - 1 \in 0..last
    BY <1>1
  <2>2. f[n-1] \in Words
    BY <1>5, <2>1
  <2> QED
    BY <1>5, <2>1, <2>2 DEF Stroke
<1>7. t = [n \in 0..last |-> IF n = 0 THEN <<>> ELSE t[n-1] \o <<"/">> \o path[n]]
  BY <1>6
<1> HIDE DEF t
<1>8. t[0] = <<>> /\ \A n \in 1..last : t[n] = t[n-1] \o Stroke \o path[n]
  BY <1>1, <1>7 DEF Stroke
<1>9. \A n \in 0..last : t[n] \in Words
  <2> DEFINE Good == {n \in Nat : n <= last => t[n] \in Words}
  <2>1. 0 \in Good
    BY <1>4, <1>8
  <2>2. ASSUME NEW n \in Nat, n \in Good
        PROVE  n + 1 \in Good
    <3> SUFFICES ASSUME n + 1 <= last
                 PROVE  t[n+1] \in Words
      OBVIOUS
    <3>1. n + 1 \in 1..last /\ (n + 1) - 1 = n /\ n <= last
      BY <1>1
    <3> QED
      BY <1>1, <1>2, <1>8, <2>2, <3>1
  <2>3. Nat \subseteq Good
    <3> HIDE DEF Good
    <3> QED
      BY <2>1, <2>2, SetInduction
  <2> QED
    BY <1>1, <2>3
<1>10. t \in [0..last -> Words]
  BY <1>7, <1>9
<1>11. Text(path) = t[last]
  BY DEF Text, t
<1> QED
  BY <1>8, <1>10, <1>11 DEF Joins

LEMMA TextType ==
  ASSUME NEW path \in Seq(Words)
  PROVE  Text(path) \in Words
<1>1. PICK t : Joins(path, t) /\ Text(path) = t[Len(path)]
  BY TextIs
<1>2. Len(path) \in 0..Len(path)
  BY LenProperties
<1> QED
  BY <1>1, <1>2 DEF Joins

(* Paths that begin alike have strings that begin alike. *)
LEMMA JoinsAlike ==
  ASSUME NEW p, NEW t, Joins(p, t), NEW q, NEW u, Joins(q, u), NEW n \in Nat,
         Len(p) \in Nat, Len(q) \in Nat, n <= Len(p), n <= Len(q),
         \A i \in 1..n : p[i] = q[i]
  PROVE  t[n] = u[n]
<1> DEFINE Same == {m \in Nat : m <= n => t[m] = u[m]}
<1>1. 0 \in Same
  BY DEF Joins
<1>2. ASSUME NEW m \in Nat, m \in Same
      PROVE  m + 1 \in Same
  <2> SUFFICES ASSUME m + 1 <= n
               PROVE  t[m+1] = u[m+1]
    OBVIOUS
  <2>1. m + 1 \in 1..n /\ m + 1 \in 1..Len(p) /\ m + 1 \in 1..Len(q) /\ (m + 1) - 1 = m /\ m <= n
    OBVIOUS
  <2>2. t[m+1] = t[m] \o Stroke \o p[m+1] /\ u[m+1] = u[m] \o Stroke \o q[m+1]
    BY <2>1 DEF Joins
  <2> QED
    BY <1>2, <2>1, <2>2
<1>3. Nat \subseteq Same
  <2> HIDE DEF Same
  <2> QED
    BY <1>1, <1>2, SetInduction
<1> QED
  BY <1>3

LEMMA TextEmpty == Text(<<>>) = <<>>
<1>1. <<>> \in Seq(Words) /\ Len(<<>>) = 0
  BY EmptySeq
<1>2. PICK t : Joins(<<>>, t) /\ Text(<<>>) = t[Len(<<>>)]
  BY <1>1, TextIs
<1> QED
  BY <1>1, <1>2 DEF Joins

LEMMA TextAppend ==
  ASSUME NEW path \in Seq(Words), NEW e \in Words
  PROVE  Text(Append(path, e)) = Text(path) \o Stroke \o e
<1> DEFINE longer == Append(path, e)
           n == Len(path)
<1>1. longer \in Seq(Words) /\ Len(longer) = n + 1 /\ n \in Nat /\ longer[n+1] = e
      /\ \A i \in 1..n : longer[i] = path[i]
  BY AppendProperties, LenProperties
<1>2. PICK t : Joins(path, t) /\ Text(path) = t[n]
  BY TextIs
<1> HIDE DEF longer, n
<1>3. PICK u : Joins(longer, u) /\ Text(longer) = u[Len(longer)]
  BY <1>1, TextIs
<1>4. Len(path) = n
  BY DEF n
<1>5. u[n] = t[n]
  BY <1>1, <1>2, <1>3, <1>4, JoinsAlike
<1>6. n + 1 \in 1..Len(longer) /\ (n + 1) - 1 = n
  BY <1>1
<1>7. u[n+1] = u[n] \o Stroke \o longer[n+1]
  BY <1>3, <1>6 DEF Joins
<1>8. Text(longer) = Text(path) \o Stroke \o e
  BY <1>1, <1>2, <1>3, <1>5, <1>7
<1> QED
  BY <1>8 DEF longer

-----------------------------------------------------------------------------
(* The parser.                                                              *)

Scanners == [path : Seq(Words), buffer : Words, index : Nat, bad : BOOLEAN]
Begin == [path |-> <<>>, buffer |-> <<>>, index |-> 1, bad |-> FALSE]

(* The states of the loop over a text. *)
Follows(text, f) ==
  /\ f \in [0..(Len(text) - 1) -> Scanners]
  /\ f[0] = Begin
  /\ \A n \in 1..(Len(text) - 1) : f[n] = Scan(f[n-1], text[n+1])

LEMMA BeginType == Begin \in Scanners
<1>1. <<>> \in Words /\ <<>> \in Seq(Words)
  BY EmptySeq DEF Words
<1> QED
  BY <1>1 DEF Begin, Scanners

LEMMA ScanType ==
  ASSUME NEW s \in Scanners, NEW ch \in Chars
  PROVE  Scan(s, ch) \in Scanners
<1>1. s.path \in Seq(Words) /\ s.buffer \in Words /\ s.index \in Nat /\ s.bad \in BOOLEAN
  BY DEF Scanners
<1>2. Append(s.path, s.buffer) \in Seq(Words)
  BY <1>1, AppendProperties
<1>3. Append(s.buffer, ch) \in Words
  BY <1>1, AppendProperties DEF Words
<1>4. <<>> \in Words /\ s.index + 1 \in Nat
  BY <1>1, EmptySeq DEF Words
<1> HIDE DEF Words
<1>5. CASE s.bad
  BY <1>5 DEF Scan
<1>6. CASE ~s.bad /\ Unaccepted(s, ch)
  BY <1>6 DEF Scan, Scanners
<1>7. CASE ~s.bad /\ ~Unaccepted(s, ch) /\ ch = "/"
  BY <1>2, <1>4, <1>7 DEF Scan, Scanners, EndElement
<1>8. CASE ~s.bad /\ ~Unaccepted(s, ch) /\ ch # "/"
  BY <1>3, <1>4, <1>8 DEF Scan, Scanners
<1> QED
  BY <1>5, <1>6, <1>7, <1>8

LEMMA ScannedIs ==
  ASSUME NEW text \in Words, text # <<>>
  PROVE  \E f : Follows(text, f) /\ Scanned(text) = f[Len(text) - 1]
<1> DEFINE last == Len(text) - 1
           step == [n \in 1..last |-> [s \in Scanners |-> Scan(s, text[n+1])]]
           scan == CHOOSE f : f = [n \in 0..last |->
                                     IF n = 0 THEN [path |-> <<>>, buffer |-> <<>>,
                                                    index |-> 1, bad |-> FALSE]
                                     ELSE Scan(f[n-1], text[n+1])]
<1>0. Len(text) \in Nat /\ Len(text) # 0 /\ \A n \in 1..Len(text) : text[n] \in Chars
  BY LenProperties, ElementOfSeq, EmptySeq DEF Words
<1>1. last \in Nat /\ \A n \in 1..last : text[n+1] \in Chars
  BY <1>0
<1>2. \A n \in 1..last : \A s \in Scanners : Scan(s, text[n+1]) \in Scanners
  BY <1>1, ScanType
<1>3. step \in [1..last -> [Scanners -> Scanners]]
  BY <1>2
<1>a. PICK f : Recurs(f, Scanners, Begin, last, step)
  <2> HIDE DEF step, last
  <2> QED
    BY <1>1, <1>3, BeginType, Recursion
<1>5. f \in [0..last -> Scanners] /\ f[0] = Begin /\ \A n \in 1..last : f[n] = step[n][f[n-1]]
  BY <1>a DEF Recurs
<1>6. \A n \in 1..last : f[n] = Scan(f[n-1], text[n+1])
  <2> SUFFICES ASSUME NEW n \in 1..last
               PROVE  f[n] = Scan(f[n-1], text[n+1])
    OBVIOUS
  <2>1. n - 1 \in 0..last
    BY <1>1
  <2>2. f[n-1] \in Scanners
    BY <1>5, <2>1
  <2> QED
    BY <1>5, <2>1, <2>2
<1>7. f = [n \in 0..last |-> IF n = 0 THEN [path |-> <<>>, buffer |-> <<>>,
                                            index |-> 1, bad |-> FALSE]
                             ELSE Scan(f[n-1], text[n+1])]
  <2>1. \A n \in 0..last : n # 0 => n \in 1..last
    BY <1>1
  <2> QED
    BY <1>5, <1>6, <2>1 DEF Begin
<1>8. scan = [n \in 0..last |-> IF n = 0 THEN [path |-> <<>>, buffer |-> <<>>,
                                               index |-> 1, bad |-> FALSE]
                                ELSE Scan(scan[n-1], text[n+1])]
  BY <1>7
<1> HIDE DEF scan
<1>9. DOMAIN scan = 0..last /\ scan[0] = Begin
      /\ \A n \in 1..last : scan[n] = Scan(scan[n-1], text[n+1])
  <2>1. 0 \in 0..last /\ \A n \in 1..last : n \in 0..last /\ n # 0
    BY <1>1
  <2> QED
    BY <1>8, <2>1 DEF Begin
<1>10. \A n \in 0..last : scan[n] \in Scanners
  <2> DEFINE Good == {n \in Nat : n <= last => scan[n] \in Scanners}
  <2>1. 0 \in Good
    BY <1>9, BeginType
  <2>2. ASSUME NEW n \in Nat, n \in Good
        PROVE  n + 1 \in Good
    <3> SUFFICES ASSUME n + 1 <= last
                 PROVE  scan[n+1] \in Scanners
      OBVIOUS
    <3>1. n + 1 \in 1..last /\ (n + 1) - 1 = n /\ n <= last
      BY <1>1
    <3>2. scan[n+1] = Scan(scan[n], text[(n+1)+1])
      BY <1>9, <3>1
    <3>3. scan[n] \in Scanners
      BY <2>2, <3>1
    <3> QED
      BY <1>2, <3>1, <3>2, <3>3
  <2>3. Nat \subseteq Good
    <3> HIDE DEF Good
    <3> QED
      BY <2>1, <2>2, SetInduction
  <2> QED
    BY <1>1, <2>3
<1>11. scan \in [0..last -> Scanners]
  BY <1>8, <1>10
<1>12. Scanned(text) = scan[last]
  BY DEF Scanned, scan
<1> QED
  BY <1>9, <1>11, <1>12 DEF Follows

(* The first n characters begin with a stroke and have no white space and   *)
(* no two strokes in a row.                                                 *)
Fine(text, n) ==
  /\ text[1] = "/"
  /\ \A i \in 1..n : text[i] # " "
  /\ \A i \in 1..(n - 1) : text[i] = "/" => text[i+1] # "/"

LEMMA FineNext ==
  ASSUME NEW text, NEW n \in Nat \ {0}
  PROVE  Fine(text, n + 1) <=>
           Fine(text, n) /\ text[n+1] # " " /\ ~(text[n] = "/" /\ text[n+1] = "/")
<1>1. \A i \in 1..(n+1) : i \in 1..n \/ i = n + 1
  OBVIOUS
<1>2. \A i \in 1..n : i \in 1..(n+1)
  OBVIOUS
<1>3. n + 1 \in 1..(n+1) /\ n \in 1..n /\ (n + 1) - 1 = n
  OBVIOUS
<1>4. \A i \in 1..n : i \in 1..(n-1) \/ i = n
  OBVIOUS
<1>5. \A i \in 1..(n-1) : i \in 1..n
  OBVIOUS
<1> QED
  BY <1>1, <1>2, <1>3, <1>4, <1>5 DEF Fine

LEMMA FineDown ==
  ASSUME NEW text, NEW n \in Nat, NEW m \in Nat, m <= n, Fine(text, n)
  PROVE  Fine(text, m)
<1>1. \A i \in 1..m : i \in 1..n
  OBVIOUS
<1>2. \A i \in 1..(m-1) : i \in 1..(n-1)
  OBVIOUS
<1> QED
  BY <1>1, <1>2 DEF Fine

ValidElements(path) == \A i \in 1..Len(path) : ElementIsValid(path[i])

(* What the loop has made of the first n + 1 characters. *)
Kept(text, n, s) ==
  /\ s \in Scanners
  /\ ValidElements(s.path)
  /\ s.bad => s.index \in 1..n /\ Fine(text, s.index) /\ ~Fine(text, s.index + 1)
  /\ ~s.bad =>
       /\ s.index = n + 1 /\ Fine(text, n + 1)
       /\ s.buffer = <<>> <=> text[n+1] = "/"
       /\ \A i \in 1..Len(s.buffer) : s.buffer[i] \in Letters
       /\ Text(s.path) \o Stroke \o s.buffer = SubSeq(text, 1, n + 1)

LEMMA AppendLast ==
  ASSUME NEW a \in Words, NEW b \in Words, NEW c \in Words, NEW e \in Chars
  PROVE  a \o b \o Append(c, e) = Append(a \o b \o c, e)
<1>1. a \o b \in Words
  BY ConcatProperties DEF Words
<1>2. (a \o b) \o c \in Words
  BY <1>1, ConcatProperties DEF Words
<1>3. <<e>> \in Words
  BY DEF Words
<1>4. Append(c, e) = c \o <<e>>
  BY AppendIsConcat DEF Words
<1>5. Append((a \o b) \o c, e) = ((a \o b) \o c) \o <<e>>
  BY <1>2, AppendIsConcat DEF Words
<1>6. ((a \o b) \o c) \o <<e>> = (a \o b) \o (c \o <<e>>)
  BY <1>1, <1>3, ConcatAssociative DEF Words
<1> QED
  BY <1>4, <1>5, <1>6

LEMMA SubSeqNext ==
  ASSUME NEW X, NEW text \in Seq(X), NEW n \in Nat \ {0}, n + 1 <= Len(text)
  PROVE  SubSeq(text, 1, n + 1) = Append(SubSeq(text, 1, n), text[n+1])
<1>1. Len(text) \in Nat /\ 1 \in 1..Len(text) /\ n + 1 \in 1..Len(text) /\ (n + 1) - 1 = n
  BY LenProperties
<1>2. \A i \in 1..n : text[i] \in X
  BY <1>1, ElementOfSeq
<1>3. SubSeq(text, 1, n) \in Seq(X)
  BY <1>2, SubSeqProperties
<1>4. text[n+1] \in X
  BY <1>1, ElementOfSeq
<1>5. SubSeq(text, 1, n + 1) = SubSeq(text, 1, (n + 1) - 1) \o <<text[n+1]>>
  BY <1>1, SubSeqRecursiveSecond
<1>6. Append(SubSeq(text, 1, n), text[n+1]) = SubSeq(text, 1, n) \o <<text[n+1]>>
  BY <1>3, <1>4, AppendIsConcat
<1> QED
  BY <1>1, <1>5, <1>6

LEMMA KeptBegin ==
  ASSUME NEW text \in Words, text # <<>>, text[1] = "/"
  PROVE  Kept(text, 0, Begin)
<1>1. Begin.path = <<>> /\ Begin.buffer = <<>> /\ Begin.index = 1 /\ ~Begin.bad
  BY DEF Begin
<1>2. Len(text) \in Nat /\ Len(text) # 0
  BY EmptySeq, LenProperties DEF Words
<1>3. Fine(text, 1)
  <2>1. text[1] # " " /\ (\A i \in 1..1 : i = 1) /\ \A i \in 1..(1-1) : FALSE
    OBVIOUS
  <2> QED
    BY <2>1 DEF Fine
<1>4. SubSeq(text, 1, 1) = <<text[1]>>
  <2>1. 1 \in 1..Len(text) /\ text[1] \in Chars
    <3>1. 1 \in 1..Len(text)
      BY <1>2
    <3> QED
      BY <3>1, ElementOfSeq DEF Words
  <2>2. SubSeq(text, 1, 1) = SubSeq(text, 1, 1 - 1) \o <<text[1]>>
    BY <2>1, SubSeqRecursiveSecond DEF Words
  <2>3. SubSeq(text, 1, 1 - 1) = <<>>
    BY SubSeqEmpty
  <2>4. <<text[1]>> \in Seq(Chars)
    BY <2>1
  <2>5. <<>> \o <<text[1]>> = <<text[1]>>
    BY <2>4, ConcatEmptySeq
  <2> QED
    BY <2>2, <2>3, <2>5
<1>5. Text(<<>>) \o Stroke \o <<>> = Stroke
  <2>1. <<>> \o Stroke = Stroke /\ Stroke \o <<>> = Stroke
    BY StrokeIs, ConcatEmptySeq DEF Words
  <2> QED
    BY <2>1, TextEmpty
<1>6. Len(<<>>) = 0 /\ 0 + 1 = 1
  BY EmptySeq
<1>7. ValidElements(Begin.path) /\ \A i \in 1..Len(Begin.buffer) : Begin.buffer[i] \in Letters
  BY <1>1, <1>6 DEF ValidElements
<1> QED
  BY <1>1, <1>3, <1>4, <1>5, <1>6, <1>7, BeginType DEF Kept, Stroke

LEMMA KeptNext ==
  ASSUME NEW text \in Words, NEW n \in Nat, n + 2 <= Len(text), NEW s, Kept(text, n, s)
  PROVE  Kept(text, n + 1, Scan(s, text[n+2]))
<1> DEFINE ch == text[n+2]
           r == Scan(s, ch)
<1> SUFFICES Kept(text, n + 1, r)
  OBVIOUS
<1>1. n + 1 \in Nat \ {0} /\ n + 2 = (n + 1) + 1 /\ n + 2 \in Nat
  OBVIOUS
<1>2. ch \in Chars
  <2>1. n + 2 \in 1..Len(text)
    BY LenProperties DEF Words
  <2> QED
    BY <2>1, ElementOfSeq DEF Words
<1>3. s \in Scanners /\ s.path \in Seq(Words) /\ s.buffer \in Words /\ s.index \in Nat
      /\ s.bad \in BOOLEAN /\ ValidElements(s.path)
  BY DEF Kept, Scanners
<1>4. r \in Scanners
  BY <1>2, <1>3, ScanType
<1>5. SubSeq(text, 1, n + 2) = Append(SubSeq(text, 1, n + 1), ch)
  <2>1. SubSeq(text, 1, (n + 1) + 1) = Append(SubSeq(text, 1, n + 1), text[(n+1)+1])
    BY <1>1, SubSeqNext DEF Words
  <2> QED
    BY <1>1, <2>1
<1>6. Fine(text, n + 2) <=>
        Fine(text, n + 1) /\ ch # " " /\ ~(text[n+1] = "/" /\ ch = "/")
  <2>1. Fine(text, (n + 1) + 1) <=>
          Fine(text, n + 1) /\ text[(n+1)+1] # " " /\ ~(text[n+1] = "/" /\ text[(n+1)+1] = "/")
    BY <1>1, FineNext
  <2> QED
    BY <1>1, <2>1
<1>7. CASE s.bad
  <2>1. r = s
    BY <1>7 DEF Scan
  <2>2. s.index \in 1..(n+1) /\ Fine(text, s.index) /\ ~Fine(text, s.index + 1)
    BY <1>7 DEF Kept
  <2> QED
    BY <1>3, <1>7, <2>1, <2>2 DEF Kept
<1>8. CASE ~s.bad
  <2>1. /\ s.index = n + 1 /\ Fine(text, n + 1)
        /\ s.buffer = <<>> <=> text[n+1] = "/"
        /\ \A i \in 1..Len(s.buffer) : s.buffer[i] \in Letters
        /\ Text(s.path) \o Stroke \o s.buffer = SubSeq(text, 1, n + 1)
    BY <1>8 DEF Kept
  <2>2. CASE Unaccepted(s, ch)
    <3>1. r = [s EXCEPT !.bad = TRUE]
      BY <1>8, <2>2 DEF Scan
    <3>2. r.bad /\ r.index = n + 1 /\ r.path = s.path
      BY <1>3, <2>1, <3>1 DEF Scanners
    <3>3. ~Fine(text, n + 2)
      BY <1>6, <2>1, <2>2 DEF Unaccepted
    <3>4. r.index \in 1..(n+1) /\ r.index + 1 = n + 2
      BY <3>2
    <3> HIDE DEF r
    <3> QED
      BY <1>3, <1>4, <2>1, <3>2, <3>3, <3>4 DEF Kept
  <2>3. CASE ~Unaccepted(s, ch) /\ ch = "/"
    <3>1. r = [EndElement(s) EXCEPT !.index = @ + 1]
      BY <1>8, <2>3 DEF Scan
    <3>2. r.path = Append(s.path, s.buffer) /\ r.buffer = <<>> /\ r.index = n + 2 /\ r.bad = s.bad
      BY <1>3, <2>1, <3>1 DEF Scanners, EndElement
    <3>3. Fine(text, n + 2)
      BY <1>6, <2>1, <2>3 DEF Unaccepted
    <3>4. ElementIsValid(s.buffer)
      <4>1. s.buffer # <<>>
        BY <2>3 DEF Unaccepted
      <4>2. DOMAIN s.buffer = 1..Len(s.buffer)
        BY <1>3, LenProperties DEF Words
      <4> QED
        BY <2>1, <4>1, <4>2 DEF ElementIsValid
    <3>5. ValidElements(r.path)
      <4>1. Len(r.path) = Len(s.path) + 1 /\ r.path[Len(s.path) + 1] = s.buffer
            /\ \A i \in 1..Len(s.path) : r.path[i] = s.path[i]
        BY <1>3, <3>2, AppendProperties
      <4>2. Len(s.path) \in Nat
        BY <1>3, LenProperties
      <4>3. \A i \in 1..Len(r.path) : i \in 1..Len(s.path) \/ i = Len(s.path) + 1
        BY <4>1, <4>2
      <4> QED
        BY <1>3, <3>4, <4>1, <4>3 DEF ValidElements
    <3>6. Text(r.path) = SubSeq(text, 1, n + 1)
      BY <1>3, <2>1, <3>2, TextAppend
    <3>7. Text(r.path) \o Stroke \o r.buffer = SubSeq(text, 1, n + 2)
      <4>1. r.path \in Seq(Words)
        BY <1>4 DEF Scanners
      <4>2. Text(r.path) \in Words
        BY <4>1, TextType
      <4>3. Text(r.path) \o Stroke \in Words
        BY <4>2, StrokeIs, ConcatProperties DEF Words
      <4>4. (Text(r.path) \o Stroke) \o <<>> = Text(r.path) \o Stroke
        BY <4>3, ConcatEmptySeq DEF Words
      <4>5. Append(Text(r.path), ch) = Text(r.path) \o Stroke
        BY <1>2, <2>3, <4>2, AppendIsConcat DEF Words, Stroke
      <4> QED
        BY <1>5, <3>2, <3>6, <4>4, <4>5
    <3>8. \A i \in 1..Len(r.buffer) : r.buffer[i] \in Letters
      BY <3>2, EmptySeq
    <3> HIDE DEF r
    <3> QED
      BY <1>1, <1>4, <1>8, <2>3, <3>2, <3>3, <3>5, <3>7, <3>8 DEF Kept
  <2>4. CASE ~Unaccepted(s, ch) /\ ch # "/"
    <3>1. r = [[s EXCEPT !.buffer = Append(@, ch)] EXCEPT !.index = @ + 1]
      BY <1>8, <2>4 DEF Scan
    <3>2. r.path = s.path /\ r.buffer = Append(s.buffer, ch) /\ r.index = n + 2 /\ r.bad = s.bad
      BY <1>3, <2>1, <3>1 DEF Scanners
    <3>3. Fine(text, n + 2)
      BY <1>6, <2>1, <2>4 DEF Unaccepted
    <3>4. Len(r.buffer) = Len(s.buffer) + 1 /\ r.buffer[Len(s.buffer) + 1] = ch
          /\ \A i \in 1..Len(s.buffer) : r.buffer[i] = s.buffer[i]
      BY <1>2, <1>3, <3>2, AppendProperties DEF Words
    <3>5. Len(s.buffer) \in Nat
      BY <1>3, LenProperties DEF Words
    <3>6. ch \in Letters
      BY <1>2, <2>4 DEF Chars, Unaccepted
    <3>7. \A i \in 1..Len(r.buffer) : r.buffer[i] \in Letters
      <4>1. \A i \in 1..Len(r.buffer) : i \in 1..Len(s.buffer) \/ i = Len(s.buffer) + 1
        BY <3>4, <3>5
      <4> QED
        BY <2>1, <3>4, <3>6, <4>1
    <3>8. r.buffer # <<>>
      BY <3>4, <3>5, EmptySeq
    <3>9. Text(r.path) \o Stroke \o r.buffer = SubSeq(text, 1, n + 2)
      <4>1. Text(s.path) \in Words
        BY <1>3, TextType
      <4>2. Text(s.path) \in Words /\ Stroke \in Words /\ s.buffer \in Words
        BY <1>3, <4>1, StrokeIs
      <4>3. Text(s.path) \o Stroke \o Append(s.buffer, ch)
              = Append(Text(s.path) \o Stroke \o s.buffer, ch)
        BY ZenonT(60), <1>2, <4>2, AppendLast
      <4> QED
        BY <1>5, <2>1, <3>2, <4>3
    <3> HIDE DEF r
    <3> QED
      BY <1>1, <1>3, <1>4, <1>8, <2>4, <3>2, <3>3, <3>7, <3>8, <3>9 DEF Kept
  <2> QED
    BY <2>2, <2>3, <2>4
<1> QED
  BY <1>3, <1>7, <1>8

LEMMA KeptAll ==
  ASSUME NEW text \in Words, text # <<>>, text[1] = "/"
  PROVE  Kept(text, Len(text) - 1, Scanned(text))
<1>1. PICK f : Follows(text, f) /\ Scanned(text) = f[Len(text) - 1]
  BY ScannedIs
<1>2. Len(text) \in Nat /\ Len(text) # 0
  BY EmptySeq, LenProperties DEF Words
<1> DEFINE Good == {n \in Nat : n <= Len(text) - 1 => Kept(text, n, f[n])}
<1>3. 0 \in Good
  BY <1>1, KeptBegin DEF Follows
<1>4. ASSUME NEW n \in Nat, n \in Good
      PROVE  n + 1 \in Good
  <2> SUFFICES ASSUME n + 1 <= Len(text) - 1
               PROVE  Kept(text, n + 1, f[n+1])
    OBVIOUS
  <2>1. n + 1 \in 1..(Len(text) - 1) /\ (n + 1) - 1 = n /\ (n + 1) + 1 = n + 2
        /\ n <= Len(text) - 1 /\ n + 2 <= Len(text)
    BY <1>2
  <2>2. f[n+1] = Scan(f[n], text[n+2])
    BY <1>1, <2>1 DEF Follows
  <2>3. Kept(text, n, f[n])
    BY <1>4, <2>1
  <2>4. Kept(text, n + 1, Scan(f[n], text[n+2]))
    BY <2>1, <2>3, KeptNext
  <2> QED
    BY <2>2, <2>4
<1>5. Nat \subseteq Good
  <2> HIDE DEF Good
  <2> QED
    BY <1>3, <1>4, SetInduction
<1>6. Len(text) - 1 \in Good /\ Len(text) - 1 <= Len(text) - 1
  <2>1. Len(text) - 1 \in Nat
    BY <1>2
  <2> HIDE DEF Good
  <2> QED
    BY <1>5, <2>1
<1> QED
  BY <1>1, <1>6

LEMMA PathsAreFine ==
  ASSUME NEW text \in Words, text # <<>>
  PROVE  IsPath(text) <=> Fine(text, Len(text)) /\ text[Len(text)] # "/"
<1>1. DOMAIN text = 1..Len(text)
  BY LenProperties DEF Words
<1> QED
  BY <1>1 DEF IsPath, Fine

LEMMA WordAppend ==
  ASSUME NEW text \in Words, NEW ch \in Chars
  PROVE  /\ Append(text, ch) \in Words
         /\ Len(Append(text, ch)) = Len(text) + 1
         /\ \A i \in 1..Len(text) : Append(text, ch)[i] = text[i]
         /\ Append(text, ch)[Len(text) + 1] = ch
BY AppendProperties DEF Words

(* A text can be completed when nothing is wrong with it yet. *)
LEMMA FineIsViable ==
  ASSUME NEW text \in Words, text # <<>>
  PROVE  Viable(text) <=> Fine(text, Len(text))
<1> DEFINE n == Len(text)
<1>1. n \in Nat \ {0}
  BY EmptySeq, LenProperties DEF Words
<1>2. ASSUME NEW ch \in Letters
      PROVE  IsPath(Append(text, ch)) <=> Fine(text, n)
  <2> DEFINE longer == Append(text, ch)
  <2>1. ch \in Chars /\ ch # "/" /\ ch # " "
    BY PathAssumption DEF Chars
  <2>2. longer \in Words /\ Len(longer) = n + 1 /\ longer[n+1] = ch
        /\ \A i \in 1..n : longer[i] = text[i]
    BY <2>1, WordAppend
  <2> HIDE DEF longer, n
  <2>3. longer # <<>>
    BY <1>1, <2>2, EmptySeq
  <2>4. IsPath(longer) <=> Fine(longer, n + 1) /\ longer[n+1] # "/"
    BY <2>2, <2>3, PathsAreFine
  <2>5. Fine(longer, n + 1) <=>
          Fine(longer, n) /\ longer[n+1] # " " /\ ~(longer[n] = "/" /\ longer[n+1] = "/")
    BY <1>1, FineNext
  <2>6. Fine(longer, n) <=> Fine(text, n)
    <3>1. 1 \in 1..n /\ \A i \in 1..(n-1) : i \in 1..n /\ i + 1 \in 1..n
      BY <1>1
    <3> QED
      BY <2>2, <3>1 DEF Fine
  <2>7. IsPath(longer) <=> Fine(text, n)
    BY <2>1, <2>2, <2>4, <2>5, <2>6
  <2> QED
    BY <2>7 DEF longer
<1>3. \E ch : ch \in Letters
  BY PathAssumption
<1> QED
  BY <1>2, <1>3 DEF Viable

LEMMA ViableUpto ==
  ASSUME NEW text \in Words, NEW k \in 1..Len(text)
  PROVE  Viable(SubSeq(text, 1, k)) <=> Fine(text, k)
<1> DEFINE part == SubSeq(text, 1, k)
<1>1. Len(text) \in Nat /\ k \in Nat \ {0} /\ \A i \in 1..k : text[i] \in Chars
  <2>1. Len(text) \in Nat
    BY LenProperties DEF Words
  <2>2. \A i \in 1..k : i \in 1..Len(text)
    BY <2>1
  <2> QED
    BY <2>1, <2>2, ElementOfSeq DEF Words
<1>2. part \in Words /\ Len(part) = k /\ \A i \in 1..k : part[i] = text[i]
  <2>1. 1 \in Int /\ k \in Int /\ 1 <= k
    BY <1>1
  <2>2. /\ SubSeq(text, 1, k) \in Seq(Chars)
        /\ Len(SubSeq(text, 1, k)) = IF 1 <= k THEN k-1+1 ELSE 0
        /\ \A i \in 1..(k-1+1) : SubSeq(text, 1, k)[i] = text[1+i-1]
    BY <1>1, <2>1, SubSeqProperties
  <2>3. k - 1 + 1 = k /\ \A i \in 1..k : 1 + i - 1 = i
    BY <1>1
  <2> QED
    BY <2>1, <2>2, <2>3 DEF Words
<1> HIDE DEF part
<1>3. part # <<>>
  BY <1>1, <1>2, EmptySeq
<1>4. Viable(part) <=> Fine(part, k)
  BY <1>2, <1>3, FineIsViable
<1>5. Fine(part, k) <=> Fine(text, k)
  <2>1. 1 \in 1..k /\ \A i \in 1..(k-1) : i \in 1..k /\ i + 1 \in 1..k
    BY <1>1
  <2> QED
    BY <1>2, <2>1 DEF Fine
<1> QED
  BY <1>4, <1>5 DEF part

ValidPath(path) == path \in Seq(Words) /\ ValidElements(path)

LEMMA ParseIs ==
  ASSUME NEW text \in Words
  PROVE  /\ Parse(text).path # Null <=> IsPath(text)
         /\ Parse(text).path # Null =>
              /\ ValidPath(Parse(text).path)
              /\ Parse(text).path # <<>>
              /\ Text(Parse(text).path) = text
         /\ text # <<>> /\ text[1] = "/" =>
              /\ Viable(SubSeq(text, 1, Parse(text).end))
              /\ Parse(text).end < Len(text) => ~Viable(SubSeq(text, 1, Parse(text).end + 1))
<1>1. CASE text = <<>> \/ text[1] # "/"
  BY <1>1 DEF Parse, IsPath
<1>2. CASE text # <<>> /\ text[1] = "/"
  <2> DEFINE s == Scanned(text)
             n == Len(text)
  <2>1. n \in Nat \ {0} /\ (n - 1) + 1 = n /\ n - 1 \in Nat
    <3>1. n \in Nat \ {0}
      BY <1>2, EmptySeq, LenProperties DEF Words
    <3> QED
      BY <3>1
  <2>2. Kept(text, n - 1, s)
    BY <1>2, KeptAll
  <2>3. Parse(text) = [path |-> IF s.bad \/ s.buffer = <<>> THEN Null
                                ELSE Append(s.path, s.buffer),
                       end |-> s.index]
    BY <1>2 DEF Parse
  <2> HIDE DEF s, n
  <2>4. s.path \in Seq(Words) /\ s.buffer \in Words /\ ValidElements(s.path)
        /\ s.index \in Nat /\ s.bad \in BOOLEAN
    BY <2>2 DEF Kept, Scanners
  <2>5. Append(s.path, s.buffer) \in Seq(Words)
        /\ Len(Append(s.path, s.buffer)) = Len(s.path) + 1
        /\ Append(s.path, s.buffer)[Len(s.path) + 1] = s.buffer
        /\ \A i \in 1..Len(s.path) : Append(s.path, s.buffer)[i] = s.path[i]
    BY <2>4, AppendProperties
  <2>6. Len(s.path) \in Nat
    BY <2>4, LenProperties
  <2>7. Append(s.path, s.buffer) # Null /\ Append(s.path, s.buffer) # <<>>
    <3>1. Append(s.path, s.buffer) # Null
      BY <2>5, PathAssumption DEF Words
    <3>2. Append(s.path, s.buffer) # <<>>
      BY <2>5, <2>6, EmptySeq
    <3> QED
      BY <3>1, <3>2
  <2>8. IsPath(text) <=> Fine(text, n) /\ text[n] # "/"
    BY <1>2, PathsAreFine DEF n
  <2>9. CASE s.bad
    <3>1. s.index \in 1..(n-1) /\ Fine(text, s.index) /\ ~Fine(text, s.index + 1)
      BY <2>2, <2>9 DEF Kept
    <3>2. s.index \in 1..n /\ s.index + 1 \in 1..n /\ s.index + 1 \in Nat /\ s.index + 1 <= n
      BY <2>1, <3>1
    <3>3. ~Fine(text, n)
      BY <2>1, <3>1, <3>2, FineDown
    <3>4. Viable(SubSeq(text, 1, s.index)) /\ ~Viable(SubSeq(text, 1, s.index + 1))
      BY <3>1, <3>2, ViableUpto DEF n
    <3> QED
      BY <2>3, <2>8, <2>9, <3>3, <3>4
  <2>10. CASE ~s.bad
    <3>1. /\ s.index = n /\ Fine(text, n)
          /\ s.buffer = <<>> <=> text[n] = "/"
          /\ \A i \in 1..Len(s.buffer) : s.buffer[i] \in Letters
          /\ Text(s.path) \o Stroke \o s.buffer = SubSeq(text, 1, n)
      BY <2>1, <2>2, <2>10 DEF Kept
    <3>2. Viable(SubSeq(text, 1, n))
      <4>1. n \in 1..n
        BY <2>1
      <4> QED
        BY <3>1, <4>1, ViableUpto DEF n
    <3>3. ~(n < n)
      BY <2>1
    <3>4. CASE s.buffer = <<>>
      BY <2>3, <2>8, <3>1, <3>2, <3>3, <3>4 DEF n
    <3>5. CASE s.buffer # <<>>
      <4>1. ElementIsValid(s.buffer)
        <5>1. DOMAIN s.buffer = 1..Len(s.buffer)
          BY <2>4, LenProperties DEF Words
        <5> QED
          BY <3>1, <3>5, <5>1 DEF ElementIsValid
      <4>2. ValidElements(Append(s.path, s.buffer))
        <5>1. \A i \in 1..(Len(s.path) + 1) : i \in 1..Len(s.path) \/ i = Len(s.path) + 1
          BY <2>6
        <5> QED
          BY <2>4, <2>5, <4>1, <5>1 DEF ValidElements
      <4>3. Text(Append(s.path, s.buffer)) = SubSeq(text, 1, n)
        BY <2>4, <3>1, TextAppend
      <4>4. SubSeq(text, 1, n) = text
        BY SubSeqFull DEF Words, n
      <4>5. Parse(text).path = Append(s.path, s.buffer) /\ Parse(text).end = n
        BY <2>3, <2>10, <3>1, <3>5
      <4> QED
        BY <2>5, <2>7, <2>8, <3>1, <3>2, <3>3, <3>5, <4>2, <4>3, <4>4, <4>5 DEF ValidPath, n
    <3> QED
      BY <3>4, <3>5
  <2> QED
    BY <2>9, <2>10, <2>4
<1> QED
  BY <1>1, <1>2

-----------------------------------------------------------------------------
(* The invariant.                                                           *)

Shape ==
  /\ elements \in [Slots -> Seq(Words)]
  /\ cached \in [Slots -> Words \cup {Null}]
  /\ live \subseteq Slots
  /\ ready \in BOOLEAN
  /\ proc \in {"running", "trapped", "hung", "exit 1", "undefined"}
  /\ stale \subseteq asked /\ asked \subseteq live

(* Every path is made of valid elements. *)
Made == \A p \in Slots : ValidElements(elements[p])

(* There is a string only where it was asked for, and a freed path leaves   *)
(* none behind for the next path at that address.                           *)
CacheOK == \A p \in Slots : cached[p] # Null => p \in asked

(* Only a text that is a path becomes a skipper. *)
SkippersOK == \A k \in skippers : ValidPath(k) /\ k # <<>>

ParsedOK ==
  parsed.text # Null =>
    /\ parsed.text \in Words
    /\ parsed.path = Parse(parsed.text).path /\ parsed.end = Parse(parsed.text).end

PInv == Shape /\ Made /\ CacheOK /\ StringCurrent /\ SkippersOK /\ ParsedOK

LEMMA Typed ==
  ASSUME PInv
  PROVE  TypeOK
<1>1. \A p \in Slots : elements[p] \in Seq(Words) /\ ValidElements(elements[p])
  BY DEF PInv, Shape, Made
<1>2. \A p \in Slots : DOMAIN elements[p] = 1..Len(elements[p])
  BY <1>1, LenProperties
<1>3. \A p \in Slots : cached[p] \in Words \cup {Null}
  BY DEF PInv, Shape
<1> QED
  BY <1>1, <1>2, <1>3 DEF PInv, Shape, TypeOK, ValidElements, Words

LEMMA PInit == Init => PInv
<1> SUFFICES ASSUME Init
             PROVE  PInv
  OBVIOUS
<1>1. <<>> \in Seq(Words) /\ Len(<<>>) = 0
  BY EmptySeq
<1>2. Shape
  BY <1>1 DEF Init, Shape
<1>3. Made
  BY <1>1 DEF Init, Made, ValidElements
<1>4. CacheOK /\ StringCurrent /\ SkippersOK
  BY DEF Init, CacheOK, StringCurrent, SkippersOK
<1>5. ParsedOK
  BY DEF Init, NoParse, ParsedOK
<1> QED
  BY <1>2, <1>3, <1>4, <1>5 DEF PInv

(* The kinds of step. *)
NothingParsed == parsed' = NoParse

LEMMA NothingParsedIs == NothingParsed => ParsedOK'
BY DEF NothingParsed, NoParse, ParsedOK

LEMMA CreateKeeps ==
  ASSUME PInv, NEW p \in Slots, NEW path, ValidPath(path), Create(p, path)
  PROVE  Shape' /\ Made' /\ CacheOK' /\ StringCurrent' /\ SkippersOK'
<1>1. p \notin live /\ live' = live \cup {p} /\ elements' = [elements EXCEPT ![p] = path]
      /\ UNCHANGED <<cached, skippers, ready, proc, asked, stale>>
  BY DEF Create
<1>2. Shape'
  BY <1>1 DEF PInv, Shape, ValidPath
<1>3. Made'
  BY <1>1 DEF PInv, Shape, Made, ValidPath
<1>4. CacheOK' /\ SkippersOK'
  BY <1>1 DEF PInv, CacheOK, SkippersOK
<1>5. cached[p] = Null
  BY <1>1 DEF PInv, Shape, CacheOK
<1>6. StringCurrent'
  <2> SUFFICES ASSUME NEW q \in live' \ stale', cached'[q] # Null
               PROVE  cached'[q] = Text(elements'[q])
    BY DEF StringCurrent
  <2>1. q # p /\ q \in live \ stale /\ q \in Slots
    BY <1>1, <1>5 DEF PInv, Shape
  <2> QED
    BY <1>1, <2>1 DEF PInv, Shape, StringCurrent
<1> QED
  BY <1>2, <1>3, <1>4, <1>6

LEMMA BecomeKeeps ==
  ASSUME PInv, NEW p \in Slots, p \in live, NEW path, ValidPath(path), Become(p, path)
  PROVE  PInv'
<1>1. /\ elements' = [elements EXCEPT ![p] = path]
      /\ stale' = IF p \in asked THEN stale \cup {p} ELSE stale
      /\ parsed' = NoParse
      /\ UNCHANGED <<live, cached, skippers, ready, proc, asked>>
  BY DEF Become
<1>2. Shape'
  BY <1>1 DEF PInv, Shape, ValidPath
<1>3. Made'
  BY <1>1 DEF PInv, Shape, Made, ValidPath
<1>4. CacheOK' /\ SkippersOK'
  BY <1>1 DEF PInv, CacheOK, SkippersOK
<1>6. StringCurrent'
  <2> SUFFICES ASSUME NEW q \in live' \ stale', cached'[q] # Null
               PROVE  cached'[q] = Text(elements'[q])
    BY DEF StringCurrent
  <2>1. q \in live \ stale /\ q \in Slots /\ q # p
    BY <1>1 DEF PInv, Shape, CacheOK
  <2> QED
    BY <1>1, <2>1 DEF PInv, Shape, StringCurrent
<1>7. ParsedOK'
  BY <1>1, NothingParsedIs DEF NothingParsed
<1> QED
  BY <1>2, <1>3, <1>4, <1>6, <1>7 DEF PInv

LEMMA EndKeeps ==
  ASSUME PInv, NEW how \in {"trapped", "hung", "exit 1", "undefined"}, EndProcess(how)
  PROVE  PInv'
<1>1. proc' = how /\ parsed' = NoParse
      /\ UNCHANGED <<live, elements, cached, skippers, ready, asked, stale>>
  BY DEF EndProcess, paths
<1>2. Shape'
  BY <1>1 DEF PInv, Shape
<1>3. Made' /\ CacheOK' /\ StringCurrent' /\ SkippersOK'
  BY <1>1 DEF PInv, Made, CacheOK, StringCurrent, SkippersOK
<1>4. ParsedOK'
  BY <1>1, NothingParsedIs DEF NothingParsed
<1> QED
  BY <1>2, <1>3, <1>4 DEF PInv

LEMMA RefuseKeeps ==
  ASSUME PInv, Refuse
  PROVE  PInv'
BY EndKeeps DEF Refuse

LEMMA FreeKeeps ==
  ASSUME PInv, NEW p \in Slots, Free(p)
  PROVE  PInv'
<1>1. /\ p \in live /\ live' = live \ {p}
      /\ elements' = [elements EXCEPT ![p] = <<>>]
      /\ cached' = [cached EXCEPT ![p] = Null]
      /\ asked' = asked \ {p} /\ stale' = stale \ {p}
      /\ parsed' = NoParse
      /\ UNCHANGED <<skippers, ready, proc>>
  BY DEF Free
<1>2. <<>> \in Seq(Words) /\ Len(<<>>) = 0
  BY EmptySeq
<1>3. Shape'
  BY <1>1, <1>2 DEF PInv, Shape
<1>4. Made'
  <2> SUFFICES ASSUME NEW q \in Slots
               PROVE  ValidElements(elements'[q])
    BY DEF Made
  <2>1. ValidElements(<<>>)
    BY <1>2 DEF ValidElements
  <2>2. elements'[q] = IF q = p THEN <<>> ELSE elements[q]
    BY <1>1 DEF PInv, Shape
  <2> QED
    BY <2>1, <2>2 DEF PInv, Made
<1>5. CacheOK' /\ SkippersOK'
  BY <1>1 DEF PInv, Shape, CacheOK, SkippersOK
<1>6. StringCurrent'
  <2> SUFFICES ASSUME NEW q \in live' \ stale', cached'[q] # Null
               PROVE  cached'[q] = Text(elements'[q])
    BY DEF StringCurrent
  <2>1. q \in live \ stale /\ q \in Slots /\ q # p
    BY <1>1 DEF PInv, Shape
  <2> QED
    BY <1>1, <2>1 DEF PInv, Shape, StringCurrent
<1>7. ParsedOK'
  BY <1>1, NothingParsedIs DEF NothingParsed
<1> QED
  BY <1>3, <1>4, <1>5, <1>6, <1>7 DEF PInv

LEMMA ToStringKeeps ==
  ASSUME PInv, NEW p \in Slots, PathToString(p)
  PROVE  PInv'
<1>1. CASE elements[p] = <<>>
  BY <1>1, RefuseKeeps DEF PathToString
<1>2. CASE elements[p] # <<>>
  <2>1. /\ p \in live
        /\ cached' = [cached EXCEPT ![p] = IF cached[p] = Null THEN Text(elements[p]) ELSE cached[p]]
        /\ asked' = asked \cup {p}
        /\ parsed' = NoParse
        /\ UNCHANGED <<live, elements, skippers, ready, proc, stale>>
    BY <1>2 DEF PathToString
  <2>2. elements[p] \in Seq(Words) /\ cached[p] \in Words \cup {Null}
    BY DEF PInv, Shape
  <2>3. Text(elements[p]) \in Words
    BY <2>2, TextType
  <2>4. Shape'
    BY <2>1, <2>2, <2>3 DEF PInv, Shape
  <2>5. Made' /\ SkippersOK'
    BY <2>1 DEF PInv, Made, SkippersOK
  <2>6. CacheOK'
    BY <2>1 DEF PInv, Shape, CacheOK
  <2>7. StringCurrent'
    <3> SUFFICES ASSUME NEW q \in live' \ stale', cached'[q] # Null
                 PROVE  cached'[q] = Text(elements'[q])
      BY DEF StringCurrent
    <3>1. q \in live \ stale /\ q \in Slots
      BY <2>1 DEF PInv, Shape
    <3>2. cached[q] # Null => cached[q] = Text(elements[q])
      BY <3>1 DEF PInv, StringCurrent
    <3>3. cached'[q] = IF q = p /\ cached[p] = Null THEN Text(elements[p]) ELSE cached[q]
      BY <2>1, <3>1 DEF PInv, Shape
    <3> QED
      BY <2>1, <3>2, <3>3
  <2>8. ParsedOK'
    BY <2>1, NothingParsedIs DEF NothingParsed
  <2> QED
    BY <2>4, <2>5, <2>6, <2>7, <2>8 DEF PInv
<1> QED
  BY <1>1, <1>2

LEMMA NewKeeps ==
  ASSUME PInv, NEW p \in Slots, New(p)
  PROVE  PInv'
<1>1. ValidPath(<<>>)
  BY EmptySeq DEF ValidPath, ValidElements
<1>2. Create(p, <<>>) /\ NothingParsed
  BY DEF New, NothingParsed
<1> QED
  BY <1>1, <1>2, CreateKeeps, NothingParsedIs DEF PInv

LEMMA CopyKeeps ==
  ASSUME PInv, NEW p \in Slots, NEW q \in Slots, Copy(p, q)
  PROVE  PInv'
<1>1. ValidPath(elements[q])
  BY DEF PInv, Shape, Made, ValidPath
<1>2. Create(p, elements[q]) /\ NothingParsed
  BY DEF Copy, NothingParsed
<1> QED
  BY <1>1, <1>2, CreateKeeps, NothingParsedIs DEF PInv

(* Adding to a path. *)
LEMMA ValidConcat ==
  ASSUME NEW a, ValidPath(a), NEW b, ValidPath(b)
  PROVE  ValidPath(a \o b)
<1>1. a \in Seq(Words) /\ b \in Seq(Words) /\ ValidElements(a) /\ ValidElements(b)
  BY DEF ValidPath
<1>2. Len(a) \in Nat /\ Len(b) \in Nat
  BY <1>1, LenProperties
<1>3. a \o b \in Seq(Words) /\ Len(a \o b) = Len(a) + Len(b)
      /\ \A i \in 1..(Len(a) + Len(b)) :
           (a \o b)[i] = IF i <= Len(a) THEN a[i] ELSE b[i - Len(a)]
  BY <1>1, ConcatProperties
<1>4. ASSUME NEW i \in 1..(Len(a) + Len(b))
      PROVE  ElementIsValid((a \o b)[i])
  <2>1. CASE i <= Len(a)
    <3>1. i \in 1..Len(a)
      BY <1>2, <2>1
    <3> QED
      BY <1>1, <1>3, <2>1, <3>1 DEF ValidElements
  <2>2. CASE ~(i <= Len(a))
    <3>1. i - Len(a) \in 1..Len(b)
      BY <1>2, <2>2
    <3> QED
      BY <1>1, <1>3, <2>2, <3>1 DEF ValidElements
  <2> QED
    BY <2>1, <2>2
<1> QED
  BY <1>3, <1>4 DEF ValidPath, ValidElements

LEMMA ValidOne ==
  ASSUME NEW e \in Words, ElementIsValid(e)
  PROVE  ValidPath(<<e>>)
<1>1. <<e>> \in Seq(Words) /\ Len(<<e>>) = 1 /\ <<e>>[1] = e
  OBVIOUS
<1>2. \A i \in 1..1 : i = 1
  OBVIOUS
<1> QED
  BY <1>1, <1>2 DEF ValidPath, ValidElements

LEMMA GivenWords == \A e \in Given : e \in Words
BY PathAssumption DEF Words

LEMMA PrependElementKeeps ==
  ASSUME PInv, NEW p \in Slots, NEW e \in Given, PrependElement(p, e)
  PROVE  PInv'
<1>1. ValidPath(elements[p]) /\ e \in Words
  BY GivenWords DEF PInv, Shape, Made, ValidPath
<1>2. CASE ElementIsValid(e)
  <2>1. ValidPath(<<e>> \o elements[p])
    BY <1>1, <1>2, ValidOne, ValidConcat
  <2>2. p \in live /\ Become(p, <<e>> \o elements[p])
    BY <1>2 DEF PrependElement
  <2> QED
    BY <2>1, <2>2, BecomeKeeps
<1>3. CASE ~ElementIsValid(e)
  BY <1>3, RefuseKeeps DEF PrependElement
<1> QED
  BY <1>2, <1>3

LEMMA AppendElementKeeps ==
  ASSUME PInv, NEW p \in Slots, NEW e \in Given, AppendElement(p, e)
  PROVE  PInv'
<1>1. ValidPath(elements[p]) /\ elements[p] \in Seq(Words) /\ e \in Words
  BY GivenWords DEF PInv, Shape, Made, ValidPath
<1>2. CASE ElementIsValid(e)
  <2>1. ValidPath(elements[p] \o <<e>>)
    BY <1>1, <1>2, ValidOne, ValidConcat
  <2>2. Append(elements[p], e) = elements[p] \o <<e>>
    BY <1>1, AppendIsConcat
  <2>3. p \in live /\ Become(p, Append(elements[p], e))
    BY <1>2 DEF AppendElement
  <2> QED
    BY <2>1, <2>2, <2>3, BecomeKeeps
<1>3. CASE ~ElementIsValid(e)
  BY <1>3, RefuseKeeps DEF AppendElement
<1> QED
  BY <1>2, <1>3

LEMMA AddPathKeeps ==
  ASSUME PInv, NEW p \in Slots, NEW q \in Slots, PrependPath(p, q) \/ AppendPath(p, q)
  PROVE  PInv'
<1>1. ValidPath(elements[p]) /\ ValidPath(elements[q])
  BY DEF PInv, Shape, Made, ValidPath
<1>2. ValidPath(elements[q] \o elements[p]) /\ ValidPath(elements[p] \o elements[q])
  BY <1>1, ValidConcat
<1>3. CASE NeverEnds(p, q)
  <2>1. EndProcess("hung")
    BY <1>3 DEF PrependPath, AppendPath
  <2> QED
    BY <2>1, EndKeeps
<1>4. CASE ~NeverEnds(p, q)
  <2>1. p \in live /\ (Become(p, elements[q] \o elements[p]) \/ Become(p, elements[p] \o elements[q]))
    BY <1>4 DEF PrependPath, AppendPath
  <2> QED
    BY <1>2, <2>1, BecomeKeeps
<1> QED
  BY <1>3, <1>4

LEMMA TextsWords == \A t \in Texts : t \in Words
<1> SUFFICES ASSUME NEW t \in Texts
             PROVE  t \in Seq(Chars)
  BY DEF Words
<1>1. PICK m \in 0..MaxText : t \in [1..m -> Chars]
  BY DEF Texts, SeqOf
<1>2. m \in Nat
  OBVIOUS
<1> QED
  BY <1>1, <1>2, SeqDef

LEMMA ParseKeeps ==
  ASSUME PInv, NEW p \in Slots, NEW t \in Texts, NewParse(p, t)
  PROVE  PInv'
<1>1. t \in Words
  BY TextsWords
<1>2. parsed' = [text |-> t, path |-> Parse(t).path, end |-> Parse(t).end]
  BY DEF NewParse
<1>3. ParsedOK'
  BY <1>1, <1>2 DEF ParsedOK
<1>4. CASE Parse(t).path = Null
  <2>1. UNCHANGED <<live, elements, cached, skippers, ready, proc, asked, stale>>
    BY <1>4 DEF NewParse, paths
  <2>2. Shape' /\ Made' /\ CacheOK' /\ StringCurrent' /\ SkippersOK'
    BY <2>1 DEF PInv, Shape, Made, CacheOK, StringCurrent, SkippersOK
  <2> QED
    BY <1>3, <2>2 DEF PInv
<1>5. CASE Parse(t).path # Null
  <2>1. ValidPath(Parse(t).path)
    BY <1>1, <1>5, ParseIs
  <2>2. Create(p, Parse(t).path)
    BY <1>5 DEF NewParse
  <2>3. Shape' /\ Made' /\ CacheOK' /\ StringCurrent' /\ SkippersOK'
    BY <2>1, <2>2, CreateKeeps
  <2> QED
    BY <1>3, <2>3 DEF PInv
<1> QED
  BY <1>4, <1>5

LEMMA SkipKeeps ==
  ASSUME PInv, NEW texts \in SUBSET Arguments, Skip(texts)
  PROVE  PInv'
<1>1. CASE \E t \in texts : Parse(t).path = Null
  <2>1. EndProcess("exit 1")
    BY <1>1 DEF Skip
  <2> QED
    BY <2>1, EndKeeps
<1>2. CASE ~\E t \in texts : Parse(t).path = Null
  <2>1. /\ skippers' = {Parse(t).path : t \in texts}
        /\ ready' = TRUE /\ parsed' = NoParse
        /\ UNCHANGED <<live, elements, cached, proc, asked, stale>>
    BY <1>2 DEF Skip, paths
  <2>2. ASSUME NEW t \in texts
        PROVE  ValidPath(Parse(t).path) /\ Parse(t).path # <<>>
    <3>1. t \in Words
      BY PathAssumption DEF Words
    <3> QED
      BY <1>2, <3>1, ParseIs
  <2>3. SkippersOK'
    BY <2>1, <2>2 DEF SkippersOK
  <2>4. Shape' /\ Made' /\ CacheOK' /\ StringCurrent'
    BY <2>1 DEF PInv, Shape, Made, CacheOK, StringCurrent
  <2>5. ParsedOK'
    BY <2>1, NothingParsedIs DEF NothingParsed
  <2> QED
    BY <2>3, <2>4, <2>5 DEF PInv
<1> QED
  BY <1>1, <1>2

LEMMA PStutter ==
  ASSUME PInv, UNCHANGED vars
  PROVE  PInv'
<1>1. UNCHANGED <<live, elements, cached, skippers, ready, proc, asked, stale, parsed>>
  BY DEF vars, paths, history
<1> QED
  BY <1>1 DEF PInv, Shape, Made, CacheOK, StringCurrent, SkippersOK, ParsedOK

LEMMA PStep ==
  ASSUME PInv, [Next]_vars
  PROVE  PInv'
<1>1. ASSUME NEW p \in Slots, New(p) \/ Free(p) \/ PathToString(p)
      PROVE  PInv'
  BY <1>1, NewKeeps, FreeKeeps, ToStringKeeps
<1>2. ASSUME NEW p \in Slots, NEW t \in Texts, NewParse(p, t)
      PROVE  PInv'
  BY <1>2, ParseKeeps
<1>3. ASSUME NEW p \in Slots, NEW e \in Given, PrependElement(p, e) \/ AppendElement(p, e)
      PROVE  PInv'
  BY <1>3, PrependElementKeeps, AppendElementKeeps
<1>4. ASSUME NEW p \in Slots, NEW q \in Slots,
             Copy(p, q) \/ PrependPath(p, q) \/ AppendPath(p, q)
      PROVE  PInv'
  BY <1>4, CopyKeeps, AddPathKeeps
<1>5. ASSUME NEW texts \in SUBSET Arguments, Skip(texts)
      PROVE  PInv'
  BY <1>5, SkipKeeps
<1>6. CASE Select
  BY <1>6, EndKeeps DEF Select
<1>7. CASE UNCHANGED vars
  BY <1>7, PStutter
<1> QED
  BY <1>1, <1>2, <1>3, <1>4, <1>5, <1>6, <1>7 DEF Next

LEMMA PAlways == Spec => []PInv
<1>1. Init => PInv
  BY PInit
<1>2. PInv /\ [Next]_vars => PInv'
  BY PStep
<1> QED
  BY <1>1, <1>2, PTL DEF Spec

-----------------------------------------------------------------------------
(* A path has another for a prefix when its string goes on with a stroke    *)
(* where the other's ends.  The elements are found in the strings one by    *)
(* one: none of them has a stroke, and one follows each, if only the one    *)
(* that is put behind the last.                                             *)

Before(v, w) == Len(v) <= Len(w) /\ \A i \in 1..Len(v) : w[i] = v[i]

LEMMA StartsIs ==
  ASSUME NEW w \in Words, NEW v \in Words
  PROVE  StartsWith(w, v) <=> Before(v, w)
<1>1. Len(w) \in Nat /\ Len(v) \in Nat
  BY LenProperties DEF Words
<1>2. CASE Len(v) <= Len(w)
  <2> DEFINE part == SubSeq(w, 1, Len(v))
  <2>1. \A i \in 1..Len(v) : w[i] \in Chars
    <3>1. \A i \in 1..Len(v) : i \in 1..Len(w)
      BY <1>1, <1>2
    <3> QED
      BY <3>1, ElementOfSeq DEF Words
  <2>2. /\ SubSeq(w, 1, Len(v)) \in Seq(Chars)
        /\ Len(SubSeq(w, 1, Len(v))) = IF 1 <= Len(v) THEN Len(v)-1+1 ELSE 0
        /\ \A i \in 1..(Len(v)-1+1) : SubSeq(w, 1, Len(v))[i] = w[1+i-1]
    BY <1>1, <2>1, SubSeqProperties
  <2>3. Len(v)-1+1 = Len(v) /\ (~(1 <= Len(v)) => Len(v) = 0) /\ \A i \in 1..Len(v) : 1+i-1 = i
    BY <1>1
  <2>4. part \in Seq(Chars) /\ Len(part) = Len(v) /\ \A i \in 1..Len(v) : part[i] = w[i]
    BY <2>2, <2>3
  <2> HIDE DEF part
  <2>5. part = v <=> \A i \in 1..Len(v) : w[i] = v[i]
    <3>1. ASSUME \A i \in 1..Len(v) : w[i] = v[i]
          PROVE  part = v
      <4>1. v \in Seq(Chars) /\ Len(part) = Len(v) /\ \A i \in 1..Len(part) : part[i] = v[i]
        BY <2>4, <3>1 DEF Words
      <4> QED
        BY <2>4, <4>1, SeqEqual
    <3> QED
      BY <2>4, <3>1
  <2> QED
    BY <1>2, <2>5 DEF StartsWith, Before, part
<1> QED
  BY <1>2 DEF StartsWith, Before

(* One more element. *)
Segmented(path, t, n) ==
  /\ t[n] \in Words /\ t[n+1] \in Words /\ path[n+1] \in Words
  /\ Len(t[n+1]) = Len(t[n]) + 1 + Len(path[n+1])
  /\ Before(t[n], t[n+1])
  /\ t[n+1][Len(t[n]) + 1] = "/"
  /\ \A i \in 1..Len(path[n+1]) : t[n+1][Len(t[n]) + 1 + i] = path[n+1][i]

LEMMA Segment ==
  ASSUME NEW path, ValidPath(path), NEW t, Joins(path, t), NEW n \in Nat, n < Len(path)
  PROVE  Segmented(path, t, n)
<1> DEFINE v == t[n]
           e == path[n+1]
           w == v \o Stroke
           x == t[n+1]
<1>1. path \in Seq(Words) /\ Len(path) \in Nat
  BY LenProperties DEF ValidPath
<1>2. n + 1 \in 1..Len(path) /\ (n + 1) - 1 = n /\ n \in 0..Len(path) /\ n + 1 \in 0..Len(path)
  BY <1>1
<1>3. v \in Words /\ x \in Words /\ e \in Words
  BY <1>1, <1>2, ElementOfSeq DEF Joins
<1>4. x = w \o e
  BY <1>2 DEF Joins
<1>5. Len(v) \in Nat /\ Len(e) \in Nat
  BY <1>3, LenProperties DEF Words
<1> HIDE DEF v, e, x
<1>6. w \in Words /\ Len(w) = Len(v) + 1 /\ w[Len(v) + 1] = "/" /\ \A i \in 1..Len(v) : w[i] = v[i]
  <2>1. w \in Seq(Chars) /\ Len(w) = Len(v) + Len(Stroke)
        /\ \A i \in 1..(Len(v) + Len(Stroke)) :
             w[i] = IF i <= Len(v) THEN v[i] ELSE Stroke[i - Len(v)]
    BY <1>3, StrokeIs, ConcatProperties DEF Words
  <2>2. Len(v) + 1 \in 1..(Len(v) + 1) /\ ~(Len(v) + 1 <= Len(v)) /\ (Len(v) + 1) - Len(v) = 1
        /\ \A i \in 1..Len(v) : i \in 1..(Len(v) + 1) /\ i <= Len(v)
    BY <1>5
  <2> QED
    BY <2>1, <2>2, StrokeIs DEF Words
<1> HIDE DEF w
<1>7. Len(x) = Len(w) + Len(e)
      /\ \A i \in 1..(Len(w) + Len(e)) : x[i] = IF i <= Len(w) THEN w[i] ELSE e[i - Len(w)]
  BY <1>3, <1>4, <1>6, ConcatProperties DEF Words
<1>8. Len(x) = Len(v) + 1 + Len(e)
  BY <1>5, <1>6, <1>7
<1>9. Len(v) <= Len(x) /\ \A i \in 1..Len(v) : i \in 1..(Len(w) + Len(e)) /\ i <= Len(w)
  BY <1>5, <1>6, <1>8
<1>10. Before(v, x)
  BY <1>6, <1>7, <1>9 DEF Before
<1>11. x[Len(v) + 1] = "/"
  <2>1. Len(v) + 1 \in 1..(Len(w) + Len(e)) /\ Len(v) + 1 <= Len(w)
    BY <1>5, <1>6
  <2> QED
    BY <1>6, <1>7, <2>1
<1>12. ASSUME NEW i \in 1..Len(e)
       PROVE  x[Len(v) + 1 + i] = e[i]
  <2>1. Len(v) + 1 + i \in 1..(Len(w) + Len(e)) /\ ~(Len(v) + 1 + i <= Len(w))
        /\ (Len(v) + 1 + i) - Len(w) = i
    BY <1>5, <1>6
  <2> QED
    BY <1>7, <2>1
<1> QED
  BY <1>3, <1>8, <1>10, <1>11, <1>12 DEF v, x, e, Segmented

LEMMA BeforeTransitive ==
  ASSUME NEW u \in Words, NEW v \in Words, NEW w \in Words, Before(u, v), Before(v, w)
  PROVE  Before(u, w)
<1>1. Len(u) \in Nat /\ Len(v) \in Nat /\ Len(w) \in Nat
  BY LenProperties DEF Words
<1>2. Len(u) <= Len(v) /\ Len(v) <= Len(w)
  BY DEF Before
<1>3. Len(u) <= Len(w) /\ \A i \in 1..Len(u) : i \in 1..Len(v)
  BY <1>1, <1>2
<1> QED
  BY <1>3 DEF Before

LEMMA Grows ==
  ASSUME NEW path, ValidPath(path), NEW t, Joins(path, t), NEW n \in Nat, n <= Len(path)
  PROVE  Before(t[n], t[Len(path)])
<1>0. Len(path) \in Nat
  BY LenProperties DEF ValidPath
<1> DEFINE Good == {m \in Nat : n <= m /\ m <= Len(path) => Before(t[n], t[m])}
<1>1. \A m \in 0..Len(path) : t[m] \in Words
  BY DEF Joins
<1>2. Before(t[n], t[n])
  BY <1>0, <1>1, LenProperties DEF Before, Words
<1>3. 0 \in Good
  <2>1. n <= 0 => n = 0
    OBVIOUS
  <2> QED
    BY <1>2, <2>1
<1>4. ASSUME NEW m \in Nat, m \in Good
      PROVE  m + 1 \in Good
  <2> SUFFICES ASSUME n <= m + 1, m + 1 <= Len(path)
               PROVE  Before(t[n], t[m+1])
    OBVIOUS
  <2>1. CASE n = m + 1
    BY <1>2, <2>1
  <2>2. CASE n <= m
    <3>1. m < Len(path) /\ m <= Len(path) /\ n \in 0..Len(path) /\ m \in 0..Len(path)
          /\ m + 1 \in 0..Len(path)
      BY <1>0, <2>2
    <3>2. Before(t[n], t[m])
      BY <1>4, <2>2, <3>1
    <3>3. Before(t[m], t[m+1])
      BY <3>1, Segment DEF Segmented
    <3> QED
      BY <1>1, <3>1, <3>2, <3>3, BeforeTransitive
  <2> QED
    BY <2>1, <2>2
<1>5. Nat \subseteq Good
  <2> HIDE DEF Good
  <2> QED
    BY <1>3, <1>4, SetInduction
<1>6. Len(path) \in Good
  <2> HIDE DEF Good
  <2> QED
    BY <1>0, <1>5
<1> QED
  BY <1>0, <1>6

(* The string with a stroke behind it, and where in it an element is. *)
Slashed(path) == Append(Text(path), "/")

LEMMA StrokeChar == "/" \in Chars
BY DEF Chars

LEMMA SlashedIs ==
  ASSUME NEW path, ValidPath(path)
  PROVE  /\ Text(path) \in Words /\ Slashed(path) \in Words
         /\ Len(Slashed(path)) = Len(Text(path)) + 1
         /\ Slashed(path)[Len(Text(path)) + 1] = "/"
         /\ Before(Text(path), Slashed(path))
<1> DEFINE text == Text(path)
<1>1. text \in Words
  BY TextType DEF ValidPath
<1>2. Len(text) \in Nat
  BY <1>1, LenProperties DEF Words
<1> HIDE DEF text
<1>3. Append(text, "/") \in Words /\ Len(Append(text, "/")) = Len(text) + 1
      /\ Append(text, "/")[Len(text) + 1] = "/"
      /\ \A i \in 1..Len(text) : Append(text, "/")[i] = text[i]
  BY <1>1, StrokeChar, WordAppend
<1>4. Len(text) <= Len(text) + 1
  BY <1>2
<1> QED
  BY <1>1, <1>3, <1>4 DEF Slashed, Before, text

Sectioned(path, t, n) ==
  LET text == Slashed(path)
      e == path[n+1]
      at == Len(t[n]) + 1
  IN  /\ at \in Nat /\ Len(e) \in Nat /\ at + Len(e) + 1 <= Len(text)
      /\ text[at] = "/" /\ text[at + Len(e) + 1] = "/"
      /\ \A i \in 1..Len(e) : text[at + i] = e[i] /\ text[at + i] # "/"

LEMMA Section ==
  ASSUME NEW path, ValidPath(path), NEW t, Joins(path, t), Text(path) = t[Len(path)],
         NEW n \in Nat, n < Len(path)
  PROVE  Sectioned(path, t, n)
<1> DEFINE text == Slashed(path)
           e == path[n+1]
           at == Len(t[n]) + 1
           x == t[n+1]
           last == t[Len(path)]
<1>0. Len(path) \in Nat /\ path \in Seq(Words)
  BY LenProperties DEF ValidPath
<1>a. Segmented(path, t, n)
  BY Segment
<1>1. /\ t[n] \in Words /\ x \in Words /\ e \in Words
      /\ Len(x) = Len(t[n]) + 1 + Len(e)
      /\ x[Len(t[n]) + 1] = "/"
      /\ \A i \in 1..Len(e) : x[Len(t[n]) + 1 + i] = e[i]
  BY <1>a DEF Segmented
<1>2. Len(t[n]) \in Nat /\ Len(e) \in Nat /\ DOMAIN e = 1..Len(e)
  BY <1>1, LenProperties DEF Words
<1>3. last \in Words /\ text \in Words /\ Len(text) = Len(last) + 1
      /\ text[Len(last) + 1] = "/" /\ Before(last, text)
  BY SlashedIs
<1>4. n + 1 \in Nat /\ n + 1 <= Len(path) /\ n + 1 \in 1..Len(path)
  BY <1>0
<1>5. Before(x, last)
  BY <1>4, Grows
<1>6. Before(x, text)
  BY <1>1, <1>3, <1>5, BeforeTransitive
<1>7. \A i \in 1..Len(e) : e[i] \in Letters
  BY <1>2, <1>4 DEF ValidPath, ValidElements, ElementIsValid
<1> HIDE DEF e, x, last, text
<1>8. Len(last) \in Nat /\ Len(x) <= Len(last)
  BY <1>3, <1>5, LenProperties DEF Before, Words
<1>9. at \in Nat /\ at + Len(e) + 1 <= Len(text) /\ at + Len(e) = Len(x)
  BY <1>1, <1>2, <1>3, <1>8
<1>10. text[at] = "/"
  <2>1. at \in 1..Len(x)
    BY <1>1, <1>2
  <2> QED
    BY <1>1, <1>6, <2>1 DEF Before
<1>11. ASSUME NEW i \in 1..Len(e)
       PROVE  text[at + i] = e[i] /\ text[at + i] # "/"
  <2>1. at + i \in 1..Len(x) /\ at + i = Len(t[n]) + 1 + i
    BY <1>1, <1>2
  <2>2. text[at + i] = x[at + i]
    BY <1>6, <2>1 DEF Before
  <2>3. x[at + i] = e[i]
    BY <1>1, <2>1
  <2>4. e[i] # "/"
    BY <1>7, PathAssumption
  <2> QED
    BY <2>2, <2>3, <2>4
<1>12. text[Len(x) + 1] = "/"
  <2>1. CASE n + 1 = Len(path)
    <3>1. x = last
      BY <2>1 DEF x, last
    <3> QED
      BY <1>3, <3>1
  <2>2. CASE n + 1 < Len(path)
    <3> DEFINE m == n + 1
               y == t[m+1]
               f == path[m+1]
    <3>a. m \in Nat /\ m < Len(path)
      BY <1>4, <2>2
    <3>b. x = t[m]
      BY DEF x
    <3> HIDE DEF m
    <3>c. Segmented(path, t, m)
      BY <3>a, Segment
    <3>1. /\ y \in Words /\ f \in Words /\ Len(y) = Len(x) + 1 + Len(f)
          /\ y[Len(x) + 1] = "/"
      BY <3>b, <3>c DEF Segmented
    <3>2. m + 1 \in Nat /\ m + 1 <= Len(path)
      BY <1>0, <3>a
    <3>3. Before(y, last)
      BY <3>2, Grows DEF last
    <3> HIDE DEF y, f
    <3>4. Before(y, text)
      BY <1>3, <3>1, <3>3, BeforeTransitive
    <3>5. Len(x) \in Nat /\ Len(f) \in Nat
      BY <1>1, <3>1, LenProperties DEF Words
    <3>6. Len(x) + 1 \in 1..Len(y)
      BY <3>1, <3>5
    <3> QED
      BY <3>1, <3>4, <3>6 DEF Before
  <2> QED
    BY <1>0, <1>4, <2>1, <2>2
<1>13. text[at + Len(e) + 1] = "/"
  BY <1>9, <1>12
<1>14. Len(e) \in Nat
  BY <1>2
<1> QED
  BY <1>9, <1>10, <1>11, <1>13, <1>14 DEF e, text, Sectioned

(* The next element of the longer path is that of the shorter.              *)
LEMMA SameElement ==
  ASSUME NEW a, ValidPath(a), NEW k, ValidPath(k), Before(Slashed(k), Slashed(a)),
         NEW t, Joins(a, t), Text(a) = t[Len(a)], NEW u, Joins(k, u), Text(k) = u[Len(k)],
         NEW n \in Nat, n < Len(k), n <= Len(a), t[n] = u[n]
  PROVE  n < Len(a) /\ a[n+1] = k[n+1]
<1> DEFINE v == Slashed(k)
           w == Slashed(a)
           e == k[n+1]
           f == a[n+1]
           at == Len(u[n]) + 1
<1>1. Len(a) \in Nat /\ Len(k) \in Nat /\ a \in Seq(Words) /\ k \in Seq(Words)
  BY LenProperties DEF ValidPath
<1>2. /\ at \in Nat /\ Len(e) \in Nat /\ at + Len(e) + 1 <= Len(v)
      /\ v[at] = "/" /\ v[at + Len(e) + 1] = "/"
      /\ \A i \in 1..Len(e) : v[at + i] = e[i] /\ v[at + i] # "/"
  <2>1. Sectioned(k, u, n)
    BY Section
  <2> QED
    BY <2>1 DEF Sectioned
<1>3. v \in Words /\ w \in Words /\ Len(v) \in Nat /\ Len(w) \in Nat
      /\ Len(w) = Len(Text(a)) + 1
  BY SlashedIs, LenProperties DEF Words
<1>4. Len(v) <= Len(w) /\ \A i \in 1..Len(v) : w[i] = v[i]
  BY DEF Before
<1>5. n < Len(a)
  <2> SUFFICES ASSUME n = Len(a)
               PROVE  FALSE
    BY <1>1
  <2>1. Len(w) = at
    BY <1>3
  <2> HIDE DEF v, w, e, at
  <2> QED
    BY <1>2, <1>3, <1>4, <2>1
<1>6. /\ Len(f) \in Nat /\ at + Len(f) + 1 <= Len(w)
      /\ w[at] = "/" /\ w[at + Len(f) + 1] = "/"
      /\ \A i \in 1..Len(f) : w[at + i] = f[i] /\ w[at + i] # "/"
  <2>1. Sectioned(a, t, n)
    BY <1>5, Section
  <2> QED
    BY <2>1 DEF Sectioned
<1>7. n + 1 \in 1..Len(a) /\ n + 1 \in 1..Len(k)
  BY <1>1, <1>5
<1>8. e \in Seq(Chars) /\ f \in Seq(Chars)
  BY <1>1, <1>7, ElementOfSeq DEF Words
<1> HIDE DEF v, w, e, f, at
<1>9. ~(Len(f) < Len(e))
  <2> SUFFICES ASSUME Len(f) < Len(e)
               PROVE  FALSE
    OBVIOUS
  <2>1. Len(f) + 1 \in 1..Len(e) /\ at + (Len(f) + 1) \in 1..Len(v)
        /\ at + (Len(f) + 1) = at + Len(f) + 1
    BY <1>2, <1>3, <1>6
  <2>2. v[at + (Len(f) + 1)] # "/"
    BY <1>2, <2>1
  <2>3. w[at + (Len(f) + 1)] = v[at + (Len(f) + 1)]
    BY <1>4, <2>1
  <2> QED
    BY <1>6, <2>1, <2>2, <2>3
<1>10. ~(Len(e) < Len(f))
  <2> SUFFICES ASSUME Len(e) < Len(f)
               PROVE  FALSE
    OBVIOUS
  <2>1. Len(e) + 1 \in 1..Len(f) /\ at + (Len(e) + 1) \in 1..Len(v)
        /\ at + (Len(e) + 1) = at + Len(e) + 1
    BY <1>2, <1>3, <1>6
  <2>2. w[at + (Len(e) + 1)] # "/"
    BY <1>6, <2>1
  <2>3. w[at + (Len(e) + 1)] = v[at + (Len(e) + 1)]
    BY <1>4, <2>1
  <2> QED
    BY <1>2, <2>1, <2>2, <2>3
<1>11. Len(e) = Len(f)
  BY <1>2, <1>6, <1>9, <1>10
<1>12. ASSUME NEW i \in 1..Len(f)
       PROVE  f[i] = e[i]
  <2>1. i \in 1..Len(e) /\ at + i \in 1..Len(v)
    BY <1>2, <1>3, <1>11
  <2> QED
    BY <1>2, <1>4, <1>6, <2>1
<1>13. f = e
  BY <1>8, <1>11, <1>12, SeqEqual
<1> QED
  BY <1>5, <1>13 DEF e, f

LEMMA PrefixIsBefore ==
  ASSUME NEW a, ValidPath(a), NEW k, ValidPath(k)
  PROVE  HasPrefix(a, k) <=> Before(Slashed(k), Slashed(a))
<1>1. Len(a) \in Nat /\ Len(k) \in Nat /\ a \in Seq(Words) /\ k \in Seq(Words)
  BY LenProperties DEF ValidPath
<1>2. PICK t : Joins(a, t) /\ Text(a) = t[Len(a)]
  BY <1>1, TextIs
<1>3. PICK u : Joins(k, u) /\ Text(k) = u[Len(k)]
  BY <1>1, TextIs
<1>4. ASSUME HasPrefix(a, k)
      PROVE  Before(Slashed(k), Slashed(a))
  <2> DEFINE n == Len(k)
             v == Slashed(k)
             w == Slashed(a)
  <2>1. n \in Nat /\ n <= Len(a) /\ \A i \in 1..n : a[i] = k[i]
    BY <1>1, <1>4 DEF HasPrefix
  <2>2. t[n] = u[n]
    <3>1. n <= Len(k)
      BY <2>1
    <3> QED
      BY <1>1, <1>2, <1>3, <2>1, <3>1, JoinsAlike
  <2>3. t[n] = Text(k)
    BY <1>3, <2>2
  <2>4. CASE n = Len(a)
    <3>1. Slashed(k) = Slashed(a)
      BY <1>2, <2>3, <2>4 DEF Slashed
    <3>2. v \in Words
      BY SlashedIs
    <3>3. Len(v) \in Nat
      BY <3>2, LenProperties DEF Words
    <3> QED
      BY <3>1, <3>3 DEF Before
  <2>5. CASE n < Len(a)
    <3> DEFINE at == Len(Text(k)) + 1
    <3>1. at \in Nat /\ w[at] = "/" /\ at <= Len(w)
      <4>1. Sectioned(a, t, n)
        BY <1>2, <2>1, <2>5, Section
      <4>2. at \in Nat /\ w[at] = "/" /\ Len(a[n+1]) \in Nat /\ at + Len(a[n+1]) + 1 <= Len(w)
        BY <2>3, <4>1 DEF Sectioned
      <4>3. Len(w) \in Nat
        BY SlashedIs, LenProperties DEF Words
      <4> HIDE DEF at, w
      <4> QED
        BY <4>2, <4>3
    <3>2. v \in Words /\ Len(v) = at /\ v[at] = "/" /\ Before(Text(k), v) /\ Text(k) \in Words
      BY SlashedIs
    <3>3. Before(Text(k), Text(a))
      BY <1>2, <2>1, <2>3, Grows
    <3>4. Before(Text(a), w) /\ Text(a) \in Words /\ w \in Words
      BY SlashedIs
    <3>5. Before(Text(k), w)
      BY <3>2, <3>3, <3>4, BeforeTransitive
    <3>6. ASSUME NEW i \in 1..at
          PROVE  w[i] = v[i]
      <4>1. i \in 1..Len(Text(k)) \/ i = at
        BY <3>1
      <4> QED
        BY <3>1, <3>2, <3>5, <4>1 DEF Before
    <3> QED
      BY <3>1, <3>2, <3>6 DEF Before
  <2> QED
    BY <1>1, <2>1, <2>4, <2>5
<1>5. ASSUME Before(Slashed(k), Slashed(a))
      PROVE  HasPrefix(a, k)
  <2> DEFINE Good == {n \in Nat : n <= Len(k) => n <= Len(a) /\ \A i \in 1..n : a[i] = k[i]}
  <2>1. 0 \in Good
    BY <1>1
  <2>2. ASSUME NEW n \in Nat, n \in Good
        PROVE  n + 1 \in Good
    <3> SUFFICES ASSUME n + 1 <= Len(k)
                 PROVE  n + 1 <= Len(a) /\ \A i \in 1..(n+1) : a[i] = k[i]
      OBVIOUS
    <3>1. n < Len(k) /\ n <= Len(k)
      BY <1>1
    <3>2. n <= Len(a) /\ \A i \in 1..n : a[i] = k[i]
      BY <2>2, <3>1
    <3>3. t[n] = u[n]
      BY <1>1, <1>2, <1>3, <3>1, <3>2, JoinsAlike
    <3>4. n < Len(a) /\ a[n+1] = k[n+1]
      BY <1>2, <1>3, <1>5, <3>1, <3>2, <3>3, SameElement
    <3>5. \A i \in 1..(n+1) : i \in 1..n \/ i = n + 1
      OBVIOUS
    <3> QED
      BY <1>1, <3>2, <3>4, <3>5
  <2>3. Nat \subseteq Good
    <3> HIDE DEF Good
    <3> QED
      BY <2>1, <2>2, SetInduction
  <2>4. Len(k) \in Good /\ Len(k) <= Len(k)
    <3> HIDE DEF Good
    <3> QED
      BY <1>1, <2>3
  <2> QED
    BY <2>4 DEF HasPrefix
<1> QED
  BY <1>4, <1>5

LEMMA PrefixInText ==
  ASSUME NEW a, ValidPath(a), NEW k, ValidPath(k)
  PROVE  HasPrefix(a, k) <=>
           Text(a) = Text(k) \/ StartsWith(Text(a), Append(Text(k), "/"))
<1> DEFINE v == Text(k)
           w == Text(a)
           vs == Slashed(k)
           ws == Slashed(a)
<1>1. v \in Words /\ w \in Words /\ vs \in Words /\ ws \in Words
      /\ Len(vs) = Len(v) + 1 /\ Len(ws) = Len(w) + 1
      /\ vs[Len(v) + 1] = "/" /\ ws[Len(w) + 1] = "/"
      /\ Before(v, vs) /\ Before(w, ws)
  BY SlashedIs
<1>2. Len(v) \in Nat /\ Len(w) \in Nat
  BY <1>1, LenProperties DEF Words
<1>3. StartsWith(w, vs) <=> Before(vs, w)
  BY <1>1, StartsIs
<1>4. HasPrefix(a, k) <=> Before(vs, ws)
  BY PrefixIsBefore
<1>5. w = v => vs = ws
  BY DEF Slashed
<1> HIDE DEF v, w, vs, ws
<1>6. ASSUME Before(vs, ws)
      PROVE  w = v \/ Before(vs, w)
  <2>1. Len(vs) <= Len(ws) /\ \A i \in 1..Len(vs) : ws[i] = vs[i]
    BY <1>6 DEF Before
  <2>2. CASE Len(vs) = Len(ws)
    <3>1. Len(v) = Len(w) /\ \A i \in 1..Len(v) : i \in 1..Len(vs)
      BY <1>1, <1>2, <2>2
    <3>2. \A i \in 1..Len(w) : w[i] = v[i]
      BY <1>1, <2>1, <3>1 DEF Before
    <3>3. w \in Seq(Chars) /\ v \in Seq(Chars)
      BY <1>1 DEF Words
    <3> QED
      BY <3>1, <3>2, <3>3, SeqEqual
  <2>3. CASE Len(vs) < Len(ws)
    <3>1. Len(vs) <= Len(w) /\ \A i \in 1..Len(vs) : i \in 1..Len(w)
      BY <1>1, <1>2, <2>3
    <3> QED
      BY <1>1, <2>1, <3>1 DEF Before
  <2> QED
    BY <1>1, <1>2, <2>1, <2>2, <2>3
<1>7. ASSUME w = v \/ Before(vs, w)
      PROVE  Before(vs, ws)
  <2>1. CASE w = v
    <3>1. vs = ws /\ Len(vs) <= Len(vs)
      BY <1>1, <1>2, <1>5, <2>1
    <3> QED
      BY <3>1 DEF Before
  <2>2. CASE Before(vs, w)
    BY <1>1, <2>2, BeforeTransitive
  <2> QED
    BY <1>7, <2>1, <2>2
<1>8. HasPrefix(a, k) <=> w = v \/ StartsWith(w, vs)
  BY <1>3, <1>4, <1>6, <1>7
<1> QED
  BY <1>8 DEF v, w, vs, Slashed

LEMMA SkipsByStem ==
  ASSUME PInv
  PROVE  SkipsStems
<1> SUFFICES ASSUME NEW p \in live
             PROVE  ShouldRun(elements[p]) <=>
                      \A k \in skippers : /\ Text(elements[p]) # Text(k)
                                          /\ ~StartsWith(Text(elements[p]), Append(Text(k), "/"))
  BY DEF SkipsStems
<1>1. ValidPath(elements[p])
  BY DEF PInv, Shape, Made, ValidPath
<1>2. \A k \in skippers : ValidPath(k)
  BY DEF PInv, SkippersOK
<1>3. \A k \in skippers :
        HasPrefix(elements[p], k) <=>
          Text(elements[p]) = Text(k) \/ StartsWith(Text(elements[p]), Append(Text(k), "/"))
  BY <1>1, <1>2, PrefixInText
<1> QED
  BY <1>3 DEF ShouldRun

LEMMA ParsesRight ==
  ASSUME PInv
  PROVE  ParseRight /\ EndRight
<1> SUFFICES ASSUME parsed.text # Null
             PROVE  ParseRight /\ EndRight
  BY DEF ParseRight, EndRight
<1>1. parsed.text \in Words /\ parsed.path = Parse(parsed.text).path
      /\ parsed.end = Parse(parsed.text).end
  BY DEF PInv, ParsedOK
<1>2. ParseRight
  BY <1>1, ParseIs DEF ParseRight
<1>3. EndRight
  BY <1>1, ParseIs DEF EndRight
<1> QED
  BY <1>2, <1>3

-----------------------------------------------------------------------------
(* The theorems.                                                            *)

(* Whatever the program calls, every path is made of valid elements, whether *)
(* it was parsed, copied or put together (path.c:10-178).                   *)
THEOREM ValidPaths == Spec => []TypeOK
<1>1. PInv => TypeOK
  BY Typed
<1> QED
  BY <1>1, PAlways, PTL

(* gtu_path_new_parse() makes a path of the texts that are one and of no    *)
(* others, and gtu_path_to_string() would give back the text, for texts of  *)
(* any length (path.c:16-66, 110-131).                                      *)
THEOREM ParserRight == Spec => []ParseRight
<1>1. PInv => ParseRight
  BY ParsesRight
<1> QED
  BY <1>1, PAlways, PTL

(* *endptr is at the first character after which nothing can make a path of *)
(* the text, or at its end (path.c:16-66).                                  *)
THEOREM EndPointer == Spec => []EndRight
<1>1. PInv => EndRight
  BY ParsesRight
<1> QED
  BY <1>1, PAlways, PTL

(* The cached string tells the elements of every path that was not modified *)
(* after it had been asked for; in particular neither a copy nor a path     *)
(* made where another was freed has a string of old (path.c:72-131).        *)
THEOREM CachedStrings == Spec => []StringCurrent
<1>1. PInv => StringCurrent
  BY DEF PInv
<1> QED
  BY <1>1, PAlways, PTL

(* -s leaves out the tests with that path and those beneath it, and no test *)
(* whose name merely begins alike: comparing elements is comparing strings  *)
(* up to a stroke (path.c:180-216).                                         *)
THEOREM StemsSkipped == Spec => []SkipsStems
<1>1. PInv => SkipsStems
  BY SkipsByStem
<1> QED
  BY <1>1, PAlways, PTL
=============================================================================
