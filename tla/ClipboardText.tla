---------------------------- MODULE ClipboardText ----------------------------
(***************************************************************************)
(* Text conversions of the clipboard (clipboard.c).  A text is a sequence  *)
(* of bytes without the terminator; reading past its end gives 0.          *)
(***************************************************************************)
EXTENDS Integers, SequencesExt

Byte(s, i) == IF i \in DOMAIN s THEN s[i] ELSE 0
Continues(s, i) == Byte(s, i) \div 64 = 2
Rest(s, i) == SubSeq(s, i, Len(s))

\* Carriage returns are dropped.
lorieConvertLF(s) == FlattenSeq([i \in DOMAIN s |-> IF s[i] = 13 THEN <<>> ELSE <<s[i]>>])

\* Mutant: the boundary between the two lead bytes is off by one.
LeadOffByOne(b) == 194 + (IF b > 192 THEN 1 ELSE 0)

Lead(b) == 194 + (IF b > 191 THEN 1 ELSE 0)

lorieLatin1ToUTF8(s) ==
  FlattenSeq([i \in DOMAIN s |-> IF s[i] < 128 THEN <<s[i]>> ELSE <<Lead(s[i]), (s[i] % 64) + 128>>])

\* Is the text UTF-8?  A stray continuation byte counts as the start of two.
lorieCheckUTF8(s) ==
  LET ok[i \in 1..(Len(s) + 4)] ==
        CASE Byte(s, i) = 0 -> TRUE
          [] Byte(s, i) \in 1..127 -> ok[i + 1]
          [] Byte(s, i) \in 128..223 -> Continues(s, i + 1) /\ ok[i + 2]
          [] Byte(s, i) \in 224..239 -> Continues(s, i + 1) /\ Continues(s, i + 2) /\ ok[i + 3]
          [] Byte(s, i) \in 240..247 -> (\A k \in 1..3 : Continues(s, i + k)) /\ ok[i + 4]
          [] Byte(s, i) \in 248..255 -> FALSE
  IN  ok[1]

Replacement == 65533
Surrogate(ucs) == 55296 <= ucs /\ ucs < 57344

\* The first byte: how many are to follow, or -1, and its bits of the code point.
Following(b) ==
  CASE b < 128 -> 0 [] b \in 192..223 -> 1 [] b \in 224..239 -> 2
    [] b \in 240..247 -> 3 [] OTHER -> -1
FirstBits(b) ==
  CASE b < 128 -> b [] b \in 192..223 -> b % 32 [] b \in 224..239 -> b % 16 [] OTHER -> b % 8

\* The code point of the first byte and the n behind it.
Value(s, n) ==
  LET value[k \in 0..3] == IF k = 0 THEN FirstBits(Byte(s, 1)) ELSE value[k - 1] * 64 + (Byte(s, 1 + k) % 64)
  IN  value[n]

Most(S) == CHOOSE n \in S : \A k \in S : k <= n

\* One character: its code point and the bytes consumed.  A sequence that ends
\* early consumes the byte that ends it.
lorieUtf8ToUCS4(s) ==
  LET count == Following(Byte(s, 1))
      good == {n \in 0..count : \A k \in 1..n : Continues(s, 1 + k)}
      stray == {n \in 1..Len(s) : \A k \in 2..n : Continues(s, k)}
  IN  CASE count = -1 -> [ucs |-> Replacement, len |-> Most(stray)]
        [] count \in good /\ Surrogate(Value(s, count)) -> [ucs |-> Replacement, len |-> count + 1]
        [] count \in good /\ ~Surrogate(Value(s, count)) -> [ucs |-> Value(s, count), len |-> count + 1]
        [] OTHER -> [ucs |-> Replacement, len |-> Most(good) + 2]

QuestionMark == 63

Latin1Of(ucs) == IF ucs > 255 THEN QuestionMark ELSE ucs

\* A turn of the loop: where it reads and what it has written.
Latin1Turn(s) ==
  [o \in [at : Nat, text : Seq(Nat)] |->
     IF Byte(s, o.at) = 0 THEN o
     ELSE LET c == lorieUtf8ToUCS4(Rest(s, o.at))
          IN  [at |-> o.at + c.len, text |-> Append(o.text, Latin1Of(c.ucs))]]

lorieUtf8ToLatin1(s) ==
  LET out[n \in 0..Len(s)] == IF n = 0 THEN [at |-> 1, text |-> <<>>] ELSE Latin1Turn(s)[out[n - 1]]
  IN  out[Len(s)].text
=============================================================================
