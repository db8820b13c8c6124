------------------------------- MODULE Forms -------------------------------
(***************************************************************************)
(* URL-encoded text: percent_decode, form_param and query_param of          *)
(* src/http/request.rs, and the loops the login and the item form run over  *)
(* their body instead (src/server/connection.rs).  Encoded text is a        *)
(* sequence of ASCII codes, decoded text one of code points.  Keys are       *)
(* abbreviated to one letter.                                                *)
(***************************************************************************)
EXTENDS Loops, FiniteSetsExt

Space == 32
Percent == 37
Ampersand == 38
Plus == 43
Equals == 61
Replacement == 65533

(* char::to_digit(16): the value of a hexadecimal digit, -1 of another byte. *)
HexValue(b) ==
  CASE b \in 48..57  -> b - 48
    [] b \in 65..70  -> b - 55
    [] b \in 97..102 -> b - 87
    [] OTHER         -> -1

(* from_utf8_lossy, for sequences of one or two bytes.                       *)
TwoBytes(bytes, i) ==
  bytes[i] \in 194..223 /\ i < Len(bytes) /\ bytes[i + 1] \in 128..191

Utf8(bytes) ==
  Walk([i \in DOMAIN bytes |->
          <<IF bytes[i] < 128 THEN bytes[i]
            ELSE IF TwoBytes(bytes, i) THEN (bytes[i] - 192) * 64 + bytes[i + 1] - 128
            ELSE Replacement>>],
       [i \in DOMAIN bytes |-> IF TwoBytes(bytes, i) THEN i + 2 ELSE i + 1])

(* Variant: an escape at the very end is left alone.                         *)
EscapedShort(s, i) ==
  s[i] = Percent /\ i + 2 < Len(s) /\ HexValue(s[i + 1]) >= 0 /\ HexValue(s[i + 2]) >= 0

Escaped(s, i) ==
  s[i] = Percent /\ i + 2 <= Len(s) /\ HexValue(s[i + 1]) >= 0 /\ HexValue(s[i + 2]) >= 0

(* The loop of percent_decode.                                               *)
DecodeBytes(s) ==
  Walk([i \in DOMAIN s |->
          <<IF Escaped(s, i) THEN HexValue(s[i + 1]) * 16 + HexValue(s[i + 2]) ELSE s[i]>>],
       [i \in DOMAIN s |-> IF Escaped(s, i) THEN i + 3 ELSE i + 1])

(* replace('+', " ").                                                        *)
Spaced(s) == [k \in DOMAIN s |-> IF s[k] = Plus THEN Space ELSE s[k]]

(* What is not UTF-8 afterwards is replaced by U+FFFD: from_utf8_lossy is    *)
(* called where the comments (lines 113 and 134) announce the text unchanged. *)
PercentDecode(s) == Utf8(DecodeBytes(Spaced(s)))

(* The first separator from position i on, or the end of the text.           *)
Until(s, separator, i) ==
  CHOOSE k \in i..(Len(s) + 1) : /\ k > Len(s) \/ s[k] = separator
                                 /\ \A l \in i..(k - 1) : s[l] # separator

(* str::split: from the start, and from after each separator.                *)
Split(s, separator) ==
  Walk([i \in 1..(Len(s) + 1) |-> <<SubSeq(s, i, Until(s, separator, i) - 1)>>],
       [i \in 1..(Len(s) + 1) |-> Until(s, separator, i) + 1])

(* splitn(2, '='), an absent value being empty.                              *)
HasEquals(pair) == \E k \in DOMAIN pair : pair[k] = Equals
Key(pair) == SubSeq(pair, 1, Until(pair, Equals, 1) - 1)
ValueOf(pair) == SubSeq(pair, Until(pair, Equals, 1) + 1, Len(pair))

None == <<-1>>   \* no text

(* form_param and query_param: the first pair whose decoded key is the one   *)
(* asked for.                                                                *)
FormParam(text, key) ==
  LET pairs == Split(text, Ampersand)
      found == {n \in DOMAIN pairs : PercentDecode(Key(pairs[n])) = key}
  IN  IF found = {} THEN None ELSE PercentDecode(ValueOf(pairs[Min(found)]))

UnwrapOrDefault(text) == IF text = None THEN <<>> ELSE text

(* The loops of POST /ui/login and POST /ui/items: the last pair with an     *)
(* equals sign whose key is, undecoded, the one asked for.  percent_encoding *)
(* decodes values as percent_decode does.                                    *)
FormField(text, key) ==
  LET pairs == Split(text, Ampersand)
      found == {n \in DOMAIN pairs : HasEquals(pairs[n]) /\ Key(pairs[n]) = key}
  IN  IF found = {} THEN <<>> ELSE PercentDecode(ValueOf(pairs[Max(found)]))

----------------------------------------------------------------------------
(* What a browser sends for a form (external): letters and digits as they    *)
(* are, a space as a plus sign, the UTF-8 bytes of everything else escaped.   *)
HexDigit(n) == IF n < 10 THEN n + 48 ELSE n + 55
Escape(b) == <<Percent, HexDigit(b \div 16), HexDigit(b % 16)>>

CodePoint == 0..2047   \* those of at most two bytes in UTF-8

EncodeChar(c) ==
  CASE c \in 48..57 \cup 65..90 \cup 97..122 -> <<c>>
    [] c = Space -> <<Plus>>
    [] c > 127   -> Escape(192 + (c \div 64)) \o Escape(128 + (c % 64))
    [] OTHER     -> Escape(c)

EncodeText(text) == Joined([k \in DOMAIN text |-> EncodeChar(text[k])])

Input == [key : Seq(CodePoint), value : Seq(CodePoint)]

EncodeField(f) == EncodeText(f.key) \o <<Equals>> \o EncodeText(f.value)

EncodeForm(fields) ==
  Joined([k \in DOMAIN fields |->
            (IF k = 1 THEN <<>> ELSE <<Ampersand>>) \o EncodeField(fields[k])])

(* Reference: "Decodes valid `%HH` hex sequences into their byte values"     *)
(* (the comment on percent_decode), all at once.  Hexadecimal digits are not *)
(* percent signs, so that no two of them overlap.                            *)
DecodedBytes(s) ==
  LET starts == {k \in DOMAIN s : /\ s[k] = Percent /\ k + 2 <= Len(s)
                                  /\ HexValue(s[k + 1]) >= 0 /\ HexValue(s[k + 2]) >= 0}
      inside == {k + 1 : k \in starts} \cup {k + 2 : k \in starts}
      byte(k) == IF k \in starts THEN HexValue(s[k + 1]) * 16 + HexValue(s[k + 2])
                 ELSE IF s[k] = Plus THEN Space ELSE s[k]
  IN  Joined([k \in DOMAIN s |-> IF k \in inside THEN <<>> ELSE <<byte(k)>>])

(* Reference: text in UTF-8, of characters of one or two bytes.              *)
IsUtf8(bytes) ==
  \A n \in DOMAIN bytes :
    bytes[n] < 128 \/ TwoBytes(bytes, n) \/ (n > 1 /\ TwoBytes(bytes, n - 1))
=============================================================================
