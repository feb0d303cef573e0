------------------------------ MODULE FeeParser ------------------------------
(***************************************************************************)
(* Sender::parse_suggested_fee (sender.rs, test.rs 2044-2066), the parser  *)
(* that reads the fee the node asks for out of the raw log of an           *)
(* insufficient-fee rejection.  A log is a sequence of symbols: digits,   *)
(* the characters of denominations and separators, and whole words ("got:",*)
(* "required: ", ...) that never contain a denomination, so splitting on   *)
(* them or on a denomination happens at symbol boundaries exactly as on   *)
(* the bytes.  Logs follow the cosmos-sdk format                           *)
(*   insufficient fees; got: <paid><denom> required: <coins>: insufficient fee *)
(* where <coins> lists one or more required coins, comma separated.        *)
(***************************************************************************)
EXTENDS Naturals, Sequences, SequencesExt

(* char::is_numeric holds exactly for the digit symbols.                  *)
DigitValue ==
    ("0" :> 0) @@ ("1" :> 1) @@ ("2" :> 2) @@ ("3" :> 3) @@ ("4" :> 4)
    @@ ("5" :> 5) @@ ("6" :> 6) @@ ("7" :> 7) @@ ("8" :> 8) @@ ("9" :> 9)

IsNumeric(ch) == ch \in DOMAIN DigitValue

NoFee == [some |-> FALSE, val |-> 0]

SomeFee(n) == [some |-> TRUE, val |-> n]

(* str::split(pat): the pieces between non-overlapping occurrences of     *)
(* `sep`, scanning from the left.                                          *)
RECURSIVE SplitOn(_, _)
SplitOn(s, sep) ==
    LET at == {i \in 1..(Len(s) - Len(sep) + 1) : SubSeq(s, i, i + Len(sep) - 1) = sep}
    IN  IF at = {} THEN <<s>>
        ELSE LET i == Min(at)
             IN  <<SubSeq(s, 1, i - 1)>> \o SplitOn(SubSeq(s, i + Len(sep), Len(s)), sep)

(* str::split_whitespace: the non-empty pieces between spaces.            *)
SplitWhitespace(s) == SelectSeq(SplitOn(s, <<" ">>), LAMBDA w : w # <<>>)

(* The decimal value of a sequence of digit symbols.                       *)
RECURSIVE ToNum(_)
ToNum(s) == IF s = <<>> THEN 0 ELSE ToNum(Front(s)) * 10 + DigitValue[Last(s)]

(* str::parse::<u128>: one or more digits (the 128-bit limit is beyond     *)
(* every amount written here and beyond TLC's integers).                   *)
ParseU128(s) ==
    IF s # <<>> /\ \A k \in 1..Len(s) : IsNumeric(s[k])
    THEN SomeFee(ToNum(s))
    ELSE NoFee

(* The `?`s return None when a piece is missing: no single "required: ",  *)
(* no word before it, no non-digit in the paid coin (its denomination      *)
(* starts there), no non-digit before the required amount.  The result is *)
(* the parse of the suffix from that non-digit, or of the same without its *)
(* first character.                                                        *)
ParseSuggestedFee(raw_log) ==
    LET parts == SplitOn(raw_log, <<"required: ">>) IN
    IF Len(parts) # 2 THEN NoFee ELSE
    LET got_parts == SplitWhitespace(parts[1]) IN
    IF got_parts = <<>> THEN NoFee ELSE
    LET paid == Last(got_parts)
        i == SelectInSeq(paid, LAMBDA ch : ~IsNumeric(ch)) IN
    IF i = 0 THEN NoFee ELSE
    LET required == SplitOn(parts[2], SubSeq(paid, i, Len(paid)))[1]
        j == SelectLastInSeq(required, LAMBDA ch : ~IsNumeric(ch)) IN
    IF j = 0 THEN NoFee ELSE
    LET suggested == SubSeq(required, j, Len(required)) IN
    IF ParseU128(suggested).some THEN ParseU128(suggested) ELSE ParseU128(Tail(suggested))

=============================================================================
