----------------------------- MODULE UrlEncode -----------------------------
(***************************************************************************)
(* HttpConnection::parseFromUrlEncode() (HttpConnection.cc 256-310): the   *)
(* decoder of an application/x-www-form-urlencoded POST body into the map  *)
(* post_.  The for loop over body_ is modelled one character per step: one *)
(* action per case of its switch, and Finish for the code after the loop.  *)
(* The body is chosen in Init from every sequence over a small alphabet up *)
(* to MaxLen characters.  Characters are one-letter strings; the decimal   *)
(* text std::to_string produces is a sequence of digit strings.            *)
(*                                                                         *)
(* FormDecode is the reference: the form grammar of the specification,    *)
(* "& separates pairs, = separates name/value (both must be nonempty), +   *)
(* maps to space, %HH decodes a hex byte (malformed -> Bad Request)".  A   *)
(* decoded byte is the number itself.                                      *)
(***************************************************************************)
EXTENDS Naturals, Sequences, SequencesExt, TLC

CONSTANTS
    Chars,      \* the alphabet of the bodies enumerated
    MaxLen      \* the longest body enumerated

HexLower == <<"0","1","2","3","4","5","6","7","8","9","a","b","c","d","e","f">>
HexUpper == <<"0","1","2","3","4","5","6","7","8","9","A","B","C","D","E","F">>
IsHex(c) == \E d \in 1..16 : c \in {HexLower[d], HexUpper[d]}
HexVal(c) == (CHOOSE d \in 1..16 : c \in {HexLower[d], HexUpper[d]}) - 1

ASSUME Chars \subseteq STRING /\ MaxLen \in Nat \ {0}

Bodies == {b \in BoundedSeq(Chars, MaxLen) : b # <<>>}

(***************************************************************************)
(* strtol(s, nullptr, 16) on the two characters after '%': an optional     *)
(* sign, then the longest prefix of hex digits; 0 when there is none.      *)
(* std::to_string of the result: its decimal digits.                       *)
(***************************************************************************)
RECURSIVE HexPrefix(_, _)
HexPrefix(s, acc) ==
    IF s # <<>> /\ IsHex(Head(s)) THEN HexPrefix(Tail(s), 16 * acc + HexVal(Head(s)))
                                  ELSE acc
Strtol16(s) ==
    IF s # <<>> /\ Head(s) = "+" THEN HexPrefix(Tail(s), 0) ELSE HexPrefix(s, 0)

RECURSIVE ToDecimal(_)
ToDecimal(n) ==
    LET digit(d) == HexLower[d + 1]
    IN  IF n < 10 THEN <<digit(n)>> ELSE ToDecimal(n \div 10) \o <<digit(n % 10)>>

(***************************************************************************)
(* The reference decoder, from the specification's grammar.  A pair is     *)
(* split at its first '='.                                                 *)
(***************************************************************************)
RECURSIVE SplitOn(_, _)
SplitOn(s, sep) ==
    IF \A k \in 1..Len(s) : s[k] # sep THEN <<s>>
    ELSE LET k == SelectInSeq(s, LAMBDA c : c = sep)
         IN  <<SubSeq(s, 1, k - 1)>> \o SplitOn(SubSeq(s, k + 1, Len(s)), sep)

RECURSIVE DecodePiece(_)
DecodePiece(s) ==
    IF s = <<>> THEN [ok |-> TRUE, out |-> <<>>]
    ELSE LET rest(k)   == DecodePiece(SubSeq(s, k + 1, Len(s)))
             with(x, k) == [ok |-> rest(k).ok, out |-> <<x>> \o rest(k).out]
         IN  CASE Head(s) = "%" ->
                    IF Len(s) >= 3 /\ IsHex(s[2]) /\ IsHex(s[3])
                    THEN with(16 * HexVal(s[2]) + HexVal(s[3]), 3)
                    ELSE [ok |-> FALSE, out |-> <<>>]
               [] Head(s) = "+" -> with(" ", 1)
               [] OTHER         -> with(Head(s), 1)

FormDecode(b) ==
    LET pairs   == SplitOn(b, "&")
        eqAt(p) == SelectInSeq(p, LAMBDA c : c = "=")
        name(p) == DecodePiece(SubSeq(p, 1, eqAt(p) - 1))
        val(p)  == DecodePiece(SubSeq(p, eqAt(p) + 1, Len(p)))
        good(p) == eqAt(p) > 0 /\ name(p).ok /\ val(p).ok
                   /\ name(p).out # <<>> /\ val(p).out # <<>>
        \* a later pair with the same name replaces an earlier one
        map     == FoldLeft(LAMBDA m, p : (name(p).out :> val(p).out) @@ m,
                            <<>>, pairs)
    IN  IF \A k \in 1..Len(pairs) : good(pairs[k])
        THEN [ret |-> "NoRequest", post |-> map]
        ELSE [ret |-> "BadRequest", post |-> <<>>]

-----------------------------------------------------------------------------
VARIABLES
    body,       \* body_
    i,          \* the loop index, 1-based
    key, value, \* the strings being built
    current,    \* which of them current points to
    post,       \* post_
    ret         \* "Parsing" while the loop runs, then the HttpCode returned

vars == <<body, i, key, value, current, post, ret>>

Init ==
    /\ body \in Bodies
    /\ i = 1
    /\ key = <<>> /\ value = <<>>
    /\ current = "key"
    /\ post = <<>>
    /\ ret = "Parsing"

Scanning(c) == ret = "Parsing" /\ i <= Len(body) /\ body[i] = c

\* *current += s
AppendCurrent(s) ==
    \/ current = "key"   /\ key' = key \o s     /\ UNCHANGED value
    \/ current = "value" /\ value' = value \o s /\ UNCHANGED key

\* post_[key] = value
Store == post' = (key :> value) @@ post

OnEquals ==
    /\ Scanning("=")
    /\ current' = "value"
    /\ i' = i + 1
    /\ UNCHANGED <<body, key, value, post, ret>>

\* mutant: '&' stores the pair and clears the key only
OnAmpersandKeepValue ==
    /\ Scanning("&")
    /\ \/ /\ key = <<>> \/ value = <<>>
          /\ ret' = "BadRequest"
          /\ UNCHANGED <<i, key, value, current, post>>
       \/ /\ key # <<>> /\ value # <<>>
          /\ Store
          /\ key' = <<>> /\ UNCHANGED value
          /\ current' = "key"
          /\ i' = i + 1
          /\ UNCHANGED ret
    /\ UNCHANGED body

OnAmpersand ==
    /\ Scanning("&")
    /\ \/ /\ key = <<>> \/ value = <<>>
          /\ ret' = "BadRequest"
          /\ UNCHANGED <<i, key, value, current, post>>
       \/ /\ key # <<>> /\ value # <<>>
          /\ Store
          /\ key' = <<>> /\ value' = <<>>
          /\ current' = "key"
          /\ i' = i + 1
          /\ UNCHANGED ret
    /\ UNCHANGED body

OnPlus ==
    /\ Scanning("+")
    /\ AppendCurrent(<<" ">>)
    /\ i' = i + 1
    /\ UNCHANGED <<body, current, post, ret>>

\* mutant: the escape check with > for >=
EscapeTooShortOffByOne(j, n) == j + 1 > n

\* if (i+2 >= n) with the 0-based index i - 1
EscapeTooShort(j, n) == j + 1 >= n

OnPercent ==
    /\ Scanning("%")
    /\ \/ /\ EscapeTooShort(i, Len(body))
          /\ ret' = "BadRequest"
          /\ UNCHANGED <<i, key, value>>
       \/ /\ ~EscapeTooShort(i, Len(body))
          \* substr(i+1, 2) stops at the end of the string
          /\ LET hex == SubSeq(body, i + 1, IF i + 2 <= Len(body) THEN i + 2 ELSE Len(body))
             IN  AppendCurrent(ToDecimal(Strtol16(hex)))
          /\ i' = i + 3
          /\ UNCHANGED ret
    /\ UNCHANGED <<body, current, post>>

OnOther ==
    /\ ret = "Parsing" /\ i <= Len(body)
    /\ body[i] \notin {"=", "&", "+", "%"}
    /\ AppendCurrent(<<body[i]>>)
    /\ i' = i + 1
    /\ UNCHANGED <<body, current, post, ret>>

Finish ==
    /\ ret = "Parsing" /\ i > Len(body)
    /\ \/ /\ key = <<>> \/ value = <<>>
          /\ ret' = "BadRequest"
          /\ UNCHANGED post
       \/ /\ key # <<>> /\ value # <<>>
          /\ Store
          /\ ret' = "NoRequest"
    /\ UNCHANGED <<body, i, key, value, current>>

Next == OnEquals \/ OnAmpersand \/ OnPlus \/ OnPercent \/ OnOther \/ Finish

Spec == Init /\ [][Next]_vars

-----------------------------------------------------------------------------
TypeOK ==
    /\ body \in Bodies
    \* the escape check keeps substr(i+1, 2) inside body_: the index
    \* passes the end by one at most
    /\ i \in 1..Len(body) + 1
    /\ current \in {"key", "value"}
    /\ ret \in {"Parsing", "NoRequest", "BadRequest"}

\* Inputs on which the specification's grammar leaves nothing open: every
\* '%' is followed by hex digits as far as the body goes, and no pair has a
\* second '='.
EscapesHex(b) == \A k \in 1..Len(b) :
                    b[k] = "%" => \A j \in {k + 1, k + 2} \cap 1..Len(b) : IsHex(b[j])
OneEqualsPerPair(b) ==
    LET pairs == SplitOn(b, "&")
    IN  \A k \in 1..Len(pairs) :
           Len(SelectSeq(pairs[k], LAMBDA c : c = "=")) <= 1
NoPercent(b) == \A k \in 1..Len(b) : b[k] # "%"

(***************************************************************************)
(* parseFromUrlEncode accepts a body exactly when the form grammar does    *)
(* (bad '&' pairs, an escape cut short at the end of the body, an empty    *)
(* name or value at the end), and without escapes it builds the same map, *)
(* later pairs replacing earlier ones.                                     *)
(***************************************************************************)
DecodesLikeGrammar ==
    (ret # "Parsing" /\ EscapesHex(body) /\ OneEqualsPerPair(body)) =>
        /\ ret = FormDecode(body).ret
        /\ (ret = "NoRequest" /\ NoPercent(body)) => post = FormDecode(body).post

(***************************************************************************)
(* A '%' that is not followed by two hex digits is malformed and makes the *)
(* request a Bad Request: the code's strtol reads such an escape as a      *)
(* number all the same.                                                    *)
(***************************************************************************)
RejectsMalformedEscape ==
    (ret # "Parsing" /\ OneEqualsPerPair(body)) => ret = FormDecode(body).ret
=============================================================================
