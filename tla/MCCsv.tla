-------------------------------- MODULE MCCsv --------------------------------
(* Files to parse: every text of up to MaxLen characters, shorter ones with a  *)
(* line that does not parse or with '\r', and two files in a row; no line has  *)
(* more than MaxLine characters.                                               *)
EXTENDS CsvParser

CONSTANTS MaxLen, MaxLine

Texts(S, n) == UNION {[1..k -> S] : k \in 1..n}
Short(t) == \A i \in 1..(Len(t) - MaxLine) : \E j \in i..(i + MaxLine) : t[j] \in {"\n", "\r"}

OneFile == Texts({"x", "\n"}, MaxLen)
             \cup Texts({"x", "b", "\n"}, MaxLen - 2) \cup Texts({"x", "\r", "\n"}, MaxLen - 2)
MCInputs ==
  {<<t>> : t \in {u \in OneFile : Short(u)}}
    \cup {<<t, u>> : t \in Texts({"x", "\n"}, 2), u \in Texts({"x", "\n"}, 2)}
=============================================================================
