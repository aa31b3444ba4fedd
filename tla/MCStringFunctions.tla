--------------------------- MODULE MCStringFunctions ---------------------------
(* Every text of up to three units of the kinds there are.                    *)
EXTENDS StringFunctions, SequencesExt

Symbol(bytes) == [kind |-> "symbol", size |-> Len(bytes), bytes |-> bytes]
Letter(byte) == [kind |-> "escape", size |-> 2, byte |-> byte]
CodeOf(code) == [kind |-> "code", size |-> 6, code |-> code]

Other == [kind |-> "unknown", size |-> 2]

(* "a", symbols of two to four bytes, \n, \\, and codes at the ends of areas.  *)
MCUnits ==
    { Symbol(<<97>>), Symbol(<<208, 173>>), Symbol(<<226, 130, 172>>),
      Symbol(<<240, 159, 152, 128>>), Letter(10), Letter(92),
      CodeOf(0), CodeOf(127), CodeOf(128), CodeOf(2047), CodeOf(2048), CodeOf(65535) }

SizeOf(us) == LET Size[i \in 0 .. Len(us)] == IF i = 0 THEN 0 ELSE Size[i - 1] + us[i].size
              IN  Size[Len(us)]

(* The bytes of a unit: "\", then "n" or "\", or "u" and four digits.          *)
Hex(d) == IF d < 10 THEN 48 + d ELSE 87 + d

Raw(u) ==
    CASE u.kind = "symbol" -> u.bytes
      [] u.kind = "escape" -> <<92, IF u.byte = 10 THEN 110 ELSE u.byte>>
      [] u.kind = "code" -> <<92, 117>> \o [i \in 1 .. 4 |-> Hex((u.code \div 16 ^ (4 - i)) % 16)]

(* What is read at byte i of b when that is not the first of a unit: a symbol *)
(* of its own, or the second "\" of two and the byte behind it.               *)
Within(b, i) ==
    IF b[i] # 92 THEN Symbol(<<b[i]>>)
    ELSE CASE b[i + 1] = 110 -> Letter(10)
           [] b[i + 1] \in {92, 34} -> Letter(b[i + 1])
           [] OTHER -> Other

TextOf(us) ==
    LET Start(i) == SizeOf(SubSeq(us, 1, i - 1))
        Starts == {Start(i) : i \in DOMAIN us}
        bytes == FlattenSeq([i \in DOMAIN us |-> Raw(us[i])]) \o <<34>>
    IN  [len |-> SizeOf(us), starts |-> Starts,
         unit |-> [o \in 0 .. SizeOf(us) - 1 |->
                     IF o \in Starts THEN us[CHOOSE i \in DOMAIN us : Start(i) = o]
                     ELSE Within(bytes, o + 1)]]

MCTexts == {TextOf(us) : us \in UNION {[1 .. n -> MCUnits] : n \in 0 .. 3}}
=============================================================================
