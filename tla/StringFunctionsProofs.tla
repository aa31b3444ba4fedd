------------------------- MODULE StringFunctionsProofs -------------------------
(* Proofs that interpretate_esc_seq stays in its block for every text, but    *)
(* for the strcat of an escape in memory that is not clean, and that the text *)
(* it writes is the decoded one, but for codes of two bytes.                  *)
EXTENDS StringFunctions, SequenceTheorems, NaturalsInduction, WellFoundedInduction, TLAPS

Block == 0 .. text.len

(* off is at the start of a unit, or far ahead of dest_off since a code of    *)
(* two bytes took it into the middle of one.                                  *)
Positions ==
    /\ off \in Nat /\ destOff \in 0 .. text.len /\ destOff <= off
    /\ off \in text.starts \cup {text.len} \/ destOff + 7 <= off

(* In clean memory what follows dest_off is still zero, but for the two bytes *)
(* of a code that dest_off did not pass; then off is far ahead.               *)
CleanBehind ==
    \A i \in destOff .. text.len :
        dest[i] # 0 => i <= destOff + 1 /\ destOff + 6 <= off

Inv ==
    /\ text \in Texts
    /\ clean \in BOOLEAN
    /\ status \in {"called", "running", "done", "failed", "overrun"}
    /\ Positions
    /\ status = "called" => off = 0
    /\ status = "running" => dest \in [Block -> Int]
    /\ status = "running" /\ clean => CleanBehind
    /\ status = "overrun" => ~clean /\ Escapes(text) # {}

(* The unit at off, for which there is room in the block.                     *)
LEMMA UnitRead ==
    ASSUME Inv, NEW kind, Reading(kind)
    PROVE  /\ off \in 0 .. text.len - 1 /\ IsUnit(text.unit[off])
           /\ text.len \in Nat /\ off \in Nat /\ destOff \in Nat /\ destOff <= off
           /\ text.unit[off].kind = kind
           /\ text.unit[off].size \in 1 .. 6
           /\ destOff + text.unit[off].size <= text.len
<1> DEFINE n == text.unit[off].size
<1>1. /\ text \in Texts /\ text.len \in Nat /\ text.starts \subseteq 0 .. text.len - 1
      /\ off < text.len /\ text.unit[off].kind = kind
      /\ off \in Nat /\ destOff \in Nat /\ destOff <= off
      /\ off \in text.starts \cup {text.len} \/ destOff + 7 <= off
  BY TextsAssumption DEF Inv, Reading, Positions
<1>2. off \in 0 .. text.len - 1
  BY <1>1
<1>3. IsUnit(text.unit[off])
  BY <1>1, <1>2, TextsAssumption
<1>4. n \in 1 .. 6
  BY <1>3 DEF IsUnit
<1> HIDE DEF n
<1>5. CASE off \in text.starts
  <2>1. off + n \in text.starts \cup {text.len}
    BY <1>1, <1>5, TextsAssumption DEF n
  <2>2. off + n <= text.len
    BY <1>1, <2>1
  <2> QED BY <1>1, <1>2, <1>3, <1>4, <2>2 DEF n
<1>6. CASE off \notin text.starts
  <2>1. destOff + n <= text.len
    BY <1>1, <1>4, <1>6
  <2> QED BY <1>1, <1>2, <1>3, <1>4, <2>1 DEF n
<1> QED BY <1>5, <1>6

(* dest_off does not get further than off.                                    *)
LEMMA PositionsKept ==
    ASSUME Inv, NEW kind, Reading(kind), Advance,
           NEW k \in Nat, k <= text.unit[off].size, destOff' = destOff + k
    PROVE  Positions'
<1> DEFINE n == text.unit[off].size
<1>1. /\ text.len \in Nat /\ off \in Nat /\ destOff \in Nat /\ destOff <= off
      /\ n \in 1 .. 6 /\ destOff + n <= text.len /\ off < text.len
  BY UnitRead
<1>2. off' = off + n /\ text' = text
  BY DEF Advance, Reading
<1>3. off \in text.starts => off + n \in text.starts \cup {text.len}
  BY TextsAssumption DEF Inv
<1>4. off \in text.starts \/ destOff + 7 <= off
  BY <1>1 DEF Inv, Positions
<1> HIDE DEF n
<1>5. k <= n
  BY DEF n
<1> QED BY <1>1, <1>2, <1>3, <1>4, <1>5 DEF Positions

LEMMA BytesAndCodes == Bytes \subseteq Int /\ Codes \subseteq Nat
BY DEF Bytes, Codes

LEMMA SymbolUnit ==
    ASSUME NEW u, IsUnit(u), u.kind = "symbol"
    PROVE  /\ u.size \in 1 .. 4 /\ Len(u.bytes) = u.size
           /\ \A i \in 1 .. Len(u.bytes) : u.bytes[i] \in Int
<1>1. u.size \in 1 .. 4 /\ u.bytes \in Seq(Bytes) /\ Len(u.bytes) = u.size
  BY DEF IsUnit
<1>2. \A i \in 1 .. Len(u.bytes) : u.bytes[i] \in Bytes
  BY <1>1, ElementOfSeq
<1> QED BY <1>1, <1>2, BytesAndCodes

LEMMA CodeUnit ==
    ASSUME NEW u, IsUnit(u), u.kind = "code"
    PROVE  u.size = 6 /\ u.code \in Nat
BY BytesAndCodes DEF IsUnit

LEMMA EscapeUnit ==
    ASSUME NEW u, IsUnit(u), u.kind = "escape"
    PROVE  u.size = 2 /\ u.byte \in Int
BY BytesAndCodes DEF IsUnit

(* A write of n bytes that fits into the block.                               *)
LEMMA WriteFits ==
    ASSUME Inv, status = "running", NEW at \in Nat, NEW bytes, Len(bytes) \in Nat,
           \A i \in 1 .. Len(bytes) : bytes[i] \in Int,
           at + Len(bytes) <= text.len + 1, Write(at, bytes)
    PROVE  /\ status' = "running"
           /\ dest' \in [Block -> Int]
           /\ \A i \in Block : dest'[i] = IF i \in at .. at + Len(bytes) - 1
                                          THEN bytes[i - at + 1] ELSE dest[i]
<1>1. dest \in [Block -> Int] /\ text.len \in Nat
  BY TextsAssumption DEF Inv
<1>2. /\ status' = "running"
      /\ dest' = [i \in DOMAIN dest |->
                    IF i \in at .. at + Len(bytes) - 1 THEN bytes[i - at + 1] ELSE dest[i]]
  BY DEF Write, Allocated
<1>3. \A i \in Block : i \in at .. at + Len(bytes) - 1 => bytes[i - at + 1] \in Int
  <2> SUFFICES ASSUME NEW i \in Block, i \in at .. at + Len(bytes) - 1
               PROVE  bytes[i - at + 1] \in Int
    OBVIOUS
  <2>1. i - at + 1 \in 1 .. Len(bytes)
    BY <1>1 DEF Block
  <2> QED BY <2>1
<1> QED BY <1>1, <1>2, <1>3

LEMMA CodeBytesLength ==
    ASSUME NEW cv \in Nat
    PROVE  CodeBytes(cv) \in Seq(Int) /\ Len(CodeBytes(cv)) \in {1, 2, 3}
<1>1. CASE cv <= 127
  BY <1>1 DEF CodeBytes
<1>2. CASE cv > 127 /\ cv <= 2047
  <2>1. CodeBytes(cv) = << (192 + cv \div 64) % 256, (128 + (cv % 64)) % 256 >>
    BY <1>2 DEF CodeBytes, Utf2
  <2> QED BY <2>1
<1>3. CASE cv > 2047
  <2> DEFINE a == (224 + cv \div 4096) % 256
             b == (128 + ((cv * 16) % 65536) \div 1024) % 256
             c == (128 + (cv % 64)) % 256
  <2>1. CodeBytes(cv) = <<a, b, c>>
    BY <1>3 DEF CodeBytes, Utf1
  <2>2. a \in Int /\ b \in Int /\ c \in Int
    OBVIOUS
  <2> HIDE DEF a, b, c
  <2> QED BY <2>1, <2>2
<1> QED BY <1>1, <1>2, <1>3

LEMMA ScannedCode ==
    ASSUME NEW code \in Nat, NEW cv \in Scanned(code)
    PROVE  cv \in Nat
<1>1. CASE cv = code
  BY <1>1
<1>2. CASE cv # code
  <2>1. PICK d \in JunkDigits : cv = (code * 16 + d) % 65536
    BY <1>2 DEF Scanned
  <2>2. d \in Nat
    BY JunkAssumption
  <2> DEFINE n == code * 16 + d
  <2>3. n \in Nat
    BY <2>2
  <2> HIDE DEF n
  <2>4. n % 65536 \in Nat
    BY <2>3
  <2> QED BY <2>1, <2>4 DEF n
<1> QED BY <1>1, <1>2

LEMMA SymbolKeeps ==
    ASSUME Inv, CopySymbol
    PROVE  Inv'
<1> DEFINE u == text.unit[off]
           n == u.size
<1>1. /\ IsUnit(u) /\ u.kind = "symbol"
      /\ text.len \in Nat /\ off \in Nat /\ destOff \in Nat /\ destOff <= off
      /\ n \in 1 .. 6 /\ destOff + n <= text.len
  BY UnitRead DEF CopySymbol
<1>2. Len(u.bytes) = n /\ \A i \in 1 .. Len(u.bytes) : u.bytes[i] \in Int
  BY <1>1, SymbolUnit
<1>3. /\ UNCHANGED <<text, clean>> /\ status = "running" /\ off' = off + n
      /\ Write(destOff, u.bytes) /\ destOff' = destOff + n
  BY DEF CopySymbol, Reading, Advance
<1>4. Positions'
  BY <1>1, <1>3, PositionsKept DEF CopySymbol
<1> HIDE DEF u, n
<1>5. /\ status' = "running" /\ dest' \in [Block -> Int]
      /\ \A i \in Block : dest'[i] = IF i \in destOff .. destOff + Len(u.bytes) - 1
                                     THEN u.bytes[i - destOff + 1] ELSE dest[i]
  <2>1. destOff + Len(u.bytes) <= text.len + 1 /\ Len(u.bytes) \in Nat
    BY <1>1, <1>2
  <2> QED BY <1>1, <1>2, <1>3, <2>1, WriteFits, SMTT(30)
<1>6. ASSUME clean PROVE CleanBehind'
  <2> SUFFICES ASSUME NEW i \in destOff' .. text.len, dest'[i] # 0
               PROVE  i <= destOff' + 1 /\ destOff' + 6 <= off'
    BY <1>3 DEF CleanBehind
  <2>1. i \in Block /\ i \notin destOff .. destOff + Len(u.bytes) - 1
        /\ i \in destOff .. text.len
    BY <1>1, <1>2, <1>3 DEF Block
  <2>2. dest[i] # 0
    BY <1>5, <2>1
  <2>3. i <= destOff + 1 /\ destOff + 6 <= off
    BY <1>3, <1>6, <2>1, <2>2 DEF Inv, CleanBehind
  <2> QED BY <1>1, <1>3, <2>1, <2>3
<1> QED BY <1>3, <1>4, <1>5, <1>6 DEF Inv, Block

LEMMA UnknownKeeps ==
    ASSUME Inv, Unknown
    PROVE  Inv'
<1>1. /\ text.len \in Nat /\ off \in Nat /\ destOff \in Nat /\ destOff <= off
      /\ IsUnit(text.unit[off]) /\ text.unit[off].kind = "unknown"
  BY UnitRead DEF Unknown
<1>2. text.unit[off].size = 2
  BY <1>1 DEF IsUnit
<1>3. /\ UNCHANGED <<text, clean, status, dest>> /\ status = "running"
      /\ destOff' = destOff + 1 /\ off' = off + 2
  BY <1>2 DEF Unknown, Reading, Advance
<1>4. Positions'
  BY <1>2, <1>3, PositionsKept DEF Unknown
<1>5. ASSUME clean PROVE CleanBehind'
  <2> SUFFICES ASSUME NEW i \in destOff' .. text.len, dest[i] # 0
               PROVE  i <= destOff' + 1 /\ destOff' + 6 <= off'
    BY <1>3 DEF CleanBehind
  <2>1. i \in destOff .. text.len
    BY <1>1, <1>3
  <2>2. i <= destOff + 1 /\ destOff + 6 <= off
    BY <1>3, <1>5, <2>1 DEF Inv, CleanBehind
  <2> QED BY <1>1, <1>3, <2>1, <2>2
<1> QED BY <1>3, <1>4, <1>5 DEF Inv, Block

LEMMA CodeKeeps ==
    ASSUME Inv, Code
    PROVE  Inv'
<1> DEFINE u == text.unit[off]
<1>1. /\ IsUnit(u) /\ u.kind = "code"
      /\ text.len \in Nat /\ off \in Nat /\ destOff \in Nat /\ destOff <= off
      /\ destOff + u.size <= text.len
  BY UnitRead DEF Code
<1>2. u.size = 6 /\ u.code \in Nat
  BY <1>1, CodeUnit
<1>3. PICK cv \in Scanned(u.code) :
         LET n == Len(CodeBytes(cv))
         IN  /\ Write(destOff, CodeBytes(cv))
             /\ destOff' = destOff + (IF n = 2 THEN 0 ELSE n)
             /\ Advance \/ (n = 2 /\ off' = off + u.size + 1)
  BY DEF Code
<1>4. cv \in Nat
  BY <1>2, <1>3, ScannedCode
<1> DEFINE bytes == CodeBytes(cv)
           n == Len(bytes)
           k == IF n = 2 THEN 0 ELSE n
<1>5. bytes \in Seq(Int) /\ n \in {1, 2, 3}
  BY <1>4, CodeBytesLength
<1>6. UNCHANGED <<text, clean>> /\ status = "running"
  BY DEF Code, Reading
<1>7. /\ Write(destOff, bytes) /\ destOff' = destOff + k
      /\ Advance \/ (n = 2 /\ off' = off + 7)
  <2>1. off + u.size + 1 = off + 7
    BY <1>1, <1>2
  <2>2. Advance \/ (n = 2 /\ off' = off + u.size + 1)
    BY <1>3
  <2>3. Write(destOff, bytes) /\ destOff' = destOff + k
    BY <1>3
  <2> QED BY <2>1, <2>2, <2>3
<1>8. k \in 0 .. 3
  BY <1>5
<1>9. Positions'
  <2>1. CASE Advance
    <3> HIDE DEF k
    <3>1. k <= u.size /\ k \in Nat
      BY <1>2, <1>8
    <3> QED BY <1>7, <2>1, <3>1, PositionsKept DEF Code
  <2>2. CASE n = 2 /\ off' = off + 7
    <3>1. destOff' = destOff
      BY <1>1, <1>7, <2>2
    <3> QED BY <1>1, <1>2, <1>6, <2>2, <3>1 DEF Positions
  <2> QED BY <1>7, <2>1, <2>2
<1>10. off' \in Nat /\ off' >= off + 6
  BY <1>1, <1>2, <1>7 DEF Advance
<1> HIDE DEF u, bytes, n
<1>11. /\ status' = "running" /\ dest' \in [Block -> Int]
       /\ \A i \in Block : dest'[i] = IF i \in destOff .. destOff + n - 1
                                      THEN bytes[i - destOff + 1] ELSE dest[i]
  <2>1. destOff + n <= text.len + 1
    BY <1>1, <1>2, <1>5
  <2>2. Len(bytes) \in Nat /\ \A i \in 1 .. Len(bytes) : bytes[i] \in Int
    BY <1>5 DEF n
  <2> QED BY <1>1, <1>5, <1>6, <1>7, <2>1, <2>2, WriteFits DEF n
<1>12. ASSUME clean PROVE CleanBehind'
  <2> SUFFICES ASSUME NEW i \in destOff' .. text.len, dest'[i] # 0
               PROVE  i <= destOff' + 1 /\ destOff' + 6 <= off'
    BY <1>6 DEF CleanBehind
  <2>1. i \in Block /\ i \in destOff .. text.len /\ i \in Int
    BY <1>1, <1>7, <1>8 DEF Block
  <2>2. CASE i \in destOff .. destOff + n - 1
    <3>1. n = 2 /\ destOff' = destOff
      BY <1>1, <1>5, <1>7, <2>1, <2>2
    <3> QED BY <1>1, <1>10, <2>1, <2>2, <3>1
  <2>3. CASE i \notin destOff .. destOff + n - 1
    <3>1. dest[i] # 0
      BY <1>11, <2>1, <2>3
    <3>2. i <= destOff + 1 /\ destOff + 6 <= off
      BY <1>6, <1>12, <2>1, <3>1 DEF Inv, CleanBehind
    <3> QED BY <1>1, <1>7, <1>8, <1>10, <2>1, <3>2
  <2> QED BY <2>2, <2>3
<1> QED BY <1>6, <1>9, <1>11, <1>12 DEF Inv, Block

(* In clean memory a string of the block ends at dest_off, or up to two bytes *)
(* behind it: both bytes that strcat writes are in the block.                 *)
LEMMA EscapeKeeps ==
    ASSUME Inv, Escape
    PROVE  Inv'
<1> DEFINE u == text.unit[off]
           bytes == <<u.byte, 0>>
<1>1. /\ off \in 0 .. text.len - 1 /\ IsUnit(u) /\ u.kind = "escape"
      /\ text.len \in Nat /\ off \in Nat /\ destOff \in Nat /\ destOff <= off
      /\ destOff + u.size <= text.len
  BY UnitRead DEF Escape
<1>2. u.size = 2 /\ u.byte \in Int
  BY <1>1, EscapeUnit
<1>3. /\ UNCHANGED <<text, clean>> /\ status = "running"
      /\ destOff' = destOff + 1 /\ off' = off + 2
  BY <1>2 DEF Escape, Reading, Advance
<1>4. Positions'
  BY <1>2, <1>3, PositionsKept DEF Escape
<1>5. off \in Escapes(text)
  BY <1>1 DEF Escapes
<1>6. PICK end \in 0 .. Allocated(text.len) : EndsAt(dest, end) /\ Write(end, bytes)
  BY DEF Escape
<1>7. end \in Nat
  BY <1>1 DEF Allocated
<1>8. /\ Len(bytes) = 2 /\ bytes[2] = 0
      /\ \A i \in 1 .. Len(bytes) : bytes[i] \in Int
  BY <1>2
<1>9. dest \in [Block -> Int]
  BY <1>3 DEF Inv
<1> HIDE DEF bytes
<1>10. ASSUME end + 2 <= text.len + 1
       PROVE  /\ status' = "running" /\ dest' \in [Block -> Int]
              /\ \A i \in Block : dest'[i] = IF i \in end .. end + 1
                                             THEN bytes[i - end + 1] ELSE dest[i]
  <2>1. end + Len(bytes) <= text.len + 1 /\ Len(bytes) \in Nat
    BY <1>8, <1>10
  <2>2. /\ status' = "running" /\ dest' \in [Block -> Int]
        /\ \A i \in Block : dest'[i] = IF i \in end .. end + Len(bytes) - 1
                                       THEN bytes[i - end + 1] ELSE dest[i]
    BY <1>3, <1>6, <1>7, <1>8, <2>1, WriteFits
  <2>3. end + Len(bytes) - 1 = end + 1
    BY <1>7, <1>8
  <2> QED BY <2>2, <2>3
<1>11. ASSUME clean
       PROVE  /\ end + 2 <= text.len + 1
              /\ end <= destOff + 2
              /\ end > destOff => destOff + 6 <= off
  <2>1. ASSUME NEW z \in Block, z < end
        PROVE  dest[z] # 0
    <3>1. z \in 0 .. end - 1
      BY <1>1, <1>7, <2>1 DEF Block
    <3> QED BY <1>6, <3>1 DEF EndsAt
  <2>2. end <= text.len + 1
    BY <1>1, <1>7 DEF Allocated
  <2>3. end > destOff => destOff + 6 <= off
    <3> SUFFICES ASSUME end > destOff PROVE destOff + 6 <= off
      OBVIOUS
    <3>1. destOff \in Block /\ destOff \in destOff .. text.len
      BY <1>1, <1>2 DEF Block
    <3> QED BY <1>3, <1>11, <2>1, <3>1 DEF Inv, CleanBehind
  <2>4. end <= destOff + 2
    <3> SUFFICES ASSUME end > destOff + 2 PROVE FALSE
      BY <1>1, <1>7
    <3>1. destOff + 2 \in Block /\ destOff + 2 \in destOff .. text.len
      BY <1>1, <1>2 DEF Block
    <3>2. dest[destOff + 2] # 0
      BY <2>1, <3>1
    <3>3. destOff + 2 <= destOff + 1
      BY <1>3, <1>11, <3>1, <3>2 DEF Inv, CleanBehind
    <3> QED BY <1>1, <3>3
  <2>5. end + 2 <= text.len + 1
    <3>1. CASE end > destOff
      BY <1>1, <1>7, <2>3, <2>4, <3>1
    <3>2. CASE ~(end > destOff)
      BY <1>1, <1>2, <1>7, <3>2
    <3> QED BY <3>1, <3>2
  <2> QED BY <2>3, <2>4, <2>5
<1>12. ASSUME clean PROVE CleanBehind'
  <2> SUFFICES ASSUME NEW i \in destOff' .. text.len, dest'[i] # 0
               PROVE  i <= destOff' + 1 /\ destOff' + 6 <= off'
    BY <1>3 DEF CleanBehind
  <2>1. i \in Block /\ i \in destOff .. text.len /\ i \in Int /\ i > destOff
    BY <1>1, <1>3 DEF Block
  <2>2. /\ end + 2 <= text.len + 1 /\ end <= destOff + 2
        /\ end > destOff => destOff + 6 <= off
    BY <1>11, <1>12
  <2>3. dest'[i] = IF i \in end .. end + 1 THEN bytes[i - end + 1] ELSE dest[i]
    BY <1>10, <2>1, <2>2
  <2>4. CASE i = end
    BY <1>1, <1>3, <1>7, <2>1, <2>2, <2>4
  <2>5. CASE i = end + 1
    <3>1. i \in end .. end + 1 /\ i - end + 1 = 2
      BY <1>7, <2>5
    <3> QED BY <1>8, <2>3, <3>1
  <2>6. CASE i # end /\ i # end + 1
    <3>1. dest[i] # 0
      <4>1. i \notin end .. end + 1
        BY <1>7, <2>1, <2>6
      <4> QED BY <2>3, <4>1
    <3>2. i <= destOff + 1 /\ destOff + 6 <= off
      BY <1>3, <1>12, <2>1, <3>1 DEF Inv, CleanBehind
    <3> QED BY <1>1, <1>3, <2>1, <3>2
  <2> QED BY <2>4, <2>5, <2>6
<1>13. /\ status' \in {"running", "overrun"}
       /\ status' = "running" => dest' \in [Block -> Int]
       /\ status' = "overrun" => ~clean
  <2>1. CASE end + 2 <= text.len + 1
    BY <1>10, <2>1
  <2>2. CASE ~(end + 2 <= text.len + 1)
    <3>1. ~(end + Len(bytes) <= Allocated(text.len))
      BY <1>8, <2>2 DEF Allocated
    <3>2. status' = "overrun"
      BY <1>6, <3>1 DEF Write
    <3> QED BY <1>11, <2>2, <3>2
  <2> QED BY <2>1, <2>2
<1> QED BY <1>3, <1>4, <1>5, <1>12, <1>13 DEF Inv, Block, Escapes

LEMMA MallocKeeps ==
    ASSUME Inv, Malloc
    PROVE  Inv'
<1>1. /\ UNCHANGED <<text, clean, off, destOff>> /\ off = 0
      /\ text.len \in Nat /\ text \in Texts /\ destOff = 0
  BY TextsAssumption DEF Inv, Malloc, Positions
<1>2. status' \in {"running", "failed"}
  BY DEF Malloc
<1>3. ASSUME status' = "running"
      PROVE  dest' \in [Block -> Int] /\ (clean => \A i \in Block : dest'[i] = 0)
  <2>1. dest' \in Unset(text.len + 1)
    BY <1>3 DEF Malloc, Allocated
  <2> DEFINE size == text.len + 1
  <2>2. 0 .. size - 1 = Block
    BY <1>1 DEF Block
  <2> HIDE DEF size
  <2>3. PICK z \in 0 .. size :
           dest' = [i \in 0 .. size - 1 |-> IF clean \/ i = z THEN 0 ELSE Junk]
    BY <2>1, Zenon DEF Unset, size
  <2>4. Junk \in Int
    BY JunkAssumption, BytesAndCodes
  <2>5. /\ DOMAIN dest' = Block
        /\ dest' = [i \in DOMAIN dest' |-> dest'[i]]
        /\ \A i \in Block : dest'[i] = IF clean \/ i = z THEN 0 ELSE Junk
    BY <2>2, <2>3, Zenon
  <2>6. \A i \in Block : dest'[i] \in Int
    <3> SUFFICES ASSUME NEW i \in Block PROVE dest'[i] \in Int
      OBVIOUS
    <3>1. dest'[i] = 0 \/ dest'[i] = Junk
      BY <2>5, Zenon
    <3> QED BY <2>4, <3>1
  <2>7. dest' \in [Block -> Int]
    BY <2>5, <2>6
  <2>8. clean => \A i \in Block : dest'[i] = 0
    BY <2>5, Zenon
  <2> QED BY <2>7, <2>8
<1>4. ASSUME status' = "running", clean PROVE CleanBehind'
  <2>1. \A i \in 0 .. text.len : dest'[i] = 0
    BY <1>3, <1>4 DEF Block
  <2> QED BY <1>1, <2>1 DEF CleanBehind
<1> QED BY <1>1, <1>2, <1>3, <1>4 DEF Inv, Block, Positions

LEMMA TerminateKeeps ==
    ASSUME Inv, Terminate
    PROVE  Inv'
<1>1. text.len \in Nat /\ text.len < Allocated(text.len)
  BY TextsAssumption DEF Inv, Allocated
<1>2. status' = "done" /\ UNCHANGED <<text, clean, off, destOff>>
  BY <1>1 DEF Terminate
<1> QED BY <1>2 DEF Inv, Positions

LEMMA InvInitially == Init => Inv
<1> SUFFICES ASSUME Init PROVE Inv
  OBVIOUS
<1>1. /\ text \in Texts /\ text.len \in Nat /\ 0 \in text.starts \cup {text.len}
      /\ off = 0 /\ destOff = 0
  BY TextsAssumption DEF Init
<1>2. Positions
  BY <1>1 DEF Positions
<1> QED BY <1>1, <1>2 DEF Init, Inv

LEMMA InvKept == Inv /\ [Next]_vars => Inv'
<1> SUFFICES ASSUME Inv, [Next]_vars PROVE Inv'
  OBVIOUS
<1>1. CASE Malloc
  BY <1>1, MallocKeeps
<1>2. CASE CopySymbol
  BY <1>2, SymbolKeeps
<1>3. CASE Escape
  BY <1>3, EscapeKeeps
<1>4. CASE Code
  BY <1>4, CodeKeeps
<1>5. CASE Terminate
  BY <1>5, TerminateKeeps
<1>6. CASE Unknown
  BY <1>6, UnknownKeeps
<1>7. CASE UNCHANGED vars
  BY <1>7 DEF vars, Inv, Block, CleanBehind, Positions
<1> QED BY <1>1, <1>2, <1>3, <1>4, <1>5, <1>6, <1>7 DEF Next

LEMMA InvInBlock == Inv => StaysInBlock
BY DEF Inv, Positions, StaysInBlock

(* interpretate_esc_seq writes nothing behind its block of len + 1 bytes, for *)
(* every text json.rl lets pass and whatever memory held, but where strcat    *)
(* finds no terminator in memory that is not clean.                           *)
THEOREM EscapesStayInBlock == Spec => []StaysInBlock
<1> QED BY InvInitially, InvKept, InvInBlock, PTL DEF Spec
-----------------------------------------------------------------------------
(* What the texts stand for.                                                  *)

(* Induction from the end of a text to its start.                             *)
LEMMA Downward ==
    ASSUME NEW len \in Nat, NEW S,
           \A o \in 0 .. len : (\A l \in o + 1 .. len : l \in S) => o \in S
    PROVE  \A o \in 0 .. len : o \in S
<1> SUFFICES ASSUME NEW bad \in 0 .. len, bad \notin S PROVE FALSE
  OBVIOUS
<1> DEFINE R == {ss \in Nat \X Nat : ss[1] < ss[2]}
           M == {k \in 0 .. len : len - k \notin S}
<1>1. IsWellFoundedOn(R, Nat)
  BY NatLessThanWellFounded DEF OpToRel
<1>2. M \subseteq Nat /\ len - bad \in M
  OBVIOUS
<1>3. \A p, q \in Nat : q < p => <<q, p>> \in R
  OBVIOUS
<1> HIDE DEF R
<1>4. PICK k \in M : \A q \in M : ~(<<q, k>> \in R)
  <2> HIDE DEF M
  <2> QED BY <1>1, <1>2, WFMin
<1>5. ASSUME NEW l \in len - k + 1 .. len PROVE l \in S
  <2>1. len - l \in Nat /\ len - l < k /\ len - l \in 0 .. len /\ len - (len - l) = l
    OBVIOUS
  <2>2. len - l \notin M
    <3>1. <<len - l, k>> \in R
      BY <1>3, <2>1
    <3> HIDE DEF M
    <3> QED BY <1>4, <3>1
  <2> QED BY <2>1, <2>2
<1>6. len - k \in 0 .. len /\ len - k \notin S
  OBVIOUS
<1> QED BY <1>5, <1>6

(* The bytes of a unit, and of the symbol a code stands for.                  *)
LEMMA Utf8Length ==
    ASSUME NEW c \in Codes
    PROVE  /\ Utf8(c) \in Seq(Int) /\ Len(Utf8(c)) \in {1, 2, 3}
           /\ c # 0 => \A i \in 1 .. Len(Utf8(c)) : Utf8(c)[i] # 0
<1>1. c \in Nat
  BY BytesAndCodes
<1>2. CASE c < 128
  BY <1>1, <1>2 DEF Utf8
<1>3. CASE c >= 128 /\ c < 2048
  <2> DEFINE a == 192 + c \div 64
             b == 128 + (c % 64)
  <2>1. Utf8(c) = <<a, b>>
    BY <1>1, <1>3 DEF Utf8
  <2>2. a \in Int /\ b \in Int /\ a # 0 /\ b # 0
    BY <1>1
  <2> HIDE DEF a, b
  <2> QED BY <2>1, <2>2
<1>4. CASE c >= 2048
  <2> DEFINE a == 224 + c \div 4096
             b == 128 + ((c \div 64) % 64)
             d == 128 + (c % 64)
  <2>1. Utf8(c) = <<a, b, d>>
    BY <1>1, <1>4 DEF Utf8
  <2>2. a \in Int /\ b \in Int /\ d \in Int /\ a # 0 /\ b # 0 /\ d # 0
    <3>1. c \div 4096 \in Nat /\ c \div 64 \in Nat /\ c % 64 \in Nat
      BY <1>1
    <3>2. (c \div 64) % 64 \in Nat
      BY <3>1
    <3> QED BY <3>1, <3>2
  <2> HIDE DEF a, b, d
  <2> QED BY <2>1, <2>2
<1> QED BY <1>1, <1>2, <1>3, <1>4

LEMMA UnitBytes ==
    ASSUME NEW u, IsUnit(u), u.kind # "unknown"
    PROVE  /\ BytesOf(u) \in Seq(Int) /\ Len(BytesOf(u)) \in 1 .. u.size
           /\ (u.kind = "code" => u.code # 0)
              => \A i \in 1 .. Len(BytesOf(u)) : BytesOf(u)[i] # 0
<1>1. CASE u.kind = "symbol"
  <2>1. /\ u.size \in 1 .. 4 /\ Len(u.bytes) = u.size /\ u.bytes \in Seq(Bytes)
    BY <1>1 DEF IsUnit
  <2>2. \A i \in 1 .. Len(u.bytes) : u.bytes[i] \in Bytes
    BY <2>1, ElementOfSeq
  <2>3. BytesOf(u) = u.bytes
    BY <1>1 DEF BytesOf
  <2>4. \A b \in Bytes : b # 0 /\ b \in Int
    BY DEF Bytes
  <2>5. u.bytes \in Seq(Int)
    BY <2>1, <2>4
  <2> QED BY <1>1, <2>1, <2>2, <2>3, <2>4, <2>5
<1>2. CASE u.kind = "escape"
  <2>1. u.size = 2 /\ u.byte \in Bytes
    BY <1>2 DEF IsUnit
  <2>2. BytesOf(u) = <<u.byte>>
    BY <1>2 DEF BytesOf
  <2>3. u.byte \in Int /\ u.byte # 0
    BY <2>1 DEF Bytes
  <2> QED BY <2>1, <2>2, <2>3
<1>3. CASE u.kind = "code"
  <2>1. u.size = 6 /\ u.code \in Codes
    BY <1>3 DEF IsUnit
  <2>2. BytesOf(u) = Utf8(u.code)
    BY <1>3 DEF BytesOf
  <2> QED BY <1>3, <2>1, <2>2, Utf8Length
<1> QED BY <1>1, <1>2, <1>3 DEF IsUnit

(* The units of a text, each followed by the next or the end.                 *)
LEMMA TextUnits ==
    ASSUME NEW t \in Texts
    PROVE  /\ t.len \in Nat /\ t.starts \subseteq 0 .. t.len - 1
           /\ 0 \in t.starts \cup {t.len}
           /\ \A o \in t.starts :
                 /\ o \in Nat /\ o < t.len
                 /\ IsUnit(t.unit[o]) /\ t.unit[o].kind # "unknown"
                 /\ t.unit[o].size \in 1 .. 6
                 /\ o + t.unit[o].size \in 0 .. t.len
                 /\ o + t.unit[o].size \in t.starts \cup {t.len}
<1>1. /\ t.len \in Nat /\ t.starts \subseteq 0 .. t.len - 1
      /\ 0 \in t.starts \cup {t.len}
      /\ \A o \in 0 .. t.len - 1 : IsUnit(t.unit[o])
      /\ \A o \in t.starts :
            t.unit[o].kind # "unknown" /\ o + t.unit[o].size \in t.starts \cup {t.len}
  BY TextsAssumption
<1> SUFFICES ASSUME NEW o \in t.starts
             PROVE  /\ o \in Nat /\ o < t.len
                    /\ t.unit[o].size \in 1 .. 6
                    /\ o + t.unit[o].size \in 0 .. t.len
  BY <1>1
<1>2. o \in 0 .. t.len - 1 /\ IsUnit(t.unit[o])
  BY <1>1
<1>3. t.unit[o].size \in 1 .. 6
  BY <1>2 DEF IsUnit
<1>4. o + t.unit[o].size \in 0 .. t.len - 1 \/ o + t.unit[o].size = t.len
  BY <1>1
<1> QED BY <1>1, <1>2, <1>3, <1>4

(* The recursive definition of DecodedFrom has a solution: from the end of    *)
(* the text on, one unit at a time.                                           *)
DecodedAt(t, f, o) ==
    IF o \in t.starts THEN BytesOf(t.unit[o]) \o f[o + t.unit[o].size] ELSE << >>

LEMMA DecodedExists ==
    ASSUME NEW t \in Texts
    PROVE  \E f : f = [o \in 0 .. t.len |-> DecodedAt(t, f, o)]
<1> DEFINE D == 0 .. t.len
           Solves(f, o) == f = [l \in D |-> f[l]] /\ \A l \in o .. t.len : f[l] = DecodedAt(t, f, l)
           S == {o \in D : \E f : Solves(f, o)}
<1>1. t.len \in Nat
  BY TextUnits
<1>2. ASSUME NEW o \in D, \A l \in o + 1 .. t.len : l \in S
      PROVE  o \in S
  <2>1. PICK f : \A l \in o + 1 .. t.len : f[l] = DecodedAt(t, f, l)
    <3>1. CASE o = t.len
      <4>1. \A l \in o + 1 .. t.len : FALSE
        BY <1>1, <3>1
      <4> QED BY <4>1
    <3>2. CASE o # t.len
      <4>1. o + 1 \in o + 1 .. t.len
        BY <1>1, <3>2
      <4>2. \E f : Solves(f, o + 1)
        BY <1>2, <4>1
      <4> QED BY <4>2
    <3> QED BY <3>1, <3>2
  <2> DEFINE g == [l \in D |-> IF l = o THEN DecodedAt(t, f, o) ELSE f[l]]
  <2>2. \A l \in o .. t.len : DecodedAt(t, g, l) = DecodedAt(t, f, l)
    <3> SUFFICES ASSUME NEW l \in o .. t.len, l \in t.starts
                 PROVE  g[l + t.unit[l].size] = f[l + t.unit[l].size]
      <4> HIDE DEF g
      <4> QED BY DEF DecodedAt
    <3> DEFINE m == l + t.unit[l].size
    <3>1. m \in D /\ m # o
      BY <1>1, TextUnits
    <3> HIDE DEF m
    <3>2. g[m] = f[m]
      BY <3>1
    <3> QED BY <3>2 DEF m
  <2>3. ASSUME NEW l \in o .. t.len PROVE g[l] = DecodedAt(t, g, l)
    <3>1. l \in D /\ (l = o \/ l \in o + 1 .. t.len)
      BY <1>1
    <3>2. g[l] = DecodedAt(t, f, l)
      BY <2>1, <3>1
    <3> QED BY <2>2, <3>2
  <2>4. Solves(g, o)
    BY <2>3
  <2> QED BY <2>4
<1>3. 0 \in S
  <2> HIDE DEF S
  <2>1. \A o \in 0 .. t.len : (\A l \in o + 1 .. t.len : l \in S) => o \in S
    BY <1>2
  <2>2. \A o \in 0 .. t.len : o \in S
    BY <1>1, <2>1, Downward
  <2> QED BY <1>1, <2>2
<1>4. PICK f : f = [o \in D |-> f[o]] /\ \A o \in D : f[o] = DecodedAt(t, f, o)
  BY <1>3
<1>5. f = [o \in D |-> DecodedAt(t, f, o)]
  <2>1. [o \in D |-> f[o]] = [o \in D |-> DecodedAt(t, f, o)]
    BY <1>4
  <2> QED BY <1>4, <2>1
<1> QED BY <1>5

(* What is left of a text from one of its units on, or from its end.          *)
LEMMA DecodedIs ==
    ASSUME NEW t \in Texts
    PROVE  /\ \A o \in t.starts :
                 DecodedFrom(t)[o] = BytesOf(t.unit[o]) \o DecodedFrom(t)[o + t.unit[o].size]
           /\ DecodedFrom(t)[t.len] = << >>
           /\ \A o \in 0 .. t.len : DecodedFrom(t)[o] \in Seq(Int)
<1> DEFINE P(g) == g = [o \in 0 .. t.len |-> DecodedAt(t, g, o)]
           F == DecodedFrom(t)
           S == {o \in 0 .. t.len : F[o] \in Seq(Int)}
<1>1. F = CHOOSE g : P(g)
  BY DEF DecodedFrom, DecodedAt
<1>2. P(F)
  <2> HIDE DEF P, F
  <2>1. \E g : P(g)
    BY DecodedExists DEF P
  <2> QED BY <1>1, <2>1, Zenon
<1>3. \A o \in 0 .. t.len : F[o] = DecodedAt(t, F, o)
  <2> HIDE DEF F
  <2> QED BY <1>2
<1> HIDE DEF F, P
<1>4. t.len \in Nat /\ t.starts \subseteq 0 .. t.len - 1
  BY TextUnits
<1>5. \A o \in t.starts : F[o] = BytesOf(t.unit[o]) \o F[o + t.unit[o].size]
  <2> SUFFICES ASSUME NEW o \in t.starts
               PROVE  F[o] = BytesOf(t.unit[o]) \o F[o + t.unit[o].size]
    OBVIOUS
  <2>1. o \in 0 .. t.len
    BY <1>4
  <2> QED BY <1>3, <2>1 DEF DecodedAt
<1>6. F[t.len] = << >>
  <2>1. t.len \in 0 .. t.len /\ t.len \notin t.starts
    BY <1>4
  <2> QED BY <1>3, <2>1 DEF DecodedAt
<1>7. ASSUME NEW o \in 0 .. t.len, \A l \in o + 1 .. t.len : l \in S
      PROVE  o \in S
  <2>1. CASE o \notin t.starts
    <3>1. F[o] = << >>
      BY <1>3, <2>1 DEF DecodedAt
    <3>2. << >> \in Seq(Int)
      OBVIOUS
    <3>3. F[o] \in Seq(Int)
      BY <3>1, <3>2, Zenon
    <3> QED BY <3>3
  <2>2. CASE o \in t.starts
    <3>1. BytesOf(t.unit[o]) \in Seq(Int)
      BY <2>2, TextUnits, UnitBytes
    <3>2. o + t.unit[o].size \in o + 1 .. t.len
      BY <1>4, <2>2, TextUnits
    <3>3. F[o + t.unit[o].size] \in Seq(Int)
      BY <1>7, <3>2
    <3>4. F[o] \in Seq(Int)
      BY <1>5, <2>2, <3>1, <3>3, ConcatProperties
    <3> QED BY <3>4
  <2> QED BY <2>1, <2>2
<1>8. \A o \in 0 .. t.len : o \in S
  <2> HIDE DEF S
  <2>1. \A o \in 0 .. t.len : (\A l \in o + 1 .. t.len : l \in S) => o \in S
    BY <1>7
  <2> QED BY <1>4, <2>1, Downward
<1> QED BY <1>5, <1>6, <1>8 DEF F
-----------------------------------------------------------------------------
(* Texts are decoded exactly.                                                 *)

(* The texts, and the memory, of which DecodedExactly speaks.                 *)
Faithful ==
    WithoutEscapes(text) \/ (clean /\ Representable(text) /\ WithoutTwoByteCodes(text))

(* The bytes before dest_off.                                                 *)
Written(block, n) == [i \in 1 .. n |-> block[i - 1]]

(* What was written and what is left to read make the decoded text.  Without  *)
(* escapes dest_off keeps up with off, so the terminator goes to its place;   *)
(* with escapes the zeros of clean memory are the terminator, and the strcat  *)
(* of the next escape appends at dest_off.                                    *)
DecodedSoFar ==
    Faithful =>
        /\ off \in text.starts \cup {text.len}
        /\ Written(dest, destOff) \o DecodedFrom(text)[off] = Decoded(text)
        /\ \A i \in 0 .. destOff - 1 : dest[i] # 0
        /\ WithoutEscapes(text) => destOff = off
        /\ clean => \A i \in destOff .. text.len : dest[i] = 0

DecodedInv ==
    /\ status = "running" => DecodedSoFar
    /\ DecodedExactly

LEMMA CodeIsUtf8 ==
    ASSUME NEW c \in Codes, c \notin 128 .. 2047
    PROVE  CodeBytes(c) = Utf8(c) /\ Len(CodeBytes(c)) \in {1, 3}
<1>1. c \in Nat /\ c < 65536
  BY DEF Codes
<1>2. CASE c < 128
  <2>1. CodeBytes(c) = <<c>> /\ Utf8(c) = <<c>>
    BY <1>1, <1>2 DEF CodeBytes, Utf8
  <2> QED BY <2>1
<1>3. CASE c > 2047
  <2> DEFINE d == c % 64
             q == c \div 64
             b == q % 64
             a == q \div 64
  <2>1. c = 64 * q + d /\ d \in 0 .. 63 /\ q \in Nat
    BY <1>1
  <2>2. q = 64 * a + b /\ b \in 0 .. 63 /\ a \in Nat
    <3> HIDE DEF q
    <3> QED BY <2>1
  <2> HIDE DEF a, b, q
  <2>3. d \in Nat /\ (128 + d) % 256 = 128 + d
    BY <2>1
  <2> HIDE DEF d
  <2>4. a < 16
    BY <1>1, <2>1, <2>2
  <2>5. c \div 4096 = a
    BY <2>1, <2>2
  <2>6. (c * 16) % 65536 = 1024 * b + 16 * d
    BY <2>1, <2>2, <2>4
  <2>7. (1024 * b + 16 * d) \div 1024 = b
    BY <2>1, <2>2
  <2>8. (224 + a) % 256 = 224 + a /\ (128 + b) % 256 = 128 + b
    BY <2>2, <2>4
  <2>9. CodeBytes(c) = <<224 + a, 128 + b, 128 + d>>
    <3> DEFINE p1 == (224 + c \div 4096) % 256
               p2 == (128 + ((c * 16) % 65536) \div 1024) % 256
               p3 == (128 + (c % 64)) % 256
    <3>1. CodeBytes(c) = <<p1, p2, p3>>
      BY <1>1, <1>3 DEF CodeBytes, Utf1
    <3>2. p1 = 224 + a
      BY <2>5, <2>8
    <3>3. p2 = 128 + b
      BY <2>6, <2>7, <2>8
    <3>4. p3 = 128 + d
      BY <2>3 DEF d
    <3> HIDE DEF p1, p2, p3
    <3> QED BY <3>1, <3>2, <3>3, <3>4
  <2>10. Utf8(c) = <<224 + a, 128 + b, 128 + d>>
    BY <1>1, <1>3, <2>5 DEF Utf8, d, b, q
  <2> QED BY <2>9, <2>10
<1> QED BY <1>1, <1>2, <1>3

(* The bytes of a unit come behind those that were written.                   *)
LEMMA WrittenGrows ==
    ASSUME NEW block, NEW next, NEW n \in Nat, NEW bytes \in Seq(Int),
           \A i \in 0 .. n - 1 : block[i] \in Int /\ next[i] = block[i],
           \A i \in n .. n + Len(bytes) - 1 : next[i] = bytes[i - n + 1]
    PROVE  /\ Written(block, n) \in Seq(Int)
           /\ Written(next, n + Len(bytes)) = Written(block, n) \o bytes
<1> DEFINE s == Written(block, n)
           m == n + Len(bytes)
<1>1. Len(bytes) \in Nat
  OBVIOUS
<1>2. s \in Seq(Int) /\ Len(s) = n /\ \A i \in 1 .. n : s[i] = block[i - 1]
  <2>1. \A i \in 1 .. n : block[i - 1] \in Int
    <3> SUFFICES ASSUME NEW i \in 1 .. n PROVE block[i - 1] \in Int
      OBVIOUS
    <3>1. i - 1 \in 0 .. n - 1
      OBVIOUS
    <3> QED BY <3>1
  <2> QED BY <2>1 DEF Written
<1> HIDE DEF s
<1>3. /\ s \o bytes \in Seq(Int) /\ Len(s \o bytes) = m
      /\ \A i \in 1 .. m : (s \o bytes)[i] = IF i <= n THEN s[i] ELSE bytes[i - n]
  BY <1>2, ConcatProperties, ZenonT(40)
<1>4. ASSUME NEW i \in 1 .. m PROVE next[i - 1] = (s \o bytes)[i]
  <2>1. CASE i <= n
    <3>1. i \in 1 .. n /\ i - 1 \in 0 .. n - 1
      BY <2>1
    <3>2. next[i - 1] = block[i - 1] /\ s[i] = block[i - 1] /\ (s \o bytes)[i] = s[i]
      BY <1>2, <1>3, <2>1, <3>1
    <3> QED BY <3>2
  <2>2. CASE i > n
    <3>1. i - 1 \in n .. n + Len(bytes) - 1 /\ (i - 1) - n + 1 = i - n
      BY <1>1, <2>2
    <3>2. next[i - 1] = bytes[i - n]
      BY <3>1
    <3>3. ~(i <= n)
      BY <2>2
    <3>4. (s \o bytes)[i] = bytes[i - n]
      BY <1>3, <3>3
    <3> QED BY <3>2, <3>4
  <2>3. i <= n \/ i > n
    BY <1>1
  <2> QED BY <2>1, <2>2, <2>3, Zenon
<1>5. s \o bytes = [i \in 1 .. m |-> (s \o bytes)[i]]
  <2> DEFINE w == s \o bytes
  <2>1. w \in Seq(Int) /\ Len(w) = m
    BY <1>3
  <2> HIDE DEF w, m
  <2>2. w = [i \in 1 .. m |-> w[i]]
    BY <2>1
  <2> QED BY <2>2 DEF w
<1>6. Written(next, m) = [i \in 1 .. m |-> next[i - 1]]
  BY DEF Written
<1> HIDE DEF m
<1>7. Written(next, m) = s \o bytes
  BY <1>4, <1>5, <1>6
<1> QED BY <1>2, <1>7 DEF m, s

(* A unit was read and exactly its bytes were written.                        *)
LEMMA DecodedGrows ==
    ASSUME Inv, status = "running", off < text.len, Faithful, DecodedSoFar,
           UNCHANGED <<text, clean>>, Advance,
           NEW bytes, bytes = BytesOf(text.unit[off]),
           destOff' = destOff + Len(bytes),
           WithoutEscapes(text) => Len(bytes) = text.unit[off].size,
           \A i \in 1 .. Len(bytes) : bytes[i] # 0,
           \A i \in Block : dest'[i] = IF i \in destOff .. destOff + Len(bytes) - 1
                                       THEN bytes[i - destOff + 1] ELSE dest[i]
    PROVE  DecodedSoFar'
<1> DEFINE u == text.unit[off]
           F == DecodedFrom(text)
           n == Len(bytes)
<1>1. /\ text \in Texts /\ dest \in [Block -> Int] /\ destOff \in Nat /\ destOff <= off
      /\ off \in Nat /\ text.len \in Nat
  BY TextUnits DEF Inv, Positions
<1>2. /\ off \in text.starts
      /\ WithoutEscapes(text) => destOff = off
      /\ Written(dest, destOff) \o F[off] = Decoded(text)
      /\ \A i \in 0 .. destOff - 1 : dest[i] # 0
      /\ clean => \A i \in destOff .. text.len : dest[i] = 0
  BY <1>1 DEF DecodedSoFar
<1>3. /\ IsUnit(u) /\ u.kind # "unknown" /\ u.size \in 1 .. 6 /\ text.len \in Nat
      /\ off \in Nat /\ off + u.size \in 0 .. text.len
      /\ off + u.size \in text.starts \cup {text.len}
  BY <1>1, <1>2, TextUnits
<1>4. bytes \in Seq(Int) /\ n \in 1 .. u.size
  BY <1>3, UnitBytes
<1>5. off' = off + u.size /\ text' = text /\ clean' = clean
  BY DEF Advance
<1>6. /\ F[off] = bytes \o F[off + u.size]
      /\ F[off + u.size] \in Seq(Int)
  BY <1>1, <1>2, <1>3, DecodedIs
<1> HIDE DEF u, F, n
<1>7. destOff + n \in Nat /\ destOff + n <= text.len
  <2>1. n \in Nat /\ n <= u.size /\ u.size \in Nat
    BY <1>3, <1>4
  <2>2. off + u.size <= text.len
    BY <1>3
  <2> QED BY <1>1, <1>3, <2>1, <2>2
<1>8. /\ \A i \in 0 .. destOff - 1 : dest[i] \in Int /\ dest'[i] = dest[i]
      /\ \A i \in destOff .. destOff + n - 1 : dest'[i] = bytes[i - destOff + 1]
  <2>1. \A i \in 0 .. destOff - 1 : i \in Block /\ i \notin destOff .. destOff + n - 1
    BY <1>1, <1>3, <1>4, <1>7 DEF Block
  <2>2. \A i \in destOff .. destOff + n - 1 : i \in Block
    BY <1>1, <1>3, <1>4, <1>7 DEF Block
  <2> QED BY <1>1, <2>1, <2>2 DEF n
<1>9. /\ Written(dest, destOff) \in Seq(Int)
      /\ Written(dest', destOff + n) = Written(dest, destOff) \o bytes
  <2>1. \A i \in destOff .. destOff + Len(bytes) - 1 : dest'[i] = bytes[i - destOff + 1]
    BY <1>8 DEF n
  <2>3. destOff \in Nat /\ bytes \in Seq(Int)
    BY <1>1, <1>4
  <2>4. \A i \in 0 .. destOff - 1 : dest[i] \in Int /\ dest'[i] = dest[i]
    BY <1>8
  <2>2. /\ Written(dest, destOff) \in Seq(Int)
        /\ Written(dest', destOff + Len(bytes)) = Written(dest, destOff) \o bytes
    BY <2>1, <2>3, <2>4, WrittenGrows, ZenonT(40)
  <2> QED BY <2>2 DEF n
<1>10. Written(dest', destOff + n) \o F[off + u.size] = Decoded(text)
  <2> DEFINE w == Written(dest, destOff)
             rest == F[off + u.size]
  <2>1. w \in Seq(Int) /\ rest \in Seq(Int)
    BY <1>6, <1>9
  <2>2. w \o (bytes \o rest) = Decoded(text)
    BY <1>2, <1>6
  <2> HIDE DEF w, rest
  <2>3. (w \o bytes) \o rest = w \o (bytes \o rest)
    BY <1>4, <2>1, ConcatAssociative, SMTT(30)
  <2> QED BY <1>9, <2>2, <2>3 DEF w, rest
<1>11. ASSUME NEW i \in 0 .. destOff + n - 1 PROVE dest'[i] # 0
  <2>1. CASE i \in 0 .. destOff - 1
    BY <1>2, <1>8, <2>1
  <2>2. CASE i \notin 0 .. destOff - 1
    <3>1. i \in destOff .. destOff + n - 1 /\ i - destOff + 1 \in 1 .. n
      BY <1>1, <1>4, <2>2
    <3> QED BY <1>8, <3>1 DEF n
  <2> QED BY <2>1, <2>2
<1>12. ASSUME clean, NEW i \in destOff + n .. text.len PROVE dest'[i] = 0
  <2>1. i \in Block /\ i \in destOff .. text.len /\ i \notin destOff .. destOff + n - 1
    BY <1>1, <1>3, <1>4 DEF Block
  <2> QED BY <1>2, <1>12, <2>1 DEF n
<1>13. destOff' = destOff + n
  BY DEF n
<1>14. off' \in text'.starts \cup {text'.len}
  BY <1>3, <1>5
<1>15. Written(dest', destOff') \o DecodedFrom(text')[off'] = Decoded(text')
  <2>1. F = DecodedFrom(text)
    BY DEF F
  <2> QED BY <1>5, <1>10, <1>13, <2>1, Zenon
<1>16. \A i \in 0 .. destOff' - 1 : dest'[i] # 0
  <2> SUFFICES ASSUME NEW i \in 0 .. destOff' - 1 PROVE dest'[i] # 0
    OBVIOUS
  <2>1. i \in 0 .. destOff + n - 1
    BY <1>1, <1>4, <1>13
  <2> QED BY <1>11, <2>1
<1>17. WithoutEscapes(text') => destOff' = off'
  <2>1. WithoutEscapes(text) => destOff + n = off + u.size
    BY <1>2 DEF n, u
  <2> QED BY <1>5, <1>13, <2>1, Zenon
<1>18. clean' => \A i \in destOff' .. text'.len : dest'[i] = 0
  <2> SUFFICES ASSUME clean, NEW i \in destOff' .. text.len PROVE dest'[i] = 0
    BY <1>5
  <2>1. i \in destOff + n .. text.len
    BY <1>13
  <2> QED BY <1>12, <2>1
<1> QED BY <1>14, <1>15, <1>16, <1>17, <1>18, Zenon DEF DecodedSoFar

LEMMA DecodedSymbol ==
    ASSUME Inv, DecodedSoFar, Faithful, CopySymbol
    PROVE  status' = "running" /\ DecodedSoFar'
<1> DEFINE u == text.unit[off]
           n == Len(BytesOf(u))
<1>1. /\ IsUnit(u) /\ u.kind = "symbol" /\ text.len \in Nat /\ destOff \in Nat
      /\ destOff + u.size <= text.len
  BY UnitRead DEF CopySymbol
<1>2. Len(u.bytes) = u.size /\ \A i \in 1 .. Len(u.bytes) : u.bytes[i] \in Int
  BY <1>1, SymbolUnit
<1>3. u.size \in 1 .. 4
  BY <1>1, SymbolUnit
<1>4. /\ UNCHANGED <<text, clean>> /\ status = "running" /\ off < text.len /\ Advance
      /\ Write(destOff, u.bytes) /\ destOff' = destOff + u.size
  BY DEF CopySymbol, Reading
<1>5. BytesOf(u) = u.bytes
  BY <1>1 DEF BytesOf
<1>6. \A i \in 1 .. Len(BytesOf(u)) : BytesOf(u)[i] # 0
  BY <1>1, UnitBytes
<1> HIDE DEF u
<1>7. destOff + Len(u.bytes) <= text.len + 1 /\ Len(u.bytes) \in Nat
  BY <1>1, <1>2, <1>3
<1>8. /\ status' = "running"
      /\ \A i \in Block : dest'[i] = IF i \in destOff .. destOff + Len(u.bytes) - 1
                                     THEN u.bytes[i - destOff + 1] ELSE dest[i]
  BY <1>1, <1>2, <1>4, <1>7, WriteFits
<1>9. DecodedSoFar'
  <2>1. u.bytes = BytesOf(text.unit[off]) /\ Len(u.bytes) = text.unit[off].size
    BY <1>2, <1>5 DEF u
  <2>2. destOff' = destOff + Len(u.bytes) /\ \A i \in 1 .. Len(u.bytes) : u.bytes[i] # 0
    BY <1>2, <1>4, <1>5, <1>6
  <2> QED BY <1>4, <1>8, <2>1, <2>2, DecodedGrows
<1> QED BY <1>8, <1>9

LEMMA DecodedCode ==
    ASSUME Inv, DecodedSoFar, Faithful, Code
    PROVE  status' = "running" /\ DecodedSoFar'
<1> DEFINE u == text.unit[off]
<1>1. /\ IsUnit(u) /\ u.kind = "code" /\ text.len \in Nat /\ destOff \in Nat
      /\ destOff + u.size <= text.len /\ off \in 0 .. text.len - 1
  BY UnitRead DEF Code
<1>2. u.size = 6 /\ u.code \in Codes
  BY <1>1 DEF IsUnit
<1>3. UNCHANGED <<text, clean>> /\ status = "running" /\ off < text.len
  BY DEF Code, Reading
<1>4. off \in text.starts /\ u \in UnitsOf(text)
  <2>1. off \in text.starts
    BY <1>1 DEF DecodedSoFar
  <2> QED BY <2>1 DEF UnitsOf
<1> HIDE DEF u
<1>5. ~WithoutEscapes(text)
  BY <1>1, <1>4 DEF WithoutEscapes
<1>6. clean /\ Representable(text) /\ WithoutTwoByteCodes(text)
  BY <1>5 DEF Faithful
<1>7. u.code # 0
  BY <1>1, <1>4, <1>6 DEF Representable
<1>8. u.code \notin 128 .. 2047
  BY <1>1, <1>4, <1>6 DEF WithoutTwoByteCodes
<1> DEFINE bytes == BytesOf(u)
<1>9. bytes = CodeBytes(u.code) /\ bytes = Utf8(u.code)
  <2>1. bytes = Utf8(u.code)
    BY <1>1 DEF BytesOf
  <2>2. CodeBytes(u.code) = Utf8(u.code)
    BY <1>2, <1>8, CodeIsUtf8
  <2> QED BY <2>1, <2>2
<1> HIDE DEF bytes
<1>10. bytes \in Seq(Int) /\ \A i \in 1 .. Len(bytes) : bytes[i] # 0
  BY <1>2, <1>7, <1>9, Utf8Length
<1>11. Len(bytes) \in {1, 3}
  <2>1. Len(CodeBytes(u.code)) \in {1, 3}
    BY <1>2, <1>8, CodeIsUtf8
  <2> QED BY <1>9, <2>1
<1>12. Scanned(u.code) = {u.code}
  BY <1>6 DEF Scanned
<1>13. Write(destOff, bytes) /\ destOff' = destOff + Len(bytes) /\ Advance
  <2>1. LET k == Len(CodeBytes(u.code))
        IN  /\ Write(destOff, CodeBytes(u.code))
            /\ destOff' = destOff + (IF k = 2 THEN 0 ELSE k)
            /\ Advance \/ (k = 2 /\ off' = off + u.size + 1)
    BY <1>12 DEF Code, u
  <2>2. Len(CodeBytes(u.code)) = Len(bytes) /\ Len(bytes) # 2
    BY <1>9, <1>11
  <2> QED BY <1>9, <2>1, <2>2
<1>14. /\ destOff + Len(bytes) <= text.len + 1 /\ Len(bytes) \in Nat
       /\ \A i \in 1 .. Len(bytes) : bytes[i] \in Int
  <2>1. Len(bytes) \in Nat /\ Len(bytes) <= 6
    <3>1. \A n \in {1, 3} : n \in Nat /\ n <= 6
      OBVIOUS
    <3> QED BY <1>11, <3>1, Zenon
  <2>2. \A i \in 1 .. Len(bytes) : bytes[i] \in Int
    BY <1>10, ElementOfSeq
  <2>3. destOff + 6 <= text.len
    BY <1>1, <1>2
  <2> QED BY <1>1, <2>1, <2>2, <2>3
<1>15. /\ status' = "running"
       /\ \A i \in Block : dest'[i] = IF i \in destOff .. destOff + Len(bytes) - 1
                                      THEN bytes[i - destOff + 1] ELSE dest[i]
  BY <1>1, <1>3, <1>13, <1>14, WriteFits
<1>16. DecodedSoFar'
  <2>1. bytes = BytesOf(text.unit[off])
    BY DEF bytes, u
  <2>2. WithoutEscapes(text) => Len(bytes) = text.unit[off].size
    BY <1>5
  <2> QED BY <1>3, <1>10, <1>13, <1>15, <2>1, <2>2, DecodedGrows
<1> QED BY <1>15, <1>16

(* In clean memory the string of the block ends at dest_off, where strcat     *)
(* appends; the second byte it writes is a zero where there was one.          *)
LEMMA DecodedEscape ==
    ASSUME Inv, DecodedSoFar, Faithful, Escape
    PROVE  status' = "running" /\ DecodedSoFar'
<1> DEFINE u == text.unit[off]
<1>1. /\ IsUnit(u) /\ u.kind = "escape" /\ text.len \in Nat /\ destOff \in Nat
      /\ destOff + u.size <= text.len /\ off \in 0 .. text.len - 1
  BY UnitRead DEF Escape
<1>2. u.size = 2 /\ u.byte \in Int
  BY <1>1, EscapeUnit
<1>3. /\ UNCHANGED <<text, clean>> /\ status = "running" /\ off < text.len
      /\ Advance /\ destOff' = destOff + 1
  BY DEF Escape, Reading
<1>4. /\ off \in text.starts /\ u \in UnitsOf(text)
      /\ \A i \in 0 .. destOff - 1 : dest[i] # 0
  <2>1. off \in text.starts
    BY <1>1 DEF DecodedSoFar
  <2> QED BY <2>1 DEF UnitsOf, DecodedSoFar
<1>5. PICK end \in 0 .. text.len + 1 : EndsAt(dest, end) /\ Write(end, <<u.byte, 0>>)
  BY DEF Escape, Allocated
<1> DEFINE bytes == BytesOf(u)
<1>6. bytes = <<u.byte>>
  BY <1>1 DEF BytesOf
<1>7. \A i \in 1 .. Len(bytes) : bytes[i] # 0
  BY <1>1, UnitBytes
<1> HIDE DEF u, bytes
<1>8. ~WithoutEscapes(text)
  BY <1>1, <1>4 DEF WithoutEscapes
<1>9. clean
  BY <1>8 DEF Faithful
<1>10. \A i \in destOff .. text.len : dest[i] = 0
  BY <1>9 DEF DecodedSoFar
<1>11. dest \in [Block -> Int] /\ destOff \in Block /\ destOff + 1 \in Block
  BY <1>1, <1>2, <1>3 DEF Inv, Block
<1>12. end = destOff
  <2>1. CASE end > destOff
    <3>1. destOff \in 0 .. end - 1 /\ destOff \in destOff .. text.len
      BY <1>1, <1>2, <2>1
    <3>2. dest[destOff] # 0
      BY <1>5, <3>1 DEF EndsAt
    <3> QED BY <1>10, <3>1, <3>2
  <2>2. CASE end < destOff
    <3>1. end \in 0 .. destOff - 1 /\ end \in DOMAIN dest
      BY <1>1, <1>2, <1>11, <2>2 DEF Block
    <3>2. dest[end] = 0
      BY <1>5, <3>1 DEF EndsAt
    <3> QED BY <1>4, <3>1, <3>2
  <2> QED BY <1>1, <2>1, <2>2
<1>13. /\ status' = "running"
       /\ \A i \in Block : dest'[i] = IF i \in destOff .. destOff + 1
                                      THEN <<u.byte, 0>>[i - destOff + 1] ELSE dest[i]
  <2> DEFINE b == <<u.byte, 0>>
  <2>1. Len(b) = 2 /\ \A i \in 1 .. Len(b) : b[i] \in Int
    BY <1>2
  <2> HIDE DEF b
  <2>2. Write(destOff, b)
    BY <1>5, <1>12 DEF b
  <2>3. destOff + Len(b) <= text.len + 1 /\ Len(b) \in Nat /\ destOff + Len(b) - 1 = destOff + 1
    BY <1>1, <1>2, <2>1
  <2>4. /\ status' = "running"
        /\ \A i \in Block : dest'[i] = IF i \in destOff .. destOff + Len(b) - 1
                                       THEN b[i - destOff + 1] ELSE dest[i]
    BY <1>1, <1>3, <2>1, <2>2, <2>3, WriteFits
  <2> QED BY <2>3, <2>4 DEF b
<1>14. Len(bytes) = 1 /\ bytes[1] = u.byte
  BY <1>6
<1>15. ASSUME NEW i \in Block
       PROVE  dest'[i] = IF i \in destOff .. destOff + Len(bytes) - 1
                         THEN bytes[i - destOff + 1] ELSE dest[i]
  <2>1. i \in Int
    BY <1>1 DEF Block
  <2>2. CASE i = destOff
    <3>1. i \in destOff .. destOff + 1 /\ i - destOff + 1 = 1 /\ i \in destOff .. destOff + Len(bytes) - 1
      BY <1>1, <1>14, <2>2
    <3> QED BY <1>13, <1>14, <3>1
  <2>3. CASE i = destOff + 1
    <3>1. /\ i \in destOff .. destOff + 1 /\ i - destOff + 1 = 2
          /\ i \notin destOff .. destOff + Len(bytes) - 1 /\ i \in destOff .. text.len
      BY <1>1, <1>2, <1>14, <2>3
    <3>2. dest'[i] = 0
      BY <1>13, <3>1
    <3> QED BY <1>10, <3>1, <3>2
  <2>4. CASE i # destOff /\ i # destOff + 1
    <3>1. i \notin destOff .. destOff + 1 /\ i \notin destOff .. destOff + Len(bytes) - 1
      BY <1>1, <1>14, <2>1, <2>4
    <3> QED BY <1>13, <3>1
  <2> QED BY <2>2, <2>3, <2>4
<1>16. DecodedSoFar'
  <2>1. bytes = BytesOf(text.unit[off])
    BY DEF bytes, u
  <2>2. WithoutEscapes(text) => Len(bytes) = text.unit[off].size
    BY <1>8
  <2>3. destOff' = destOff + Len(bytes)
    BY <1>3, <1>14
  <2> QED BY <1>3, <1>7, <1>15, <2>1, <2>2, <2>3, DecodedGrows
<1> QED BY <1>13, <1>16

LEMMA DecodedMalloc ==
    ASSUME Inv, Inv', Malloc, status' = "running"
    PROVE  DecodedSoFar'
<1>1. /\ text' = text /\ off' = off /\ destOff' = destOff /\ clean' = clean
      /\ off = 0 /\ destOff = 0 /\ text \in Texts
  <2>1. /\ UNCHANGED <<text, clean, off, destOff>> /\ off = 0 /\ text \in Texts
        /\ destOff \in Nat /\ destOff <= off
    BY TextsAssumption DEF Malloc, Inv, Positions
  <2> QED BY <2>1
<1>2. /\ text.len \in Nat /\ text.starts \subseteq 0 .. text.len - 1
      /\ 0 \in text.starts \cup {text.len}
      /\ DecodedFrom(text)[0] \in Seq(Int)
  <2>1. 0 \in 0 .. text.len
    BY <1>1, TextUnits
  <2> QED BY <1>1, <2>1, TextUnits, DecodedIs
<1>3. Written(dest', 0) = << >>
  BY DEF Written
<1>4. Written(dest', 0) \o DecodedFrom(text)[0] = Decoded(text)
  BY <1>2, <1>3, ConcatEmptySeq DEF Decoded
<1>5. clean => \A i \in 0 .. text.len : dest'[i] = 0
  <2> SUFFICES ASSUME clean PROVE \A i \in 0 .. text.len : dest'[i] = 0
    OBVIOUS
  <2>1. CleanBehind'
    BY <1>1 DEF Inv
  <2>2. \A i \in 0 .. text.len : dest'[i] # 0 => destOff' + 6 <= off'
    BY <1>1, <2>1 DEF CleanBehind
  <2> QED BY <1>1, <2>2
<1>6. \A i \in 0 .. 0 - 1 : dest'[i] # 0
  OBVIOUS
<1> QED BY <1>1, <1>2, <1>4, <1>5, <1>6, Zenon DEF DecodedSoFar

(* All was read: the string in the block ends at dest_off.                    *)
LEMMA DecodedTerminate ==
    ASSUME Inv, DecodedSoFar, Terminate, Faithful
    PROVE  StringCopy(dest') = Decoded(text)
<1>1. /\ text \in Texts /\ text.len \in Nat /\ dest \in [Block -> Int]
      /\ destOff \in 0 .. text.len /\ off \in Nat /\ off >= text.len
      /\ dest' = [dest EXCEPT ![text.len] = 0]
  BY TextsAssumption DEF Inv, Positions, Terminate, Allocated
<1>2. off = text.len
  <2>1. off \in text.starts \cup {text.len} /\ text.starts \subseteq 0 .. text.len - 1
    BY <1>1, TextUnits DEF DecodedSoFar
  <2> QED BY <1>1, <2>1
<1>3. Written(dest, destOff) \o << >> = Decoded(text)
  BY <1>1, <1>2, DecodedIs DEF DecodedSoFar
<1>4. /\ DOMAIN dest' = 0 .. text.len
      /\ dest'[text.len] = 0
      /\ \A i \in 0 .. text.len - 1 : dest'[i] = dest[i]
  BY <1>1 DEF Block
<1>5. \A i \in 0 .. destOff - 1 : dest'[i] = dest[i] /\ dest[i] # 0 /\ dest[i] \in Int
  <2>1. \A i \in 0 .. destOff - 1 : i \in 0 .. text.len - 1 /\ i \in Block
    BY <1>1 DEF Block
  <2> QED BY <1>1, <1>4, <2>1 DEF DecodedSoFar
<1>6. dest'[destOff] = 0
  <2>1. CASE destOff = text.len
    BY <1>4, <2>1
  <2>2. CASE destOff # text.len
    <3>1. clean
      BY <1>2, <2>2 DEF DecodedSoFar, Faithful
    <3>2. destOff \in destOff .. text.len /\ destOff \in 0 .. text.len - 1
      BY <1>1, <2>2
    <3> QED BY <1>4, <3>1, <3>2 DEF DecodedSoFar
  <2> QED BY <2>1, <2>2
<1>7. \A e \in DOMAIN dest' : EndsAt(dest', e) <=> e = destOff
  <2> SUFFICES ASSUME NEW e \in 0 .. text.len
               PROVE  EndsAt(dest', e) <=> e = destOff
    BY <1>4
  <2>1. CASE e = destOff
    BY <1>5, <1>6, <2>1 DEF EndsAt
  <2>2. CASE e > destOff
    <3>1. destOff \in 0 .. e - 1
      BY <1>1, <2>2
    <3> QED BY <1>1, <1>6, <2>2, <3>1 DEF EndsAt
  <2>3. CASE e < destOff
    <3>1. e \in 0 .. destOff - 1
      BY <1>1, <2>3
    <3>2. dest'[e] # 0
      BY <1>5, <3>1
    <3> QED BY <1>1, <1>4, <2>3, <3>2 DEF EndsAt
  <2> QED BY <1>1, <2>1, <2>2, <2>3
<1>8. destOff \in DOMAIN dest'
  BY <1>1, <1>4
<1>9. (CHOOSE e \in DOMAIN dest' : EndsAt(dest', e)) = destOff
  BY <1>7, <1>8
<1>10. StringCopy(dest') = Written(dest', destOff)
  BY <1>9, Zenon DEF StringCopy, Written
<1>11. Written(dest', destOff) = Written(dest, destOff) /\ Written(dest, destOff) \in Seq(Int)
  <2>1. \A i \in 1 .. destOff : dest'[i - 1] = dest[i - 1] /\ dest[i - 1] \in Int
    <3> SUFFICES ASSUME NEW i \in 1 .. destOff
                 PROVE  dest'[i - 1] = dest[i - 1] /\ dest[i - 1] \in Int
      OBVIOUS
    <3>1. i - 1 \in 0 .. destOff - 1
      BY <1>1
    <3> QED BY <1>5, <3>1
  <2>2. Written(dest', destOff) = Written(dest, destOff)
    BY <2>1 DEF Written
  <2>3. Written(dest, destOff) \in Seq(Int)
    BY <1>1, <2>1 DEF Written
  <2> QED BY <2>2, <2>3
<1>12. Written(dest, destOff) = Decoded(text)
  BY <1>3, <1>11, ConcatEmptySeq
<1> QED BY <1>10, <1>11, <1>12

LEMMA DecodedInitially == Init => DecodedInv
BY DEF Init, DecodedInv, DecodedExactly

LEMMA DecodedKept == Inv /\ Inv' /\ DecodedInv /\ [Next]_vars => DecodedInv'
<1> SUFFICES ASSUME Inv, Inv', DecodedInv, [Next]_vars PROVE DecodedInv'
  OBVIOUS
<1>1. CASE Malloc
  <2>1. status' # "done"
    BY <1>1 DEF Malloc
  <2>2. status' = "running" => DecodedSoFar'
    BY <1>1, DecodedMalloc
  <2> QED BY <2>1, <2>2 DEF DecodedInv, DecodedExactly
<1>2. ASSUME CopySymbol \/ Escape \/ Unknown \/ Code PROVE DecodedInv'
  <2>1. /\ status = "running" /\ text' = text /\ clean' = clean
        /\ status' \in {"running", "overrun"}
    BY <1>2 DEF CopySymbol, Escape, Unknown, Code, Reading, Write
  <2>2. Faithful' <=> Faithful
    BY <2>1 DEF Faithful
  <2>3. ASSUME Faithful PROVE DecodedSoFar'
    <3>1. DecodedSoFar
      BY <2>1 DEF DecodedInv
    <3>2. ~Unknown
      <4>1. off \in text.starts \cup {text.len} /\ text \in Texts
        BY <2>3, <3>1 DEF DecodedSoFar, Inv
      <4>2. ASSUME Unknown PROVE FALSE
        <5>1. off \in 0 .. text.len - 1 /\ text.len \in Nat /\ text.unit[off].kind = "unknown"
          BY <4>2, UnitRead DEF Unknown
        <5>2. off \in text.starts
          BY <4>1, <5>1
        <5> QED BY <4>1, <5>1, <5>2, TextUnits
      <4> QED BY <4>2
    <3> QED BY <1>2, <2>3, <3>1, <3>2, DecodedSymbol, DecodedEscape, DecodedCode
  <2>4. DecodedSoFar'
    BY <2>2, <2>3 DEF DecodedSoFar
  <2> QED BY <2>1, <2>4 DEF DecodedInv, DecodedExactly
<1>3. CASE Terminate
  <2>1. /\ status = "running" /\ text' = text /\ clean' = clean /\ status' # "running"
    BY <1>3 DEF Terminate
  <2>2. Faithful => StringCopy(dest') = Decoded(text)
    BY <1>3, <2>1, DecodedTerminate DEF DecodedInv
  <2> QED BY <2>1, <2>2 DEF DecodedInv, DecodedExactly, Faithful
<1>4. CASE UNCHANGED vars
  BY <1>4 DEF vars, DecodedInv, DecodedSoFar, DecodedExactly, Faithful
<1> QED BY <1>1, <1>2, <1>3, <1>4 DEF Next

(* interpretate_esc_seq decodes exactly what a text stands for: any text of   *)
(* symbols in any memory, and in clean memory any text with escapes but for   *)
(* codes of two bytes and the NUL.                                            *)
THEOREM TextsDecoded == Spec => []DecodedExactly
<1>1. Spec => []Inv
  BY InvInitially, InvKept, PTL DEF Spec
<1>2. DecodedInv => DecodedExactly
  BY DEF DecodedInv
<1> QED BY <1>1, <1>2, DecodedInitially, DecodedKept, PTL DEF Spec
=============================================================================
