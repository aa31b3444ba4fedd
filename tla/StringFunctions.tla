---------------------------- MODULE StringFunctions ----------------------------
(* interpretate_esc_seq of string_functions.c: the text between two quotes    *)
(* becomes a C string.  The block it is written to comes from malloc, and the *)
(* digits of a code from a buffer on the stack with one byte that nobody      *)
(* sets, so what memory held before is part of the state.                     *)
EXTENDS Integers, Sequences

CONSTANTS
    Texts,        \* what may be between the quotes
    Junk,         \* a byte other than 0 that memory may hold
    JunkDigits    \* the values of the hexadecimal digits it may hold

(* What may be read at an offset of a text: one symbol of one to four bytes,  *)
(* a backslash and a letter, \u and the four digits of a code, or a backslash *)
(* and what is no letter of an escape.                                        *)
Bytes == 1 .. 255
Codes == 0 .. 2 ^ 16 - 1

IsUnit(u) ==
    \/ /\ u.kind = "symbol" /\ u.size \in 1 .. 4
       /\ u.bytes \in Seq(Bytes) /\ Len(u.bytes) = u.size
    \/ u.kind = "escape" /\ u.size = 2 /\ u.byte \in Bytes
    \/ u.kind = "code" /\ u.size = 6 /\ u.code \in Codes
    \/ u.kind = "unknown" /\ u.size = 2

(* A text is made of the units at its starts, json.rl lets no other text pass *)
(* and no NUL; unit also says what would be read in the middle of one.        *)
ASSUME TextsAssumption ==
    \A t \in Texts :
        /\ t.len \in Nat
        /\ t.starts \subseteq 0 .. t.len - 1
        /\ 0 \in t.starts \cup {t.len}
        /\ \A o \in 0 .. t.len - 1 : IsUnit(t.unit[o])
        /\ \A o \in t.starts :
              t.unit[o].kind # "unknown" /\ o + t.unit[o].size \in t.starts \cup {t.len}

ASSUME JunkAssumption == Junk \in Bytes /\ JunkDigits \subseteq 0 .. 15

VARIABLES
    text,      \* str and len
    clean,     \* whether memory holds zeros before it is written to
    status,    \* "called", "running", "done", "failed", or "overrun"
    dest,      \* the block
    off,       \* how much of str was read
    destOff    \* dest_off

vars == <<text, clean, status, dest, off, destOff>>
-----------------------------------------------------------------------------
(* As Allocated, without the byte for the terminator.                         *)
AllocatedExactly(len) == len

(* The size of the block.                                                     *)
Allocated(len) == len + 1

Unset(size) ==
    {[i \in 0 .. size - 1 |-> IF clean \/ i = z THEN 0 ELSE Junk] : z \in 0 .. size}

(* utf_1 and utf_2, with the widths of unsigned short and unsigned char.      *)
Utf1(x) ==
    << (224 + x \div 4096) % 256,
       (128 + ((x * 16) % 65536) \div 1024) % 256,
       (128 + (x % 64)) % 256 >>

Utf2(x) == << (192 + x \div 64) % 256, (128 + (x % 64)) % 256 >>

(* As CodeBytes, with the boundary of the second area one too high.           *)
CodeBytesHigh(cv) ==
    IF cv <= 127 THEN <<cv>>
    ELSE IF cv <= 2048 THEN Utf2(cv) ELSE Utf1(cv)

CodeBytes(cv) ==
    IF cv <= 127 THEN <<cv>>
    ELSE IF cv <= 2047 THEN Utf2(cv) ELSE Utf1(cv)

(* sscanf with "%x" into a short: it goes on to a fifth digit if there is one *)
(* behind the four.                                                           *)
Scanned(code) ==
    {code} \cup (IF clean THEN {} ELSE {(code * 16 + d) % 65536 : d \in JunkDigits})

(* Where what is a string in the block ends: at a 0, or behind the block.     *)
EndsAt(block, e) ==
    /\ \A i \in 0 .. e - 1 : block[i] # 0
    /\ e \in DOMAIN block => block[e] = 0

(* strcpy of string_copy: the bytes before the terminator.                    *)
StringCopy(block) ==
    LET end == CHOOSE e \in DOMAIN block : EndsAt(block, e)
    IN  [i \in 1 .. end |-> block[i - 1]]
-----------------------------------------------------------------------------
(* A write of memcpy or strcat; out of the block anything may happen.         *)
Write(at, bytes) ==
    IF at + Len(bytes) <= Allocated(text.len)
    THEN /\ dest' = [i \in DOMAIN dest |->
                       IF i \in at .. at + Len(bytes) - 1 THEN bytes[i - at + 1] ELSE dest[i]]
         /\ UNCHANGED status
    ELSE status' = "overrun" /\ UNCHANGED dest

Init ==
    /\ text \in Texts
    /\ clean \in BOOLEAN
    /\ status = "called"
    /\ dest = << >>
    /\ off = 0 /\ destOff = 0

Malloc ==
    /\ status = "called"
    /\ \/ status' = "running" /\ dest' \in Unset(Allocated(text.len))
       \/ status' = "failed" /\ UNCHANGED dest
    /\ UNCHANGED <<text, clean, off, destOff>>

Reading(kind) ==
    /\ status = "running"
    /\ off < text.len
    /\ text.unit[off].kind = kind
    /\ UNCHANGED <<text, clean>>

Advance == off' = off + text.unit[off].size

CopySymbol ==
    /\ Reading("symbol") /\ Advance
    /\ Write(destOff, text.unit[off].bytes)
    /\ destOff' = destOff + text.unit[off].size

(* strcat: behind whatever is a string in the block now.                      *)
Escape ==
    /\ Reading("escape") /\ Advance
    /\ \E end \in 0 .. Allocated(text.len) :
          /\ EndsAt(dest, end)
          /\ Write(end, <<text.unit[off].byte, 0>>)
    /\ destOff' = destOff + 1

(* A backslash that no case of the switch is for: nothing is written.         *)
Unknown ==
    /\ Reading("unknown") /\ Advance
    /\ destOff' = destOff + 1
    /\ UNCHANGED <<status, dest>>

(* After a code of two bytes it is the pointer dest_off that was incremented: *)
(* the int beside the caller's dest_off goes on by one instead of it.  That   *)
(* one is off (gcc -O0), or not a variable of the function (-O1 and above).   *)
Code ==
    /\ Reading("code")
    /\ \E cv \in Scanned(text.unit[off].code) :
          LET n == Len(CodeBytes(cv))
          IN  /\ Write(destOff, CodeBytes(cv))
              /\ destOff' = destOff + (IF n = 2 THEN 0 ELSE n)
              /\ Advance \/ (n = 2 /\ off' = off + text.unit[off].size + 1)

Terminate ==
    /\ status = "running" /\ off >= text.len
    /\ IF text.len < Allocated(text.len)
       THEN status' = "done" /\ dest' = [dest EXCEPT ![text.len] = 0]
       ELSE status' = "overrun" /\ UNCHANGED dest
    /\ UNCHANGED <<text, clean, off, destOff>>

Next == Malloc \/ CopySymbol \/ Escape \/ Unknown \/ Code \/ Terminate

Spec == Init /\ [][Next]_vars
-----------------------------------------------------------------------------
(* What the texts stand for: UTF-8, by the areas of its definition.           *)
Utf8(c) ==
    IF c < 128 THEN <<c>>
    ELSE IF c < 2048 THEN <<192 + c \div 64, 128 + (c % 64)>>
    ELSE <<224 + c \div 4096, 128 + ((c \div 64) % 64), 128 + (c % 64)>>

BytesOf(u) ==
    CASE u.kind = "symbol" -> u.bytes
      [] u.kind = "escape" -> <<u.byte>>
      [] u.kind = "code" -> Utf8(u.code)

DecodedFrom(t) ==
    LET From[o \in 0 .. t.len] ==
            IF o \in t.starts THEN BytesOf(t.unit[o]) \o From[o + t.unit[o].size] ELSE << >>
    IN  From

Decoded(t) == DecodedFrom(t)[0]

UnitsOf(t) == {t.unit[o] : o \in t.starts}

(* Where an escape may be read, in the middle of a unit too.                   *)
Escapes(t) == {o \in 0 .. t.len - 1 : t.unit[o].kind = "escape"}

Representable(t) == \A u \in UnitsOf(t) : u.kind = "code" => u.code # 0
WithoutEscapes(t) == \A u \in UnitsOf(t) : u.kind = "symbol"
WithoutTwoByteCodes(t) == \A u \in UnitsOf(t) : u.kind = "code" => u.code \notin 128 .. 2047

(* Nothing is written out of the block of len + 1 bytes, and dest_off never   *)
(* leaves it or gets ahead of off, whatever memory held, but by the strcat of *)
(* an escape in memory that is not clean.                                     *)
StaysInBlock ==
    /\ destOff <= off /\ destOff \in 0 .. text.len
    /\ status = "overrun" => ~clean /\ Escapes(text) # {}

(* A text without escapes is copied exactly in any memory (test_valid_4_utf), *)
(* and one with escapes is decoded exactly in clean memory, but for codes of  *)
(* two bytes and the NUL, which ends a C string.                              *)
DecodedExactly ==
    /\ status = "done"
    /\ WithoutEscapes(text) \/ (clean /\ Representable(text) /\ WithoutTwoByteCodes(text))
    => StringCopy(dest) = Decoded(text)

(* A code of 11 bits becomes the two bytes of its symbol, even in the best of *)
(* memories (the comment of utf_2).                                           *)
TwoByteCodesDecoded ==
    status = "done" /\ clean /\ Representable(text) => StringCopy(dest) = Decoded(text)
=============================================================================
