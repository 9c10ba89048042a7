------------------------------- MODULE Buffer -------------------------------
(***************************************************************************)
(* Buffer objects, written once for njs (src/njs_buffer.c) and once for    *)
(* QuickJS (src/qjs_buffer.c), with the string codecs they use.            *)
(*                                                                         *)
(* A buffer is a view [off, len] of an array buffer mem, a sequence of     *)
(* bytes, so two buffers may share memory.  A method is a function of mem, *)
(* the view and the call; it gives the memory afterwards, its result and   *)
(* whether it threw.  A byte has ByteBits bits, eight in the program; a    *)
(* hexadecimal digit is half of a byte and a base64 digit three quarters.  *)
(* Words of 32 and 64 bits are words of four bytes, and of more than six.  *)
(***************************************************************************)
EXTENDS Integers, Sequences, Bitwise

LOCAL SX == INSTANCE SequencesExt

CONSTANT ByteBits

ASSUME ByteBitsAssumption == ByteBits \in {4, 8}

Byte == 2^ByteBits
HexDigit == 2^(ByteBits \div 2)
DigitBits == (3 * ByteBits) \div 4
Digit64 == 2^DigitBits
Word32 == Byte^4
Word64 == Byte^7

(* An argument that is not given, and the index of nothing. *)
Undef == -1000

Given(x) == x # Undef
OrElse(x, default) == IF Given(x) THEN x ELSE default
Least(a, b) == IF a < b THEN a ELSE b
Most(a, b) == IF a > b THEN a ELSE b

(* ToIndex() of an argument throws when it is negative. *)
BadIndex(x) == Given(x) /\ x < 0

Threw(mem) == [mem |-> mem, ret |-> <<>>, threw |-> TRUE]
Gives(mem, ret) == [mem |-> mem, ret |-> ret, threw |-> FALSE]

(* JS_ToUint32() of a length, and the lengths that are too great for an    *)
(* array buffer of QuickJS, which throws.                                  *)
JS_ToUint32(x) == x % Word32
TooLong(len) == len < 0 \/ len >= Word32 \div 2

Bytes(mem, view) == SubSeq(mem, view.off + 1, view.off + view.len)

(* memcpy() and memmove() of bytes to the index at of mem. *)
Store(mem, at, bytes) ==
    [i \in DOMAIN mem |-> IF i - at \in DOMAIN bytes THEN bytes[i - at]
                          ELSE mem[i]]

Take(s, k) == SubSeq(s, 1, Least(k, Len(s)))
Zeros(k) == [i \in 1..k |-> 0]
Rev(s) == [i \in DOMAIN s |-> s[Len(s) + 1 - i]]

-----------------------------------------------------------------------------
(* Strings and their encodings.  A character is a number: the small ones   *)
(* are digits of every base, Pad and Space are what base64 text may also   *)
(* have, and a character above them takes two bytes of UTF-8.              *)

Pad == Byte - 2
Space == Byte - 1

Utf8Char(c) == IF c < Byte THEN <<c>> ELSE <<Byte - 1, c % Byte>>
Utf8(s) == SX!FlattenSeq([i \in DOMAIN s |-> Utf8Char(s[i])])

(* njs_char_to_hex *)
IsHex(c) == c < HexDigit
(* The basis tables: 77 stands for a character that is no digit. *)
IsDigit64(c) == c < Digit64

(* The longest prefix of s whose characters all are digits. *)
RECURSIVE DigitsPrefix(_, _)
DigitsPrefix(s, digits) ==
    IF s = <<>> \/ Head(s) \notin digits THEN <<>>
    ELSE <<Head(s)>> \o DigitsPrefix(Tail(s), digits)

HexChars == 0..(HexDigit - 1)
Chars64 == 0..(Digit64 - 1)

(* njs_encode_hex *)
njs_encode_hex(src) ==
    SX!FlattenSeq([i \in DOMAIN src |-> <<src[i] \div HexDigit,
                                          src[i] % HexDigit>>])

(* qjs_hex_encode writes into 2 * length bytes. *)
qjs_hex_encode(src) ==
    [i \in 1..(2 * Len(src)) |->
        LET c == src[(i + 1) \div 2]
        IN  IF i % 2 = 1 THEN c \div HexDigit ELSE c % HexDigit]

(* njs_decode_hex stops at what is no digit, whatever length was expected. *)
RECURSIVE njs_decode_hex(_)
njs_decode_hex(src) ==
    IF Len(src) < 2 \/ ~IsHex(src[1]) \/ ~IsHex(src[2]) THEN <<>>
    ELSE <<src[1] * HexDigit + src[2]>> \o njs_decode_hex(SubSeq(src, 3, Len(src)))

njs_decode_hex_length(src) == Len(src) \div 2

qjs_hex_decode_length(src) == Len(DigitsPrefix(src, HexChars)) \div 2

qjs_hex_decode(src) ==
    [i \in 1..qjs_hex_decode_length(src) |->
        src[2 * i - 1] * HexDigit + src[2 * i]]

(* The three bytes, or the rest, of a group as base64 digits: High bits    *)
(* of a byte go to the first digit, and so on.                             *)
Rest == ByteBits - DigitBits          \* two bits

Sextet(c0, c1, c2, i) ==
    CASE i = 1 -> c0 \div 2^Rest
      [] i = 2 -> (c0 % 2^Rest) * 2^(DigitBits - Rest)
                     + c1 \div 2^(2 * Rest)
      [] i = 3 -> (c1 % 2^(2 * Rest)) * 2^Rest + c2 \div 2^(3 * Rest)
      [] i = 4 -> c2 % 2^DigitBits

(* njs_encode_base64_core and qjs_base64_encode_core *)
RECURSIVE njs_encode_base64_core(_, _)
njs_encode_base64_core(src, padding) ==
    CASE Len(src) > 2 ->
           [i \in 1..4 |-> Sextet(src[1], src[2], src[3], i)]
             \o njs_encode_base64_core(SubSeq(src, 4, Len(src)), padding)
      [] Len(src) = 2 ->
           [i \in 1..3 |-> Sextet(src[1], src[2], 0, i)]
             \o (IF padding THEN <<Pad>> ELSE <<>>)
      [] Len(src) = 1 ->
           [i \in 1..2 |-> Sextet(src[1], 0, 0, i)]
             \o (IF padding THEN <<Pad, Pad>> ELSE <<>>)
      [] OTHER -> <<>>

RECURSIVE qjs_base64_encode_core(_, _)
qjs_base64_encode_core(src, padding) ==
    IF Len(src) > 2
    THEN [i \in 1..4 |-> Sextet(src[1], src[2], src[3], i)]
           \o qjs_base64_encode_core(SubSeq(src, 4, Len(src)), padding)
    ELSE IF src = <<>> THEN <<>>
    ELSE LET c1 == IF Len(src) = 2 THEN src[2] ELSE 0
             pads == IF padding THEN [i \in 1..(3 - Len(src)) |-> Pad]
                     ELSE <<>>
         IN  [i \in 1..(Len(src) + 1) |-> Sextet(src[1], c1, 0, i)] \o pads

(* njs_decode_base64_length_core: digits up to the first character that is *)
(* none; a last group of one digit counts for nothing.                     *)
njs_decode_base64_length_core(src) ==
    LET len == Len(DigitsPrefix(src, Chars64))
        pad == IF len % 4 = 0 THEN 0 ELSE 4 - (len % 4)
    IN  ((len + pad) \div 4) * 3 - pad

qjs_base64_decode_length_core(src) ==
    LET len == Len(DigitsPrefix(src, Chars64))
    IN  IF len % 4 = 0 THEN (len \div 4) * 3
        ELSE ((len + 4 - (len % 4)) \div 4) * 3 - (4 - (len % 4))

(* Byte k of a group of digits. *)
Octet(d, k) ==
    CASE k = 1 -> (d[1] * 2^Rest + d[2] \div 2^(2 * Rest)) % Byte
      [] k = 2 -> (d[2] * 2^(2 * Rest) + d[3] \div 2^Rest) % Byte
      [] k = 3 -> (d[3] * 2^(3 * Rest) + d[4]) % Byte

RECURSIVE njs_decode_base64_core(_, _)
njs_decode_base64_core(src, len) ==
    IF len >= 3
    THEN [k \in 1..3 |-> Octet(src, k)]
           \o njs_decode_base64_core(SubSeq(src, 5, Len(src)), len - 3)
    ELSE [k \in 1..len |-> Octet(src, k)]

RECURSIVE qjs_base64_decode_core(_, _)
qjs_base64_decode_core(src, len) ==
    IF len = 0 THEN <<>>
    ELSE [k \in 1..Least(len, 3) |-> Octet(src, k)]
           \o (IF len <= 3 THEN <<>>
               ELSE qjs_base64_decode_core(SubSeq(src, 5, Len(src)), len - 3))

Encodings == {"utf8", "hex", "base64", "base64url"}

(* njs_buffer_decode_string, and the decoding in qjs_buffer_from_string;   *)
(* an unknown encoding throws before.                                      *)
njs_buffer_decode_string(s, enc) ==
    CASE enc = "utf8" -> Utf8(s)
      [] enc = "hex" -> njs_decode_hex(s)
      [] OTHER -> njs_decode_base64_core(s, njs_decode_base64_length_core(s))

qjs_buffer_from_string(s, enc) ==
    CASE enc = "utf8" -> Utf8(s)
      [] enc = "hex" -> qjs_hex_decode(s)
      [] OTHER -> qjs_base64_decode_core(s, qjs_base64_decode_length_core(s))

(* btoa(): the code points of the string, three at a time. *)
njs_string_btoa(s) ==
    IF \E i \in DOMAIN s : s[i] >= Byte THEN Threw(<<>>)
    ELSE Gives(<<>>, njs_encode_base64_core(s, TRUE))

(* The QuickJS one collects the bytes first. *)
qjs_string_btoa(s) ==
    LET bytes == SelectSeq(s, LAMBDA c : c < Byte)
    IN  IF s = <<>> THEN Gives(<<>>, <<>>)
        ELSE IF Len(bytes) < Len(s) THEN Threw(<<>>)
        ELSE Gives(<<>>, qjs_base64_encode_core(bytes, TRUE))

(* atob(): bits are collected until they make a byte; white space does not *)
(* count, and padding may only complete the last group.                    *)
RECURSIVE AtobLoop(_, _)
AtobLoop(s, a) ==
    IF s = <<>> \/ a.bad THEN a
    ELSE IF Head(s) = Space THEN AtobLoop(Tail(s), a)
    ELSE IF Head(s) = Pad THEN AtobLoop(Tail(s), [a EXCEPT !.pad = @ + 1])
    ELSE IF a.pad > 0 \/ ~IsDigit64(Head(s))
    THEN [a EXCEPT !.bad = TRUE]
    ELSE LET acc == (a.acc * Digit64 + Head(s)) % 2^(2 * ByteBits)
             bits == a.bits + DigitBits
         IN  AtobLoop(Tail(s),
                IF bits < ByteBits
                THEN [a EXCEPT !.acc = acc, !.bits = bits, !.total = @ + 1]
                ELSE [a EXCEPT !.acc = acc, !.bits = bits - ByteBits,
                               !.total = @ + 1,
                               !.out = Append(@, (acc \div 2^(bits - ByteBits))
                                                   % Byte)])

njs_string_atob(s) ==
    LET a == AtobLoop(s, [acc |-> 0, bits |-> 0, total |-> 0, pad |-> 0,
                          bad |-> FALSE, out |-> <<>>])
    IN  IF \/ a.bad \/ a.pad > 2 \/ (a.total + a.pad) % 4 = 1
           \/ a.pad > 0 /\ (a.total + a.pad) % 4 # 0
        THEN Threw(<<>>)
        ELSE Gives(<<>>, a.out)

qjs_string_atob(s) ==
    LET a == AtobLoop(s, [acc |-> 0, bits |-> 0, total |-> 0, pad |-> 0,
                          bad |-> FALSE, out |-> <<>>])
        quads == (a.total + a.pad) % 4
    IN  IF ~a.bad /\ a.pad <= 2 /\ quads # 1 /\ (a.pad > 0 => quads = 0)
        THEN Gives(<<>>, IF a.total = 0 THEN <<>> ELSE a.out)
        ELSE Threw(<<>>)

-----------------------------------------------------------------------------
(* Ranges, comparing and copying.                                          *)

(* An array_range: the bytes s..e of a view of length len. *)
njs_buffer_array_range(len, start, end) ==
    LET s == OrElse(start, 0)
        e == OrElse(end, len)
    IN  [ok |-> ~BadIndex(start) /\ s <= len /\ ~BadIndex(end) /\ e <= len,
         s |-> s, e |-> Most(s, e)]

qjs_buffer_array_range(len, start, end) ==
    LET s == OrElse(start, 0)
        e == OrElse(end, len)
    IN  IF s < 0 \/ s > len \/ e < 0 \/ e > len
        THEN [ok |-> FALSE, s |-> 0, e |-> 0]
        ELSE [ok |-> TRUE, s |-> s, e |-> IF s > e THEN s ELSE e]

(* memcmp() of the first k bytes: -1, 0 or 1. *)
RECURSIVE memcmp(_, _, _)
memcmp(a, b, k) ==
    IF k = 0 THEN 0
    ELSE IF a[1] < b[1] THEN -1
    ELSE IF a[1] > b[1] THEN 1
    ELSE memcmp(Tail(a), Tail(b), k - 1)

Part(mem, view, r) == SubSeq(mem, view.off + r.s + 1, view.off + r.e)

(* a is this, or the first argument of Buffer.compare(). *)
njs_buffer_compare_array(mem, a, b, ts, te, ss, se) ==
    LET t == njs_buffer_array_range(b.len, ts, te)
        s == njs_buffer_array_range(a.len, ss, se)
        target == Part(mem, b, t)
        source == Part(mem, a, s)
        rc == memcmp(target, source, Least(Len(target), Len(source)))
    IN  IF ~t.ok \/ ~s.ok THEN Threw(mem)
        ELSE Gives(mem,
               <<CASE rc < 0 -> 1
                   [] rc > 0 -> -1
                   [] OTHER -> IF Len(target) > Len(source) THEN -1
                               ELSE IF Len(target) < Len(source) THEN 1
                               ELSE 0>>)

qjs_buffer_compare_array(mem, a, b, ts, te, ss, se) ==
    LET s == qjs_buffer_array_range(a.len, ss, se)
        t == qjs_buffer_array_range(b.len, ts, te)
        source == Part(mem, a, s)
        target == Part(mem, b, t)
        rc == memcmp(source, target, Least(Len(source), Len(target)))
    IN  IF s.ok /\ t.ok
        THEN Gives(mem, IF rc # 0 THEN <<rc>>
                        ELSE IF Len(target) > Len(source) THEN <<-1>>
                        ELSE IF Len(target) < Len(source) THEN <<1>> ELSE <<0>>)
        ELSE Threw(mem)

njs_buffer_prototype_equals(mem, a, b) ==
    LET c == njs_buffer_compare_array(mem, a, b, Undef, Undef, Undef, Undef)
    IN  Gives(mem, <<c.ret = <<0>>>>)

qjs_buffer_prototype_equals(mem, a, b) ==
    LET c == qjs_buffer_compare_array(mem, a, b, Undef, Undef, Undef, Undef)
    IN  IF c.threw THEN c ELSE Gives(mem, <<c.ret[1] = 0>>)

(* this.copy(target, ts, ss, se): memmove() when they overlap. *)
njs_buffer_prototype_copy(mem, this, target, ts, ss, se) ==
    LET t == njs_buffer_array_range(target.len, ts, Undef)
        s == njs_buffer_array_range(this.len, ss, se)
        size == Least(t.e - t.s, s.e - s.s)
    IN  IF ~t.ok \/ ~s.ok THEN Threw(mem)
        ELSE Gives(Store(mem, target.off + t.s, Take(Part(mem, this, s), size)),
                   <<size>>)

qjs_buffer_prototype_copy(mem, this, target, ts, ss, se) ==
    LET t == qjs_buffer_array_range(target.len, ts, Undef)
        s == qjs_buffer_array_range(this.len, ss, se)
        source == Part(mem, this, s)
        size == Least(Len(source), t.e - t.s)
    IN  IF t.ok /\ s.ok
        THEN Gives(Store(mem, target.off + t.s, Take(source, size)), <<size>>)
        ELSE Threw(mem)

(* Buffer.concat(list, length): the bytes of the new buffer. *)
RECURSIVE ConcatLoop(_, _, _)
ConcatLoop(mem, list, len) ==
    IF len = 0 \/ list = <<>> THEN Zeros(len)
    ELSE LET part == Take(Bytes(mem, Head(list)), len)
         IN  part \o ConcatLoop(mem, Tail(list), len - Len(part))

Total(list) ==
    LET sum[k \in 0..Len(list)] == IF k = 0 THEN 0 ELSE sum[k - 1] + list[k].len
    IN  sum[Len(list)]

njs_buffer_concat(mem, list, length) ==
    IF Given(length) /\ length < 0 THEN Threw(mem)
    ELSE Gives(mem, ConcatLoop(mem, list, OrElse(length, Total(list))))

qjs_buffer_concat(mem, list, length) ==
    LET len == IF Given(length) THEN JS_ToUint32(length) ELSE Total(list)
    IN  IF TooLong(len) THEN Threw(mem)
        ELSE Gives(mem, ConcatLoop(mem, list, len))

-----------------------------------------------------------------------------
(* Filling and writing.                                                    *)

(* A value: [t, n, s, w], a number n, a string s or a view w. *)
(* Copies of bytes, one after another, into k bytes at index at.  A source *)
(* in the same memory may change on the way.                               *)
RECURSIVE FillFrom(_, _, _, _)
FillFrom(mem, at, end, source) ==
    IF at >= end THEN mem
    ELSE LET part == Take(Bytes(mem, source), end - at)
         IN  FillFrom(Store(mem, at, part), at + Len(part), end, source)

RECURSIVE FillWith(_, _, _, _)
FillWith(mem, at, end, bytes) ==
    IF at >= end THEN mem
    ELSE LET part == Take(bytes, end - at)
         IN  FillWith(Store(mem, at, part), at + Len(part), end, bytes)

FillZero(mem, at, end) == Store(mem, at, Zeros(end - at))

(* njs_buffer_fill with its two helpers. *)
njs_buffer_fill(mem, this, v, enc, offset, end) ==
    LET from == this.off + offset
        to == this.off + end
        bytes == njs_buffer_decode_string(v.s, enc)
    IN  CASE offset > this.len -> Threw(mem)
          [] offset <= this.len /\ end > this.len -> Threw(mem)
          [] end <= this.len /\ offset >= end -> Gives(mem, <<>>)
          [] OTHER ->
               IF v.t = "num"
               THEN Gives(FillWith(mem, from, to, <<v.n % Byte>>), <<>>)
               ELSE IF v.t = "view"
               THEN Gives(IF v.w.len = 0 THEN FillZero(mem, from, to)
                          ELSE FillFrom(mem, from, to, v.w), <<>>)
               ELSE IF enc = "bad" THEN Threw(mem)
               ELSE Gives(IF bytes = <<>> THEN FillZero(mem, from, to)
                          ELSE FillWith(mem, from, to, bytes), <<>>)

(* The QuickJS one does not look at the offset alone. *)
qjs_buffer_fill(mem, this, v, enc, offset, end) ==
    LET from == this.off + offset
        to == this.off + end
        bytes == qjs_buffer_from_string(v.s, enc)
    IN  IF end > this.len THEN Threw(mem)
        ELSE IF offset >= end THEN Gives(mem, <<>>)
        ELSE IF v.t = "num"
        THEN Gives(FillWith(mem, from, to, <<v.n % Byte>>), <<>>)
        ELSE IF v.t = "str" /\ enc = "bad" THEN Threw(mem)
        ELSE IF v.t = "str"
        THEN Gives(IF bytes = <<>> THEN FillZero(mem, from, to)
                   ELSE FillWith(mem, from, to, bytes), <<>>)
        ELSE Gives(IF v.w.len = 0 THEN FillZero(mem, from, to)
                   ELSE FillFrom(mem, from, to, v.w), <<>>)

(* this.fill(v, i, j, enc); the encoding may stand in place of i or j, and *)
(* what follows it is not looked at: enc is then at place encAt.           *)
njs_buffer_prototype_fill(mem, this, v, i, j, enc, encAt) ==
    LET early == v.t = "str" /\ encAt < 3
        offset == IF early /\ encAt = 1 THEN 0 ELSE OrElse(i, 0)
        end == IF early THEN this.len ELSE OrElse(j, this.len)
    IN  IF offset < 0 \/ end < 0 THEN Threw(mem)
        ELSE njs_buffer_fill(mem, this, v, enc, offset, end)

qjs_buffer_prototype_fill(mem, this, v, i, j, enc, encAt) ==
    LET first == v.t = "str" /\ encAt = 1
        second == v.t = "str" /\ encAt = 2
    IN  IF first THEN qjs_buffer_fill(mem, this, v, enc, 0, this.len)
        ELSE IF BadIndex(i) THEN Threw(mem)
        ELSE IF second
        THEN qjs_buffer_fill(mem, this, v, enc, OrElse(i, 0), this.len)
        ELSE IF BadIndex(j) THEN Threw(mem)
        ELSE qjs_buffer_fill(mem, this, v, enc, OrElse(i, 0), OrElse(j, this.len))

(* Buffer.alloc(size, fill, enc): new memory. *)
njs_buffer_alloc_safe(mem, size, v, enc) ==
    IF size < 0 THEN Threw(mem)
    ELSE IF v.t = "none" THEN Gives(mem, Zeros(size))
    ELSE LET f == njs_buffer_fill(mem \o Zeros(size),
                                  [off |-> Len(mem), len |-> size], v, enc,
                                  0, size)
         IN  IF f.threw THEN Threw(mem)
             ELSE Gives(mem, SubSeq(f.mem, Len(mem) + 1, Len(mem) + size))

qjs_bufferobj_alloc(mem, size, v, enc) ==
    LET len == JS_ToUint32(size)
        f == qjs_buffer_fill(mem \o Zeros(len),
                             [off |-> Len(mem), len |-> len], v, enc, 0, len)
    IN  IF TooLong(len) THEN Threw(mem)
        ELSE IF v.t = "none" THEN Gives(mem, Zeros(len))
        ELSE IF f.threw THEN Threw(mem)
        ELSE Gives(mem, SubSeq(f.mem, Len(mem) + 1, Len(f.mem)))

(* How many of length bytes hold whole characters of s. *)
Whole(s, length) ==
    CHOOSE k \in 0..length :
       /\ \E i \in 0..Len(s) : Len(Utf8(SubSeq(s, 1, i))) = k
       /\ \A i \in 0..Len(s) : Len(Utf8(SubSeq(s, 1, i))) <= length =>
             Len(Utf8(SubSeq(s, 1, i))) <= k

(* njs_buffer_write_string: more than fits is cut. *)
njs_buffer_write_string(mem, this, s, enc, offset, length) ==
    LET bytes == njs_buffer_decode_string(s, enc)
        fits == Least(Len(bytes), Least(length, this.len - offset))
        k == IF enc = "utf8" THEN Whole(s, fits) ELSE fits
    IN  IF bytes = <<>> THEN Gives(mem, <<0>>)
        ELSE Gives(Store(mem, this.off + offset, Take(bytes, k)), <<k>>)

(* this.write(s, i, j, enc) *)
njs_buffer_prototype_write(mem, this, s, i, j, enc, encAt) ==
    LET offset == IF encAt = 1 THEN 0 ELSE OrElse(i, 0)
        length == IF encAt < 3 THEN this.len ELSE OrElse(j, this.len)
    IN  IF offset < 0 \/ length < 0 \/ enc = "bad" \/ offset > this.len
        THEN Threw(mem)
        ELSE njs_buffer_write_string(mem, this, s, enc, offset, length)

(* Here a length that does not fit throws, unless nothing is written. *)
qjs_buffer_prototype_write(mem, this, s, i, j, enc, encAt) ==
    LET offset == IF encAt = 1 THEN 0 ELSE OrElse(i, 0)
        max == IF encAt < 3 \/ ~Given(j) THEN this.len - offset ELSE j
        bytes == qjs_buffer_from_string(s, enc)
        fits == Least(max, Len(bytes))
        k == IF enc = "utf8" THEN Whole(s, fits) ELSE fits
    IN  IF \/ offset < 0 \/ (encAt = 3 /\ BadIndex(j))
           \/ enc = "bad" \/ offset > this.len
        THEN Threw(mem)
        ELSE IF bytes = <<>> THEN Gives(mem, <<0>>)
        ELSE IF max > this.len - offset THEN Threw(mem)
        ELSE Gives(Store(mem, this.off + offset, Take(bytes, k)), <<k>>)

(* this.toString(enc, i, j); an empty part needs no encoding. *)
njs_buffer_prototype_to_string(mem, this, enc, i, j) ==
    LET start == Least(OrElse(i, 0), this.len)
        end == Least(OrElse(j, this.len), this.len)
        part == SubSeq(mem, this.off + start + 1, this.off + end)
    IN  IF enc = "bad" \/ BadIndex(i) \/ BadIndex(j) THEN Threw(mem)
        ELSE IF start >= end THEN Gives(mem, <<>>)
        ELSE Gives(mem, CASE enc = "hex" -> njs_encode_hex(part)
                          [] enc = "base64" -> njs_encode_base64_core(part, TRUE)
                          [] enc = "base64url" ->
                               njs_encode_base64_core(part, FALSE)
                          [] OTHER -> part)

qjs_buffer_prototype_to_string(mem, this, enc, i, j) ==
    LET start == Least(OrElse(i, 0), this.len)
        end == Least(OrElse(j, this.len), this.len)
        part == IF start >= end THEN <<>>
                ELSE SubSeq(mem, this.off + start + 1, this.off + end)
    IN  IF BadIndex(i) \/ BadIndex(j) THEN Threw(mem)
        ELSE IF part = <<>> THEN Gives(mem, <<>>)
        ELSE IF enc = "bad" THEN Threw(mem)
        ELSE Gives(mem, CASE enc = "utf8" -> part
                          [] enc = "hex" -> qjs_hex_encode(part)
                          [] OTHER ->
                               qjs_base64_encode_core(part, enc = "base64"))

(* this.toJSON().data *)
njs_buffer_prototype_to_json(mem, this) == Gives(mem, Bytes(mem, this))
qjs_buffer_prototype_to_json(mem, this) ==
    Gives(mem, [i \in 1..this.len |-> mem[this.off + i]])

-----------------------------------------------------------------------------
(* Searching.                                                              *)

(* The first of from, from + step, ... before to at which found holds: the *)
(* set hits holds such indexes.                                            *)
RECURSIVE Search(_, _, _, _)
Search(i, to, step, hits) ==
    IF i = to THEN -1
    ELSE IF i \in hits THEN i
    ELSE Search(i + step, to, step, hits)

(* Where the bytes of a view are str. *)
Hits(mem, this, str) ==
    {i \in 0..(this.len - Len(str)) :
        SubSeq(mem, this.off + i + 1, this.off + i + Len(str)) = str}

(* this.indexOf(v, i, enc), and lastIndexOf(). *)
njs_buffer_prototype_index_of(mem, this, v, i, enc, encAt, last) ==
    LET length == this.len
        begin == IF last THEN length - 1 ELSE 0
        from == IF (v.t = "str" /\ encAt = 1) \/ ~Given(i) THEN begin
                ELSE IF i >= 0 THEN Least(i, length)
                ELSE Most(0, length + i)
        str == IF v.t = "str" THEN njs_buffer_decode_string(v.s, enc)
               ELSE IF v.t = "view" THEN Bytes(mem, v.w) ELSE <<v.n % Byte>>
        to == IF last THEN -1 ELSE length - (Len(str) - 1)
        first == IF last THEN Least(from, length - Len(str)) ELSE from
    IN  IF enc = "bad" THEN Threw(mem)
        ELSE IF v.t = "num"
        THEN Gives(mem, <<IF last
                          THEN Search(Least(from, length - 1), -1, -1,
                                      Hits(mem, this, str))
                          ELSE Search(from, length, 1, Hits(mem, this, str))>>)
        ELSE IF (last /\ -1 > first) \/ (~last /\ first > to) THEN Gives(mem, <<-1>>)
        ELSE IF first = to /\ str = <<>> THEN Gives(mem, <<0>>)
        ELSE Gives(mem, <<Search(first, to, IF last THEN -1 ELSE 1,
                                 Hits(mem, this, str))>>)

qjs_buffer_prototype_index_of(mem, this, v, i, enc, encAt, last) ==
    LET length == this.len
        from == IF (v.t = "str" /\ encAt = 1) \/ ~Given(i)
                THEN (IF last THEN length - 1 ELSE 0)
                ELSE IF i < 0 THEN Most(0, length + i) ELSE Least(i, length)
        byte == Hits(mem, this, <<v.n % Byte>>)
        str == IF v.t = "str" THEN qjs_buffer_from_string(v.s, enc)
               ELSE Bytes(mem, v.w)
        to == IF last THEN -1 ELSE length - (Len(str) - 1)
        start == IF last THEN Least(from, length - Len(str)) ELSE from
    IN  IF v.t = "num"
        THEN Gives(mem, <<IF last THEN Search(Least(from, length - 1), -1, -1, byte)
                          ELSE Search(from, length, 1, byte)>>)
        ELSE IF v.t = "str" /\ enc = "bad" THEN Threw(mem)
        ELSE IF IF last THEN to > start ELSE start > to THEN Gives(mem, <<-1>>)
        ELSE IF start = to /\ str = <<>> THEN Gives(mem, <<0>>)
        ELSE Gives(mem, <<Search(start, to, IF last THEN -1 ELSE 1,
                                 Hits(mem, this, str))>>)

njs_buffer_prototype_includes(mem, this, v, i, enc, encAt) ==
    LET r == njs_buffer_prototype_index_of(mem, this, v, i, enc, encAt, FALSE)
    IN  IF r.threw THEN r ELSE Gives(mem, <<r.ret[1] # -1>>)

qjs_buffer_prototype_includes(mem, this, v, i, enc, encAt) ==
    LET r == qjs_buffer_prototype_index_of(mem, this, v, i, enc, encAt, FALSE)
    IN  IF r.threw THEN r ELSE Gives(mem, <<r.ret[1] # -1>>)

-----------------------------------------------------------------------------
(* Numbers.                                                                *)

(* The bytes of a number, lowest first, and back: what a little endian     *)
(* machine loads and stores.                                               *)
LowFirst(x, size) == [k \in 1..size |-> (x \div Byte^(k - 1)) % Byte]
Load(bytes) ==
    LET sum[k \in 0..Len(bytes)] ==
          IF k = 0 THEN 0 ELSE sum[k - 1] + bytes[k] * Byte^(k - 1)
    IN  sum[Len(bytes)]

bswap(x, size) == Load(Rev(LowFirst(x, size)))

(* A word of the given size read as a signed number of the same size. *)
Signed(x, word) == IF x >= word \div 2 THEN x - word ELSE x

\* Mutant: the sign bit of the next larger number.
SignExtendWide(x, size, word) ==
    LET bit == x & (Byte^size)
    IN  Signed(x | ((bit * (word - 1)) % word), word)

(* x |= (x & (INT_MAX + 1)) * UINT_MAX, and the cast. *)
SignExtend(x, size, word) ==
    LET bit == x & (Byte^size \div 2)
    IN  Signed(x | ((-bit) % word), word)

(* readInt, readUInt: size bytes at index, sign, little.  A size of two or *)
(* four bytes is loaded as a word and swapped, others byte by byte.        *)
njs_buffer_prototype_read_int(mem, this, index, size, sign, little) ==
    LET at == OrElse(index, 0)
        u8 == SubSeq(mem, this.off + at + 1, this.off + at + size)
        x == CASE size \in {2, 4} ->
                    IF little THEN Load(u8) ELSE bswap(Load(u8), size)
               [] size \notin {2, 4} ->
                    IF little THEN Load(u8) ELSE Load(Rev(u8))
        word == IF size <= 4 THEN Word32 ELSE Word64
    IN  IF at < 0 \/ size \notin 1..6 \/ size + at > this.len THEN Threw(mem)
        ELSE Gives(mem, <<IF ~sign THEN x
                          ELSE IF size = 1 THEN Signed(x, Byte)
                          ELSE SignExtend(x, size, word)>>)

qjs_buffer_prototype_read_int(mem, this, index, size, sign, little) ==
    LET at == OrElse(index, 0)
        start == SubSeq(mem, this.off + at + 1, this.off + at + size)
        x == IF size \in {2, 4} /\ ~little THEN bswap(Load(start), size)
             ELSE Load(IF little THEN start ELSE Rev(start))
    IN  IF BadIndex(index) \/ size < 1 \/ size > 6 \/ size + at > this.len
        THEN Threw(mem)
        ELSE Gives(mem,
               CASE ~sign -> <<x>>
                 [] sign /\ size = 1 -> <<Signed(x, Byte)>>
                 [] sign /\ size \in 2..4 -> <<SignExtend(x, size, Word32)>>
                 [] sign /\ size > 4 -> <<SignExtend(x, size, Word64)>>)

(* The numbers of size bytes. *)
InRange(x, size, sign) ==
    IF sign THEN x \in -(Byte^size \div 2)..(Byte^size \div 2 - 1)
    ELSE x \in 0..(Byte^size - 1)

(* i64 >>= 8 after each byte. *)
RECURSIVE Shifted(_, _)
Shifted(x, size) ==
    IF size = 0 THEN <<>> ELSE <<x % Byte>> \o Shifted(x \div Byte, size - 1)

njs_buffer_prototype_write_int(mem, this, x, index, size, sign, little) ==
    LET at == OrElse(index, 0)
        u == x % Byte^size
        bytes == CASE size = 1 -> <<u>>
                   [] size \in {2, 4} ->
                        LowFirst(IF little THEN u ELSE bswap(u, size), size)
                   [] OTHER -> IF little THEN Shifted(x, size)
                               ELSE Rev(Shifted(x, size))
    IN  IF \/ at < 0 \/ size = 0 \/ size > 6 \/ size + at > this.len
           \/ ~InRange(x, size, sign)
        THEN Threw(mem)
        ELSE Gives(Store(mem, this.off + at, bytes), <<at + size>>)

qjs_buffer_prototype_write_int(mem, this, x, index, size, sign, little) ==
    LET at == OrElse(index, 0)
        low == IF size \in {2, 4}
               THEN LowFirst(x % Byte^size, size) ELSE Shifted(x, size)
    IN  CASE BadIndex(index) -> Threw(mem)
          [] ~BadIndex(index) /\ size \notin 1..6 -> Threw(mem)
          [] ~BadIndex(index) /\ size \in 1..6 ->
               IF size + at > this.len \/ ~InRange(x, size, sign)
               THEN Threw(mem)
               ELSE Gives(Store(mem, this.off + at,
                                IF little THEN low ELSE Rev(low)),
                          <<size + at>>)

(* Floating point numbers are their bytes, highest first; size is 4 or 8. *)
njs_buffer_prototype_read_float(mem, this, index, size, little) ==
    LET at == OrElse(index, 0)
        u8 == SubSeq(mem, this.off + at + 1, this.off + at + size)
    IN  IF at < 0 \/ size + at > this.len THEN Threw(mem)
        ELSE Gives(mem, IF little THEN Rev(u8) ELSE u8)

qjs_buffer_prototype_read_float(mem, this, index, size, little) ==
    LET at == OrElse(index, 0)
        native == Rev(SubSeq(mem, this.off + at + 1, this.off + at + size))
    IN  IF BadIndex(index) \/ size + at > this.len THEN Threw(mem)
        ELSE Gives(mem, IF little THEN native ELSE Rev(native))

njs_buffer_prototype_write_float(mem, this, x, index, size, little) ==
    LET at == OrElse(index, 0)
    IN  IF at < 0 \/ size + at > this.len THEN Threw(mem)
        ELSE Gives(Store(mem, this.off + at, IF little THEN Rev(x) ELSE x),
                   <<at + size>>)

qjs_buffer_prototype_write_float(mem, this, x, index, size, little) ==
    LET at == OrElse(index, 0)
        native == Rev(x)
    IN  IF BadIndex(index) \/ at + size > this.len THEN Threw(mem)
        ELSE Gives(Store(mem, this.off + at,
                         IF little THEN native ELSE Rev(native)), <<at + size>>)

(* swap16(), swap32(), swap64(): size is 2, 4 or 8. *)
njs_buffer_prototype_swap(mem, this, size) ==
    IF this.len % size # 0 THEN Threw(mem)
    ELSE LET p == Bytes(mem, this)
         IN  Gives(Store(mem, this.off,
                 [i \in 1..this.len |->
                     LET group == (i - 1) \div size
                     IN  p[group * size + size - ((i - 1) % size)]]), <<>>)

RECURSIVE SwapGroups(_, _)
SwapGroups(bytes, size) ==
    IF bytes = <<>> THEN <<>>
    ELSE Rev(SubSeq(bytes, 1, size))
           \o SwapGroups(SubSeq(bytes, size + 1, Len(bytes)), size)

qjs_buffer_prototype_swap(mem, this, size) ==
    IF this.len % size # 0 THEN Threw(mem)
    ELSE Gives(Store(mem, this.off, SwapGroups(Bytes(mem, this), size)), <<>>)

-----------------------------------------------------------------------------
(* Buffer.from() and what strings and buffers need.                        *)

(* Of a typed array whose elements take w bytes: their lowest bytes. *)
njs_buffer_from_typed_array(mem, this, w) ==
    Gives(mem, [i \in 1..(this.len \div w) |->
                  Load(SubSeq(mem, this.off + (i - 1) * w + 1,
                              this.off + i * w)) % Byte])

qjs_buffer_from_typed_array(mem, this, w) ==
    LET offset == this.off \div w
    IN  Gives(mem, [i \in 1..(this.len \div w) |->
                      Load([k \in 1..w |-> mem[(offset + i - 1) * w + k]])
                        % Byte])

(* Of an array buffer, from an offset: memory is shared, the result is a   *)
(* view.                                                                   *)
njs_buffer_from_array_buffer(mem, offset, length) ==
    LET off == OrElse(offset, 0)
        len == IF Given(length) THEN Most(0, length) ELSE Len(mem) - off
    IN  IF off < 0 \/ off > Len(mem) \/ off + len > Len(mem) THEN Threw(mem)
        ELSE Gives(mem, <<off, len>>)

(* new Uint8Array(mem, offset, length) *)
qjs_buffer_ctor(mem, offset, length) ==
    IF \/ BadIndex(offset) \/ BadIndex(length) \/ OrElse(offset, 0) > Len(mem)
       \/ Given(length) /\ OrElse(offset, 0) + length > Len(mem)
    THEN Threw(mem)
    ELSE Gives(mem, <<OrElse(offset, 0), OrElse(length, Len(mem) - OrElse(offset, 0))>>)

(* Of an object: its elements, if it has a length, or those of its data if *)
(* it is of type Buffer.  obj = [type, length, elems, inner].              *)
Elements(elems, len) ==
    [i \in 1..len |-> IF i \in DOMAIN elems THEN elems[i] % Byte ELSE 0]

njs_buffer_from_object(mem, obj) ==
    LET o == IF Given(obj.length) THEN obj ELSE obj.inner[1]
    IN  IF ~Given(obj.length) /\ (obj.type # "Buffer" \/ obj.inner = <<>>)
        THEN Threw(mem)
        ELSE IF ~Given(o.length) THEN Threw(mem)
        ELSE Gives(mem, Elements(o.elems, Most(0, o.length)))

(* A negative length throws here. *)
qjs_buffer_from_object(mem, obj) ==
    LET o == IF Given(obj.length) \/ obj.type # "Buffer" \/ obj.inner = <<>>
             THEN obj ELSE obj.inner[1]
    IN  IF ~Given(o.length) \/ TooLong(o.length) THEN Threw(mem)
        ELSE Gives(mem, Elements(o.elems, o.length))

njs_buffer_byte_length(mem, v, enc) ==
    IF v.t = "view" THEN Gives(mem, <<v.w.len>>)
    ELSE IF v.t # "str" \/ enc = "bad" THEN Threw(mem)
    ELSE Gives(mem, <<CASE enc = "utf8" -> Len(Utf8(v.s))
                        [] enc = "hex" -> njs_decode_hex_length(v.s)
                        [] OTHER -> njs_decode_base64_length_core(v.s)>>)

qjs_buffer_byte_length(mem, v, enc) ==
    IF v.t = "view" THEN Gives(mem, <<v.w.len>>)
    ELSE IF v.t = "str" /\ enc # "bad"
    THEN Gives(mem, <<CASE enc = "hex" -> qjs_hex_decode_length(v.s)
                        [] enc = "utf8" -> Len(Utf8(v.s))
                        [] OTHER -> qjs_base64_decode_length_core(v.s)>>)
    ELSE Threw(mem)

-----------------------------------------------------------------------------
(* Calls of methods, and what both engines do.                             *)

Njs(mem, c) ==
    CASE c.m = "compare" ->
           njs_buffer_compare_array(mem, c.this, c.w, c.i, c.j, c.k, c.l)
      [] c.m = "equals" -> njs_buffer_prototype_equals(mem, c.this, c.w)
      [] c.m = "copy" ->
           njs_buffer_prototype_copy(mem, c.this, c.w, c.i, c.j, c.k)
      [] c.m = "concat" -> njs_buffer_concat(mem, c.list, c.i)
      [] c.m = "fill" -> njs_buffer_prototype_fill(mem, c.this, c.v, c.i, c.j,
                                                   c.enc, c.encAt)
      [] c.m = "alloc" -> njs_buffer_alloc_safe(mem, c.i, c.v, c.enc)
      [] c.m = "write" -> njs_buffer_prototype_write(mem, c.this, c.v.s, c.i,
                                                     c.j, c.enc, c.encAt)
      [] c.m = "toString" ->
           njs_buffer_prototype_to_string(mem, c.this, c.enc, c.i, c.j)
      [] c.m = "toJSON" -> njs_buffer_prototype_to_json(mem, c.this)
      [] c.m \in {"indexOf", "lastIndexOf"} ->
           njs_buffer_prototype_index_of(mem, c.this, c.v, c.i, c.enc, c.encAt,
                                         c.m = "lastIndexOf")
      [] c.m = "includes" ->
           njs_buffer_prototype_includes(mem, c.this, c.v, c.i, c.enc, c.encAt)
      [] c.m = "readInt" -> njs_buffer_prototype_read_int(
                               mem, c.this, c.i, c.size, c.sign, c.little)
      [] c.m = "writeInt" -> njs_buffer_prototype_write_int(
                                mem, c.this, c.x, c.i, c.size, c.sign, c.little)
      [] c.m = "readFloat" -> njs_buffer_prototype_read_float(
                                 mem, c.this, c.i, c.size, c.little)
      [] c.m = "writeFloat" -> njs_buffer_prototype_write_float(
                mem, c.this, [k \in 1..c.size |-> k], c.i, c.size, c.little)
      [] c.m = "swap" -> njs_buffer_prototype_swap(mem, c.this, c.size)
      [] c.m = "fromTyped" -> njs_buffer_from_typed_array(mem, c.this, c.size)
      [] c.m = "fromBuffer" -> njs_buffer_from_array_buffer(mem, c.i, c.j)
      [] c.m = "fromObject" -> njs_buffer_from_object(mem, c.obj)
      [] c.m = "byteLength" -> njs_buffer_byte_length(mem, c.v, c.enc)
      [] c.m = "fromString" ->
           Gives(mem, njs_buffer_decode_string(c.v.s, c.enc))
      [] c.m = "btoa" -> njs_string_btoa(c.v.s)
      [] c.m = "atob" -> njs_string_atob(c.v.s)

Qjs(mem, c) ==
    CASE c.m = "compare" ->
           qjs_buffer_compare_array(mem, c.this, c.w, c.i, c.j, c.k, c.l)
      [] c.m = "equals" -> qjs_buffer_prototype_equals(mem, c.this, c.w)
      [] c.m = "copy" ->
           qjs_buffer_prototype_copy(mem, c.this, c.w, c.i, c.j, c.k)
      [] c.m = "concat" -> qjs_buffer_concat(mem, c.list, c.i)
      [] c.m = "fill" -> qjs_buffer_prototype_fill(mem, c.this, c.v, c.i, c.j,
                                                   c.enc, c.encAt)
      [] c.m = "alloc" -> qjs_bufferobj_alloc(mem, c.i, c.v, c.enc)
      [] c.m = "write" -> qjs_buffer_prototype_write(mem, c.this, c.v.s, c.i,
                                                     c.j, c.enc, c.encAt)
      [] c.m = "toString" ->
           qjs_buffer_prototype_to_string(mem, c.this, c.enc, c.i, c.j)
      [] c.m = "toJSON" -> qjs_buffer_prototype_to_json(mem, c.this)
      [] c.m \in {"indexOf", "lastIndexOf"} ->
           qjs_buffer_prototype_index_of(mem, c.this, c.v, c.i, c.enc, c.encAt,
                                         c.m = "lastIndexOf")
      [] c.m = "includes" ->
           qjs_buffer_prototype_includes(mem, c.this, c.v, c.i, c.enc, c.encAt)
      [] c.m = "readInt" -> qjs_buffer_prototype_read_int(
                               mem, c.this, c.i, c.size, c.sign, c.little)
      [] c.m = "writeInt" -> qjs_buffer_prototype_write_int(
                                mem, c.this, c.x, c.i, c.size, c.sign, c.little)
      [] c.m = "readFloat" -> qjs_buffer_prototype_read_float(
                                 mem, c.this, c.i, c.size, c.little)
      [] c.m = "writeFloat" -> qjs_buffer_prototype_write_float(
                mem, c.this, [k \in 1..c.size |-> k], c.i, c.size, c.little)
      [] c.m = "swap" -> qjs_buffer_prototype_swap(mem, c.this, c.size)
      [] c.m = "fromTyped" -> qjs_buffer_from_typed_array(mem, c.this, c.size)
      [] c.m = "fromBuffer" -> qjs_buffer_ctor(mem, c.i, c.j)
      [] c.m = "fromObject" -> qjs_buffer_from_object(mem, c.obj)
      [] c.m = "byteLength" -> qjs_buffer_byte_length(mem, c.v, c.enc)
      [] c.m = "fromString" -> Gives(mem, qjs_buffer_from_string(c.v.s, c.enc))
      [] c.m = "btoa" -> qjs_string_btoa(c.v.s)
      [] c.m = "atob" -> qjs_string_atob(c.v.s)

(* Where the engines are known to differ: a fill() from behind the end, a  *)
(* write() of more than fits, an unknown encoding that is not needed,      *)
(* byteLength() of hexadecimal text with something else in it, and lengths *)
(* below 0.                                                                *)
EnginesDiffer(c) ==
    CASE c.m = "fill" -> Given(c.i) /\ c.i > c.this.len
      [] c.m = "write" -> Given(c.j) /\ c.j + OrElse(c.i, 0) > c.this.len
      [] c.m = "toString" -> c.enc = "bad"
      [] c.m \in {"indexOf", "lastIndexOf", "includes"} ->
           c.enc = "bad" /\ c.v.t # "str"
      [] c.m = "byteLength" ->
           c.enc = "hex" /\ \E k \in DOMAIN c.v.s : ~IsHex(c.v.s[k])
      [] c.m \in {"alloc", "concat"} -> BadIndex(c.i)
      [] c.m = "fromBuffer" -> BadIndex(c.j)
      [] c.m = "fromObject" ->
           \E o \in {c.obj} \cup {c.obj.inner[k] : k \in DOMAIN c.obj.inner} :
              BadIndex(o.length)
      [] OTHER -> FALSE

-----------------------------------------------------------------------------
(* What the methods mean, without their loops.                             *)

(* Only the bytes from..to of the memory may have changed. *)
Within(mem, r, from, to) ==
    \A i \in DOMAIN mem : i \notin (from + 1)..to => r.mem[i] = mem[i]

(* The value of bytes, lowest first, with its sign. *)
Value(bytes, sign) ==
    Load(bytes) - (IF sign /\ bytes[Len(bytes)] >= Byte \div 2
                   THEN Byte^Len(bytes) ELSE 0)

Order(little, bytes) == IF little THEN bytes ELSE Rev(bytes)

(* a comes before b in the order of bytes. *)
Before(a, b) ==
    \E k \in 0..Len(a) :
       /\ k <= Len(b) /\ SubSeq(a, 1, k) = SubSeq(b, 1, k)
       /\ IF k < Len(a) THEN k < Len(b) /\ a[k + 1] < b[k + 1] ELSE k < Len(b)

Overlap(a, b) == a.off < b.off + b.len /\ b.off < a.off + a.len

(* Digits of the given width are the bits of one number, highest first;    *)
(* these are its bytes, without the bits that do not fill one.             *)
Regroup(digits, width) ==
    LET total == Len(digits) * width
        number[k \in 0..Len(digits)] ==
          IF k = 0 THEN 0 ELSE number[k - 1] * 2^width + digits[k]
    IN  [k \in 1..(total \div ByteBits) |->
           (number[Len(digits)] \div 2^(total - k * ByteBits)) % Byte]

(* What a text stands for; it ends at the first character that is no       *)
(* digit.                                                                  *)
TextBytes(s, enc) ==
    CASE enc = "utf8" -> Utf8(s)
      [] enc = "hex" -> Regroup(DigitsPrefix(s, HexChars), ByteBits \div 2)
      [] OTHER -> Regroup(DigitsPrefix(s, Chars64), DigitBits)

(* The bytes of a value that is looked for or filled in. *)
ValueBytes(mem, c) ==
    CASE c.v.t = "num" -> <<c.v.n % Byte>>
      [] c.v.t = "view" -> Bytes(mem, c.v.w)
      [] OTHER -> TextBytes(c.v.s, c.enc)

(* k bytes of a pattern that begins again; of zeros, if it is empty. *)
Repeated(bytes, k) ==
    [i \in 1..k |-> IF bytes = <<>> THEN 0 ELSE bytes[1 + ((i - 1) % Len(bytes))]]

Cut(bytes, len) == [k \in 1..len |-> IF k \in DOMAIN bytes THEN bytes[k] ELSE 0]

(* The bytes at..at + size belong to the view. *)
Inside(this, at, size) ==
    size > 0 /\ at >= this.off /\ at + size <= this.off + this.len

CompareMeans(mem, c, r) ==
    LET a == SubSeq(mem, c.this.off + OrElse(c.k, 0) + 1,
                    c.this.off + Most(OrElse(c.k, 0), OrElse(c.l, c.this.len)))
        b == SubSeq(mem, c.w.off + OrElse(c.i, 0) + 1,
                    c.w.off + Most(OrElse(c.i, 0), OrElse(c.j, c.w.len)))
    IN  r.ret = <<IF a = b THEN 0 ELSE IF Before(a, b) THEN -1 ELSE 1>>

CopyMeans(mem, c, r) ==
    LET to == c.w.off + OrElse(c.i, 0)
        from == c.this.off + OrElse(c.j, 0)
        size == Least(c.w.len - OrElse(c.i, 0),
                      Most(0, OrElse(c.k, c.this.len) - OrElse(c.j, 0)))
    IN  /\ r.ret = <<size>> /\ Within(mem, r, to, to + size)
        /\ \A k \in 1..size : r.mem[to + k] = mem[from + k]

FillMeans(mem, c, r) ==
    LET early == c.v.t = "str" /\ c.encAt < 3
        from == c.this.off + (IF early /\ c.encAt = 1 THEN 0 ELSE OrElse(c.i, 0))
        to == c.this.off + (IF early THEN c.this.len ELSE OrElse(c.j, c.this.len))
    IN  /\ Within(mem, r, from, Most(from, to))
        /\ \/ c.v.t = "view" /\ Overlap(c.v.w, c.this)
           \/ SubSeq(r.mem, from + 1, to) =
                 Repeated(ValueBytes(mem, c), Most(0, to - from))

(* Characters are written whole, as many as fit, or else bytes. *)
WriteMeans(mem, c, r) ==
    LET from == c.this.off + (IF c.encAt = 1 THEN 0 ELSE OrElse(c.i, 0))
        room == Least(c.this.off + c.this.len - from,
                      IF c.encAt < 3 THEN c.this.len ELSE OrElse(c.j, c.this.len))
        bytes == TextBytes(c.v.s, c.enc)
    IN  /\ Within(mem, r, from, from + r.ret[1])
        /\ SubSeq(r.mem, from + 1, from + r.ret[1]) = Take(bytes, r.ret[1])
        /\ r.ret[1] <= room
        /\ IF c.enc # "utf8" THEN r.ret[1] = Least(room, Len(bytes))
           ELSE \E k \in 0..Len(c.v.s) :
                   /\ Len(Utf8(SubSeq(c.v.s, 1, k))) = r.ret[1]
                   /\ k < Len(c.v.s) =>
                        Len(Utf8(SubSeq(c.v.s, 1, k + 1))) > room

(* Text decodes to the bytes it was made of. *)
TextMeans(mem, c, r) ==
    LET from == Least(OrElse(c.i, 0), c.this.len)
        to == Least(OrElse(c.j, c.this.len), c.this.len)
        part == SubSeq(mem, c.this.off + from + 1, c.this.off + to)
    IN  IF c.enc = "utf8" THEN r.ret = part
        ELSE /\ TextBytes(r.ret, c.enc) = part
             /\ c.enc = "base64" => Len(r.ret) % 4 = 0

(* The nearest occurrence; an empty pattern occurs everywhere, behind the  *)
(* last byte too.                                                          *)
IndexMeans(mem, c, r) ==
    LET last == c.m = "lastIndexOf"
        len == c.this.len
        unset == ~Given(c.i) \/ (c.v.t = "str" /\ c.encAt = 1)
        from == IF unset THEN (IF last THEN Most(0, len - 1) ELSE 0)
                ELSE IF c.i < 0 THEN Most(0, len + c.i) ELSE Least(c.i, len)
        hits == {i \in Hits(mem, c.this, ValueBytes(mem, c)) :
                    IF last THEN i <= from ELSE i >= from}
    IN  IF c.m = "includes" THEN r.ret = <<hits # {}>>
        ELSE IF hits = {} THEN r.ret = <<-1>>
        ELSE /\ r.ret[1] \in hits
             /\ \A i \in hits : IF last THEN i <= r.ret[1] ELSE i >= r.ret[1]

(* What is read are bytes of the view, and what is written reads back.  A  *)
(* floating point number x is its bytes, highest first.                    *)
NumberMeans(mem, c, r, x) ==
    LET at == c.this.off + OrElse(c.i, 0)
        bytes == Order(c.little, SubSeq(r.mem, at + 1, at + c.size))
        done == OrElse(c.i, 0) + c.size
    IN  /\ Inside(c.this, at, c.size) /\ Within(mem, r, at, at + c.size)
        /\ CASE c.m = "readInt" -> r.ret = <<Value(bytes, c.sign)>>
             [] c.m = "writeInt" -> c.x = Value(bytes, c.sign) /\ r.ret = <<done>>
             [] c.m = "readFloat" -> r.ret = Rev(bytes)
             [] c.m = "writeFloat" -> x = Rev(bytes) /\ r.ret = <<done>>

SwapMeans(mem, c, r) ==
    /\ Within(mem, r, c.this.off, c.this.off + c.this.len)
    /\ \A g \in 0..(c.this.len \div c.size - 1) :
          LET at == c.this.off + g * c.size
          IN  Load(SubSeq(r.mem, at + 1, at + c.size))
                = Load(Rev(SubSeq(mem, at + 1, at + c.size)))

(* White space does not count, and padding makes the length a multiple of  *)
(* four.                                                                   *)
AtobMeans(c, r) ==
    LET text == SelectSeq(c.v.s, LAMBDA x : x # Space)
        digits == DigitsPrefix(text, Chars64)
        pads == Len(text) - Len(digits)
        good == /\ \A k \in (Len(digits) + 1)..Len(text) : text[k] = Pad
                /\ pads <= 2 /\ Len(text) % 4 # 1
                /\ pads > 0 => Len(text) % 4 = 0
    IN  r.threw = ~good /\ (good => r.ret = Regroup(digits, DigitBits))

BtoaMeans(c, r) ==
    IF \E k \in DOMAIN c.v.s : c.v.s[k] >= Byte THEN r.threw
    ELSE ~r.threw /\ Len(r.ret) % 4 = 0 /\ TextBytes(r.ret, "base64") = c.v.s

(* An object that holds bytes: itself, or what is in it. *)
FromObjectMeans(c, r) ==
    LET o == IF Given(c.obj.length) THEN c.obj ELSE c.obj.inner[1]
    IN  r.ret = Cut([k \in DOMAIN o.elems |-> o.elems[k] % Byte], Most(0, o.length))

Writers == {"copy", "fill", "write", "writeInt", "writeFloat", "swap"}

Means(mem, c, r) ==
    CASE c.m = "atob" -> AtobMeans(c, r)
      [] c.m = "btoa" -> BtoaMeans(c, r)
      [] c.m \notin {"atob", "btoa"} /\ r.threw -> r.mem = mem
      [] OTHER ->
           /\ c.m \notin Writers => r.mem = mem
           /\ CASE c.m = "compare" -> CompareMeans(mem, c, r)
                [] c.m = "equals" ->
                     r.ret = <<Bytes(mem, c.this) = Bytes(mem, c.w)>>
                [] c.m = "copy" -> CopyMeans(mem, c, r)
                [] c.m = "concat" ->
                     LET all == Bytes(mem, c.list[1]) \o Bytes(mem, c.list[2])
                     IN  r.ret = Cut(all, OrElse(c.i, Len(all)) % Word32)
                [] c.m = "fill" -> FillMeans(mem, c, r)
                [] c.m = "alloc" ->
                     r.ret = Repeated(ValueBytes(mem, c), c.i % Word32)
                [] c.m = "write" -> WriteMeans(mem, c, r)
                [] c.m = "toString" -> TextMeans(mem, c, r)
                [] c.m = "toJSON" -> r.ret = Bytes(mem, c.this)
                [] c.m \in {"indexOf", "lastIndexOf", "includes"} ->
                     IndexMeans(mem, c, r)
                [] c.m \in {"readInt", "writeInt", "readFloat", "writeFloat"} ->
                     NumberMeans(mem, c, r, [k \in 1..c.size |-> k])
                [] c.m = "swap" -> SwapMeans(mem, c, r)
                [] c.m = "fromTyped" ->
                     r.ret = [k \in 1..(c.this.len \div c.size) |->
                                mem[c.this.off + (k - 1) * c.size + 1]]
                [] c.m = "fromBuffer" ->
                     LET off == OrElse(c.i, 0)
                     IN  /\ r.ret = <<off, Most(0, OrElse(c.j, Len(mem) - off))>>
                         /\ off >= 0 /\ off + r.ret[2] <= Len(mem)
                [] c.m = "fromObject" -> FromObjectMeans(c, r)
                [] c.m = "fromString" -> r.ret = TextBytes(c.v.s, c.enc)
                [] c.m = "byteLength" ->
                     \/ EnginesDiffer(c)
                     \/ r.ret = <<IF c.v.t = "view" THEN c.v.w.len
                                  ELSE Len(TextBytes(c.v.s, c.enc))>>

-----------------------------------------------------------------------------
(* A script with one buffer call, run by both engines on the same memory.  *)

CONSTANTS Mems, Views, Indexes, Texts, Numbers, Objects

VARIABLE buffer

BufferIdle == [mem |-> <<>>, calls |-> <<>>, njs |-> Gives(<<>>, <<>>),
               qjs |-> Gives(<<>>, <<>>)]

NoView == [off |-> 0, len |-> 0]
NoValue == [t |-> "none", n |-> 0, s |-> <<>>, w |-> NoView]
OfNumber(n) == [NoValue EXCEPT !.t = "num", !.n = n]
OfText(s) == [NoValue EXCEPT !.t = "str", !.s = s]
OfView(w) == [NoValue EXCEPT !.t = "view", !.w = w]
Values == {OfNumber(n) : n \in {-1, 2, Byte + 1}}
            \cup {OfText(s) : s \in Texts} \cup {OfView(w) : w \in Views}
NoObject == [type |-> "", length |-> Undef, elems |-> <<>>, inner |-> <<>>]
Whole64 == {"utf8", "hex", "base64", "bad"}

(* A call of the method m with no arguments. *)
NoArguments ==
    [m |-> "", this |-> NoView, w |-> NoView, v |-> NoValue, i |-> Undef,
     j |-> Undef, k |-> Undef, l |-> Undef, enc |-> "utf8", encAt |-> 3,
     x |-> 0, size |-> 1, sign |-> FALSE, little |-> FALSE, list |-> <<>>,
     obj |-> NoObject]
Plain(m, this) == [NoArguments EXCEPT !.m = m, !.this = this]

BufferInit ==
    \E mem \in Mems : buffer = [BufferIdle EXCEPT !.mem = mem]

BufferDo(c) ==
    buffer' = [buffer EXCEPT !.calls = <<c>>, !.njs = Njs(buffer.mem, c),
                             !.qjs = Qjs(buffer.mem, c)]

BufferCompare ==
    \E m \in {"compare", "copy", "equals"}, this, w \in Views,
       i, j \in Indexes, k \in {Undef, -1, 1, 4}, l \in {Undef, -1, 3} :
       BufferDo([Plain(m, this) EXCEPT !.w = w, !.i = i, !.j = j, !.k = k,
                                       !.l = l])

BufferFill ==
    \E v \in Values, i, j \in Indexes, enc \in Whole64, encAt \in 1..3 :
       BufferDo([Plain("fill", [off |-> 1, len |-> 5]) EXCEPT
                    !.v = v, !.i = i, !.j = j, !.enc = enc, !.encAt = encAt])

BufferWrite ==
    \E s \in Texts, i, j \in Indexes, enc \in Whole64, encAt \in 1..3 :
       BufferDo([Plain("write", [off |-> 1, len |-> 5]) EXCEPT
                    !.v = OfText(s), !.i = i, !.j = j, !.enc = enc,
                    !.encAt = encAt])

BufferText ==
    \E m \in {"toString", "toJSON"}, this \in Views, i, j \in Indexes,
       enc \in Encodings \cup {"bad"} :
       BufferDo([Plain(m, this) EXCEPT !.i = i, !.j = j, !.enc = enc])

BufferIndex ==
    \E m \in {"indexOf", "lastIndexOf", "includes"}, this \in Views,
       v \in Values, i \in Indexes \cup {-3}, enc \in {"utf8", "hex", "bad"},
       encAt \in {1, 3} :
       BufferDo([Plain(m, this) EXCEPT !.v = v, !.i = i, !.enc = enc,
                                       !.encAt = encAt])

BufferInteger ==
    \E this \in Views, i \in Indexes, size \in 0..7, sign, little \in BOOLEAN :
       \/ BufferDo([Plain("readInt", this) EXCEPT
                       !.i = i, !.size = size, !.sign = sign,
                       !.little = little])
       \/ \E x \in Numbers :
             BufferDo([Plain("writeInt", this) EXCEPT
                          !.i = i, !.size = size, !.sign = sign,
                          !.little = little, !.x = x])

BufferFloat ==
    \E m \in {"readFloat", "writeFloat"}, this \in Views, i \in Indexes,
       size \in {4, 8}, little \in BOOLEAN :
       BufferDo([Plain(m, this) EXCEPT !.i = i, !.size = size,
                                       !.little = little])

BufferSwap ==
    \E this \in {[off |-> 1, len |-> 4], [off |-> 1, len |-> 6], NoView},
       size \in {2, 4, 8} :
       BufferDo([Plain("swap", this) EXCEPT !.size = size])

BufferNew ==
    \/ \E v \in Values \cup {NoValue}, i \in {-1, 2 - Word32, 0, 1, 4},
          enc \in Whole64 :
          BufferDo([Plain("alloc", NoView) EXCEPT
                       !.v = v, !.i = i, !.enc = enc])
    \/ \E a, b \in Views, i \in {Undef, -1, 3 - Word32, 0, 4, 7} :
          BufferDo([Plain("concat", NoView) EXCEPT
                       !.list = <<a, b>>, !.i = i])
    \/ \E this \in {[off |-> 2, len |-> 4], [off |-> 0, len |-> 6]},
          size \in {1, 2} :
          BufferDo([Plain("fromTyped", this) EXCEPT !.size = size])
    \/ \E i \in Indexes \cup {7, 8}, j \in Indexes :
          BufferDo([Plain("fromBuffer", NoView) EXCEPT !.i = i, !.j = j])
    \/ \E obj \in Objects :
          BufferDo([Plain("fromObject", NoView) EXCEPT !.obj = obj])

BufferString ==
    \/ \E s \in Texts, enc \in Encodings :
          BufferDo([Plain("fromString", NoView) EXCEPT
                       !.v = OfText(s), !.enc = enc])
    \/ \E v \in Values, enc \in Whole64 :
          BufferDo([Plain("byteLength", NoView) EXCEPT !.v = v, !.enc = enc])
    \/ \E m \in {"btoa", "atob"}, s \in Texts :
          BufferDo([Plain(m, NoView) EXCEPT !.v = OfText(s)])

BufferNext ==
    /\ buffer.calls = <<>> /\ buffer.mem # <<>>
    /\ \/ BufferCompare \/ BufferFill \/ BufferWrite \/ BufferText
       \/ BufferIndex \/ BufferInteger \/ BufferFloat \/ BufferSwap
       \/ BufferNew \/ BufferString

(* A script gets the same from a buffer in both engines: the same result,  *)
(* the same bytes in memory, or an exception from both (njs_buffer.c and   *)
(* qjs_buffer.c are two copies of one API).                                *)
BufferEngines ==
    \A i \in DOMAIN buffer.calls :
       EnginesDiffer(buffer.calls[i]) \/ buffer.njs = buffer.qjs

(* What a method returns and writes is what it is for, in terms of bytes   *)
(* and of the bits of texts and numbers, without the loops of              *)
(* njs_buffer.c and qjs_buffer.c: no other byte changes, none when it      *)
(* throws; copies that overlap are those of the old bytes; what was        *)
(* encoded or written reads back; searches find the nearest occurrence.    *)
(* Of a fill() with bytes of the same memory only the range is stated, and *)
(* of byteLength() of a text in hexadecimal nothing that has other         *)
(* characters in it; that a call throws is stated for btoa() and atob().   *)
BufferMeaning ==
    \A i \in DOMAIN buffer.calls :
       /\ Means(buffer.mem, buffer.calls[i], buffer.njs)
       /\ Means(buffer.mem, buffer.calls[i], buffer.qjs)
=============================================================================
