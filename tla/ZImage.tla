------------------------------- MODULE ZImage -------------------------------
(***************************************************************************)
(* ZImage::parse, new_head and new_tail (boot/zimage.rs): the payload of a *)
(* 32-bit ARM zImage is exchanged for one of another length, and the words *)
(* of the head and of the tail that hold addresses behind the payload are  *)
(* found by heuristics and shifted.                                        *)
(*                                                                         *)
(* A kernel is given by its shape: what each word of the head and of the   *)
(* tail refers to.  An image has the values of those words.  It is well    *)
(* formed if they are the addresses of what they refer to, as the linker   *)
(* left them; the question is whether they still are after a repack.       *)
(* Addresses and deltas are integers: the additions of the code that wrap  *)
(* are the ones of a negative delta.                                       *)
(***************************************************************************)
EXTENDS Integers, Sequences, SequencesExt, FiniteSetsExt

CONSTANTS Shapes,     \* kernels: [start, head, words, tail, table, loads, adds]
          Payloads,   \* lengths of payloads, with the size word if there is one
          MaxRepacks  \* bound on repacks

\* A word of the tail that refers to the end of the payload is input_data_end
\* itself; _got_start, which may be at the same address, is in no word.  What is
\* no address is a small number.
TailRef(s, ref) ==
    /\ ref.off \in Int
    /\ \/ ref.base = "end" /\ ref.off = 0
       \/ ref.base = "tail" /\ ref.off > 0
       \/ ref.base = "head" /\ ref.off <= s.head
       \/ ref.base = "const" /\ ref.off <= s.start + s.head

ASSUME ShapesAssumption ==
    \A s \in Shapes :
        /\ s.start \in Nat /\ s.head \in Nat
        /\ Len(s.tail) \in Nat
        /\ \A i \in 1..Len(s.tail) : TailRef(s, s.tail[i])

\* A payload is more than its size word.
ASSUME PayloadsAssumption == \A p \in Payloads : p \in Nat /\ p > 4

VARIABLES shape, piggy,  \* the kernel and the length of its payload
          head,          \* value of the words of the head, by offset
          tail,          \* value of the words from _got_start on
          repacks

vars == <<shape, piggy, head, tail, repacks>>

END_OFF == 44          \* 0x2C, zimage_hdr.end

align4(v) == ((v + 3) \div 4) * 4

-----------------------------------------------------------------------------
(* What the words refer to. *)

\* Addresses of input_data_end and of _got_start, for a payload of p bytes.
PiggyEnd(s, p) == s.start + s.head + p
GotStart(s, p) == align4(PiggyEnd(s, p))

\* A reference is to a place in the head, at the end of the payload or in the
\* tail, or is just a number.
Address(s, p, ref) ==
    CASE ref.base = "head"  -> s.start + ref.off
      [] ref.base = "end"   -> PiggyEnd(s, p) + ref.off
      [] ref.base = "tail"  -> GotStart(s, p) + ref.off
      [] ref.base = "const" -> ref.off

\* A word of the head may be relative to a place (itself, its table or an
\* instruction).
HeadWord(s, p, off) ==
    LET w == s.words[off]
    IN  Address(s, p, w.ref) - (IF w.rel THEN s.start + w.at ELSE 0)

TailWord(s, p, i) == Address(s, p, s.tail[i])

\* The tail as the linker makes it.
LinkedTail(s, p) == [i \in 1..Len(s.tail) |-> TailWord(s, p, i)]

WellFormed ==
    /\ head = [off \in DOMAIN shape.words |-> HeadWord(shape, piggy, off)]
    /\ tail = LinkedTail(shape, piggy)

-----------------------------------------------------------------------------
(* parse_impl *)

ImageLen(s, p) == GotStart(s, p) - s.start + 4 * Len(s.tail)

HeadAt(off) == IF off \in DOMAIN head THEN head[off] ELSE 0
\* read_u32(zimg, off) in the tail.
TailAt(off) ==
    LET d == off + shape.start - GotStart(shape, piggy)
    IN  IF d >= 0 /\ d % 4 = 0 /\ d \div 4 < Len(tail) THEN tail[d \div 4 + 1] ELSE 0

FirstOff(S) == IF S = {} THEN 0 ELSE Min(S)
LastOff(n) == {off \in DOMAIN head : 32 <= off /\ off <= shape.head - n}

\* "Scan for the LC0 position table".
off_lc0 ==
    FirstOff({off \in LastOff(32) : /\ head[off] = off + shape.start
                                    /\ HeadAt(off + 4) >= shape.head
                                    /\ HeadAt(off + 8) >= HeadAt(off + 4)})

\* The bounds of the GOT in LC0, or zeros.
GotBounds ==
    LET lc0 == off_lc0
        e(i) == HeadAt(lc0 + 4 * i)
        at == {i \in {4, 5} : e(i) <= e(i + 1) /\ e(i + 1) <= e(1) /\ e(i) > shape.start}
    IN  IF lc0 = 0 \/ at = {} THEN <<0, 0>> ELSE [j \in 1..2 |-> e(Max(at) + j - 1)]

total_zimage_sz ==
    LET n == head[END_OFF] - shape.start
        len == ImageLen(shape, piggy)
    IN  IF n > 0 /\ n <= len THEN n ELSE len

is_valid_piggy_end(candidate_end) ==
    /\ candidate_end > shape.head + 4
    /\ candidate_end <= ImageLen(shape, piggy)
    /\ GotBounds[1] # 0 => align4(candidate_end) = GotBounds[1] - shape.start

\* Strategy 4.1: TagKernelSize.
FromTable ==
    LET c == HeadAt(shape.table) - shape.start + 4
    IN  IF shape.table # 0 /\ is_valid_piggy_end(c) THEN c ELSE 0

\* The first of the words at the offsets offs that points into the image, no
\* more than window bytes from its end.
Scan_NoStart(offs, window) ==
    LET total == total_zimage_sz
        min == IF total > window THEN total - window ELSE shape.head
        v(i) == TailAt(offs[i])
        hits == {i \in 1..Len(offs) : v(i) > min /\ v(i) < total}
    IN  IF hits = {} THEN 0 ELSE v(Min(hits))
Scan(offs, window) ==
    LET total == total_zimage_sz
        min == IF total > window THEN total - window ELSE shape.head
        v(i) == TailAt(offs[i]) - shape.start
        hits == {i \in 1..Len(offs) : v(i) > min /\ v(i) < total}
    IN  IF hits = {} THEN 0 ELSE v(Min(hits))

\* Strategy 4.2: input_data_end in the GOT.
FromGot ==
    LET got == GotBounds
        g == got[1] - shape.start
        e == got[2] - shape.start
        last == Min({e, total_zimage_sz - 4})
    IN  IF got[1] # 0 /\ g >= shape.head /\ e <= total_zimage_sz /\ g <= e
        THEN Scan([i \in 1..((last - g) \div 4 + 1) |-> g + 4 * (i - 1)], 512) ELSE 0

\* Strategy 4.3: input_data_end in the last 16 words.
FromTail ==
    IF total_zimage_sz > 64 THEN Scan([i \in 1..16 |-> total_zimage_sz - 4 * i], 255) ELSE 0

\* The end of the payload, or 0: "keeping raw kernel".  The end of the image is
\* the mark for not found, also if it comes from .table.
piggy_end ==
    LET c == IF FromTable \notin {0, ImageLen(shape, piggy)} THEN FromTable
             ELSE IF FromGot # 0 THEN FromGot ELSE FromTail
    IN  IF c <= shape.head THEN 0 ELSE c

off_table == IF FromTable # 0 THEN shape.table ELSE 0
off_inflated_size ==
    LET end == piggy_end IN FirstOff({off \in LastOff(4) : off + head[off] + 4 = end})
off_lc1 ==
    FirstOff({off \in LastOff(8) : HeadAt(off + 4) + off + shape.start = head[END_OFF]})

-----------------------------------------------------------------------------
(* new_head and new_tail, for the payload that parse found to end at pe. *)

DeltaGot(s, pe, sz) == GotStart(s, sz) - align4(s.start + pe)

\* Step 4: an entry of LC0.
NewLc0Entry(s, pe, sz, val) ==
    IF val = s.start + pe - 4 THEN PiggyEnd(s, sz) - 4
    ELSE IF val >= s.head + s.start THEN val + DeltaGot(s, pe, sz) ELSE val

\* The words at the offsets base + i, if base is not 0, "no such word".
Group(base, is) == {base + i : i \in IF base = 0 THEN {} ELSE is}

\* Steps 2 to 6, one after the other.
NewTables(pe, sz) ==
    LET delta == DeltaGot(shape, pe, sz)
        steps == <<{END_OFF}, Group(off_inflated_size, {0}), Group(off_lc0, {4 * i : i \in 1..7}),
                   Group(off_lc1, {0, 4}), Group(off_table, {0})>>
        Patch(h, i) == [off \in DOMAIN h |->
                           CASE off \notin steps[i] -> h[off]
                             [] off \in steps[i] /\ i = 3 -> NewLc0Entry(shape, pe, sz, h[off])
                             [] off \in steps[i] /\ i # 3 -> h[off] + delta]
    IN  FoldLeft(Patch, head, <<1, 2, 3, 4, 5>>)

\* Step 7: for every add rY, pc, rX, each ldr rX, [pc, #imm] in the 128 bytes
\* before it, in order.
LiteralUses ==
    LET a == shape.adds
        l == shape.loads
        pairs == {u \in (DOMAIN a) \X (DOMAIN l) :
                    /\ l[u[2]].reg = a[u[1]].reg
                    /\ a[u[1]].at - 128 <= l[u[2]].at /\ l[u[2]].at < a[u[1]].at}
    IN  SetToSortSeq(pairs, LAMBDA x, y : x[1] < y[1] \/ (x[1] = y[1] /\ x[2] < y[2]))
PatchLiteral_NoPc(h, add, lit, delta) ==
    LET target == h[lit] + shape.start
    IN  IF GotBounds[1] - 32 <= target /\ target <= GotBounds[2] + 32
        THEN [h EXCEPT ![lit] = @ + delta] ELSE h
PatchLiteral(h, add, lit, delta) ==
    LET target == add + 8 + h[lit] + shape.start
    IN  IF GotBounds[1] - 32 <= target /\ target <= GotBounds[2] + 32
        THEN [h EXCEPT ![lit] = @ + delta] ELSE h
PatchLiterals(h, delta) ==
    IF GotBounds[1] = 0 \/ GotBounds[2] = 0 THEN h
    ELSE FoldLeft(LAMBDA g, u : PatchLiteral(g, shape.adds[u[1]].at, shape.loads[u[2]].lit, delta),
                  h, LiteralUses)

new_head(pe, sz) ==
    IF sz = pe - shape.head THEN head
    ELSE PatchLiterals(NewTables(pe, sz), DeltaGot(shape, pe, sz))

\* Step 2 of new_tail: a word of the tail.
NewTailWord_NoEnd(s, pe, sz, val) ==
    IF val >= align4(s.start + pe) - 4 THEN val + DeltaGot(s, pe, sz) ELSE val
NewTailWord(s, pe, sz, val) ==
    IF val = s.start + pe THEN PiggyEnd(s, sz)
    ELSE IF val >= align4(s.start + pe) - 4 THEN val + DeltaGot(s, pe, sz) ELSE val

\* The words from the aligned end of the payload on; UNKNOWN stands for words of
\* the old payload, if that is not where the GOT starts.
UNKNOWN == -1
OldTail(pe) ==
    LET k == (align4(shape.start + pe) - GotStart(shape, piggy)) \div 4
    IN  IF k = 0 THEN tail
        ELSE IF k > 0 THEN SubSeq(tail, k + 1, Len(tail))
        ELSE [i \in 1..(-k) |-> UNKNOWN] \o tail

Relocated(s, lc0, t, pe, sz) ==
    IF sz = pe - s.head \/ lc0 = 0 THEN t
    ELSE [i \in 1..Len(t) |-> NewTailWord(s, pe, sz, t[i])]

new_tail(pe, sz) == Relocated(shape, off_lc0, OldTail(pe), pe, sz)

-----------------------------------------------------------------------------

Init ==
    /\ shape \in Shapes
    /\ piggy \in Payloads
    /\ WellFormed
    /\ repacks = 0

\* parse, and repack's use of new_tail and new_head.
Repack(sz) ==
    /\ repacks < MaxRepacks
    /\ \E end \in {piggy_end} \ {0} :
           head' = new_head(end, sz) /\ tail' = new_tail(end, sz)
    /\ piggy' = sz
    /\ repacks' = repacks + 1
    /\ UNCHANGED shape

Next == \E sz \in Payloads : Repack(sz)

Spec == Init /\ [][Next]_vars

-----------------------------------------------------------------------------
(* Properties. *)

\* parse found the end of the payload and LC0.
Found == piggy_end = shape.head + piggy /\ off_lc0 # 0

\* Words of the head by what they are for: the ones that locate the size word at
\* the end of the payload by an offset, and the literals.
SizeWordOffsets == {off \in DOMAIN shape.words : shape.words[off].use = "size"}
Literals == {off \in DOMAIN shape.words : shape.words[off].use = "literal"}

Follows(off) == head[off] = HeadWord(shape, piggy, off)

\* The values of the variables; parse finds no end of the payload behind the image.
TypeOK ==
    /\ shape \in Shapes /\ piggy \in Payloads /\ repacks \in 0..MaxRepacks
    /\ head \in [DOMAIN shape.words -> Int]
    /\ tail \in Seq(Int)
    /\ piggy_end \in 0..ImageLen(shape, piggy)

\* The heuristics of parse find exactly the payload of an image as the linker
\* leaves it, by .table, GOT or tail, and of no image an end behind the image.
ParseFindsPayload == TypeOK /\ (WellFormed => Found)

\* Repacking an image whose payload was found moves every address that the head
\* has, in LC0, LC1 and zimage_hdr.end, to where the thing has gone; words that
\* are no such addresses stay.  The first repack also moves the literals: "These
\* literal offsets must be adjusted by + delta_got", so that code that loads the
\* address of the GOT gets its new one.
TablesFollow ==
    [][WellFormed /\ Found =>
        \A off \in DOMAIN head \ SizeWordOffsets :
            (off \in Literals => repacks' = 1) => Follows(off)']_vars

\* The same of the words of the GOT.
GotFollows ==
    [][WellFormed /\ Found => tail' = LinkedTail(shape, piggy')]_vars

=============================================================================
