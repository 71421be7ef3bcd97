------------------------------ MODULE MCZImage ------------------------------
(***************************************************************************)
(* Shapes of kernels: with the size word in LC0 and a GOT that names the   *)
(* end of the payload; with the GOT second in LC0, LC1 and an offset to    *)
(* the size word; with a .table; with input_data_end only in the tail.     *)
(***************************************************************************)
EXTENDS ZImage, TLC

Ref(base, off) == [base |-> base, off |-> off]
Abs(base, off) == [ref |-> Ref(base, off), rel |-> FALSE, at |-> 0, use |-> "address"]
Rel(base, off, at, use) == [ref |-> Ref(base, off), rel |-> TRUE, at |-> at, use |-> use]
Num(n) == Abs("const", n)

HEAD == 1024
INSN == 1000000000    \* an instruction, as a number

Words(seq, at) == [off \in {at + 4 * (i - 1) : i \in 1..Len(seq)} |-> seq[(off - at) \div 4 + 1]]

\* The tail: the GOT, then n words more.
Tail16(end) == <<Ref("tail", 120), end, Ref("head", 64), Ref("tail", 200), Ref("const", 0), Ref("head", HEAD)>>
               \o [i \in 1..14 |-> Ref("const", 0)]
Edata == 80
Bss == 80
Literal(add) == Rel("tail", 8, add + 8, "literal")

Header == 44 :> Abs("tail", Edata)
\* _start, __bss_start, _end, _edata, input_data_end - 4, _got_start, _got_end, stack
Lc0Old == Words(<<Abs("head", 256), Abs("tail", Bss), Abs("tail", 4096), Abs("tail", Edata), Abs("end", -4),
                  Abs("tail", 0), Abs("tail", 20), Abs("tail", 4000)>>, 256)
\* The same without the size word: the GOT is a word earlier, and code follows.
Lc0New == Words(<<Abs("head", 256), Abs("tail", Bss), Abs("tail", 4096), Abs("tail", Edata),
                  Abs("tail", 0), Abs("tail", 20), Abs("tail", 4000), Num(0)>>, 256)
Lc1 == Words(<<Rel("tail", 4000, 320, "address"), Rel("tail", Edata, 320, "address")>>, 320)
Code == Words(<<Num(INSN)>>, 352)

Shape(start, words, tl, table, loads, adds) ==
    [start |-> start, head |-> HEAD, words |-> words, tail |-> tl, table |-> table,
     loads |-> loads, adds |-> adds]

Ldr(at, reg, lit) == [at |-> at, reg |-> reg, lit |-> lit]
Add(at, reg) == [at |-> at, reg |-> reg]

\* Two functions that load the address of the GOT, far from each other.
Far == [lits |-> (608 :> Literal(516)) @@ (808 :> Literal(716)),
        loads |-> <<Ldr(512, 3, 608), Ldr(712, 3, 808)>>, adds |-> <<Add(516, 3), Add(716, 3)>>]

End == Ref("end", 0)
Old(start, c) == Shape(start, Header @@ Lc0Old @@ Code @@ c.lits, Tail16(End), 0, c.loads, c.adds)
New(start, c) == Shape(start, Header @@ Lc0New @@ Lc1 @@ Code @@ c.lits @@ (340 :> Rel("end", -4, 340, "size")),
                        Tail16(End), 0, c.loads, c.adds)
Tagged(start, c) == Shape(start, Header @@ Lc0New @@ Lc1 @@ Code @@ c.lits
                                  @@ (400 :> [Abs("end", -4) EXCEPT !.use = "size"]),
                           Tail16(End), 400, c.loads, c.adds)
\* No GOT bounds in LC0; input_data_end is found from the end of the image.
NoBounds(start) ==
    Shape(start, Header @@ Words(<<Abs("head", 256), Abs("tail", Bss), Abs("tail", 4096), Num(0), Num(0), Num(0),
                                    Num(0), Num(0)>>, 256) @@ Code,
           [i \in 1..20 |-> IF i = 17 THEN End ELSE Ref("const", 0)], 0, <<>>, <<>>)

MCShapes == {f : f \in {Old(0, Far), Old(4096, Far), New(0, Far), Tagged(0, Far), NoBounds(0)}}

\* Every alignment of the end, a little and a lot shorter and longer.
MCPayloads == (2000..2008) \cup {1021, 1500, 3003, 5002}
=============================================================================
