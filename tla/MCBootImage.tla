----------------------------- MODULE MCBootImage -----------------------------
(***************************************************************************)
(* Boot images of each kind that the parser tells apart, and files to put  *)
(* into them whose lengths round to other numbers of pages.                *)
(***************************************************************************)
EXTENDS BootImage

MCRawLen == [kernel |-> 5, kernel2 |-> 2, rd |-> 3, rd2 |-> 8, rd_a |-> 2, second |-> 2, extra |-> 3,
             rdtbo |-> 4, dtb |-> 3, dtb2 |-> 5, kdtb |-> 1, kdtb2 |-> 4, bc |-> 1]

\* The image with the given blocks, laid out page by page, then the tail, then
\* vbmeta and a footer at the end of size bytes.
Build(pre, ver, blocks, tail, avb, size) ==
    LET base == IF pre = "none" THEN 0 ELSE PRE_SZ
        items(b) == IF b \in DOMAIN blocks THEN blocks[b] ELSE <<>>
        put(w, is) == FoldLeft(LAMBDA v, i : [pos |-> v.pos + ItemLen(i), at |-> v.at @@ (v.pos :> i)],
                               w, is)
        block(w, b) == LET v == put(w, items(b))
                       IN  [v EXCEPT !.pos = base + ((@ - base + PAGE - 1) \div PAGE) * PAGE]
        w1 == FoldLeft(block, [pos |-> base + (IF ver \in {"vnd3", "vnd4"} THEN 2 * PAGE ELSE PAGE),
                               at |-> IF pre = "none" THEN Empty ELSE 0 :> [k |-> "pre", size |-> 0]],
                       BLOCKS)
        w2 == put(w1, IF tail = "avb1" THEN <<[k |-> "avb1", end |-> w1.pos]>>
                      ELSE IF tail = "none" THEN <<>>
                      ELSE <<[k |-> "magic", id |-> tail]>>
                           \o (IF pre = "dhtb" THEN <<[k |-> "dhtb"]>> ELSE <<>>))
        vb == size - 8
        at == IF avb THEN (vb :> [k |-> "vbmeta", image_size |-> w1.pos])
                          @@ ((size - 1) :> [k |-> "footer", vbmeta_offset |-> vb,
                                             original_image_size |-> w1.pos])
                          @@ w2.at
              ELSE w2.at
    IN  [pre |-> pre, at |-> at, size |-> IF w2.pos > size THEN w2.pos ELSE size,
         hdr |-> [ver |-> ver, size |-> [b \in ToSet(BLOCKS) |-> LenOf(items(b))],
                  recovery_dtbo_offset |-> IF "recovery_dtbo" \in DOMAIN blocks
                      THEN CHOOSE p \in DOMAIN w2.at : w2.at[p] = blocks["recovery_dtbo"][1] ELSE 0,
                  id |-> {}]]

K(fmt) == <<Comp("kernel", fmt)>>
R(fmt) == <<Comp("rd", fmt)>>
Mtk(items) == <<[k |-> "mtk", size |-> LenOf(items)]>> \o items
\* A zImage; end is where its payload ends.
Z(payload) ==
    LET end == Z_SZ + LenOf(payload)
    IN  <<[k |-> "zhead", payload |-> LenOf(payload)]>> \o payload
        \o <<[k |-> "ztail", pad |-> ((end + 3) \div 4) * 4 - end]>>
Zlz4 == Z(K("lz4_legacy") \o <<[k |-> "zsize"]>>)
Table == <<[k |-> "table", entries |-> <<[name |-> "vnd", offset |-> 0, size |-> 4],
                                        [name |-> "vnd_a", offset |-> 4, size |-> 2]>>]>>

\* v0 with everything such an image can have, as a SEANDROID image, after a
\* DHTB header, and with MTK headers.
V0 == [kernel |-> K("gzip") \o <<Comp("kdtb", "raw")>>, ramdisk |-> R("gzip"),
       second |-> <<Comp("second", "raw")>>, extra |-> <<Comp("extra", "lz4_legacy")>>]
V0Mtk == [kernel |-> Mtk(K("gzip")), ramdisk |-> Mtk(R("gzip")), second |-> <<Comp("second", "raw")>>]
V0Extra == [kernel |-> K("raw"), ramdisk |-> R("lzop"), extra |-> <<Comp("extra", "gzip")>>]
V2 == [kernel |-> Zlz4 \o <<Comp("kdtb", "raw")>>, ramdisk |-> R("gzip"),
       recovery_dtbo |-> <<Comp("rdtbo", "raw")>>, dtb |-> <<Comp("dtb", "raw")>>]
V2Z == [kernel |-> Z(K("gzip")), ramdisk |-> R("gzip"), second |-> <<Comp("second", "raw")>>,
        dtb |-> <<Comp("dtb", "raw")>>]
V4 == [kernel |-> K("lz4_legacy"), ramdisk |-> R("gzip"), signature |-> <<[k |-> "sig"]>>]
Vnd4 == [ramdisk |-> <<Comp("rd", "lz4_legacy"), Comp("rd_a", "raw")>>, dtb |-> <<Comp("dtb", "raw")>>,
         vendor_ramdisk_table |-> Table, bootconfig |-> <<Comp("bc", "raw")>>]

MCImages == {Build("none", "v0", V0, "seandroid", FALSE, 36),
             Build("dhtb", "v0", V0, "seandroid", FALSE, 36),
             Build("none", "v0", V0Mtk, "lgbump", FALSE, 36),
             Build("blob", "v0", V0Extra, "none", FALSE, 28),
             Build("none", "v2", V2, "avb1", FALSE, 40),
             Build("none", "v2", V2Z, "none", TRUE, 48),
             Build("chromeos", "v1", [kernel |-> K("lz4_legacy"), ramdisk |-> R("gzip"),
                                      recovery_dtbo |-> <<Comp("rdtbo", "raw")>>], "none", FALSE, 32),
             Build("none", "v4", V4, "none", TRUE, 40),
             Build("none", "v3", [kernel |-> K("gzip"), ramdisk |-> R("lz4_legacy")], "none", FALSE, 24),
             Build("none", "vnd3", [ramdisk |-> R("gzip"), dtb |-> <<Comp("dtb", "raw")>>], "none", TRUE, 32),
             Build("none", "vnd4", Vnd4, "none", TRUE, 48)}

NewFile(name, id, fmt) == [name |-> name, c |-> Comp(id, fmt)]

\* A component of another length, and a component that is compressed already.
MCNewFiles == {NewFile("kernel", "kernel2", "raw"), NewFile("kernel", "kernel2", "gzip"),
               NewFile("kernel_dtb", "kdtb2", "raw"), NewFile("ramdisk.cpio", "rd2", "raw"),
               NewFile("ramdisk.cpio", "rd", "lz4_legacy"), NewFile("second", "dtb2", "raw"),
               NewFile("extra", "dtb2", "raw"), NewFile("recovery_dtbo", "dtb2", "raw"),
               NewFile("dtb", "dtb2", "raw"), NewFile("vnd_a", "rd2", "raw"), NewFile("vnd", "rd2", "raw"),
               NewFile("bootconfig", "dtb2", "raw")}

\* All but extra and recovery_dtbo, whose sizes are kept, and vendor ramdisks,
\* which repack requires.
MCRemovable == {"kernel", "kernel_dtb", "ramdisk.cpio", "second", "dtb", "bootconfig"}
=============================================================================
