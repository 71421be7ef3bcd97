------------------------------ MODULE BootImage ------------------------------
(***************************************************************************)
(* magiskboot unpack and repack (boot/bootimg.cpp).  An image is a header  *)
(* with the sizes of its blocks and the items that lie at each position of *)
(* the file; everything else is zeros.  unpack parses an image and writes  *)
(* its components to files; repack lays the files out into a new image,    *)
(* with the image they came from as the template, and patches the sizes,   *)
(* checksums and footers at the end.                                       *)
(*                                                                         *)
(* An item is a component in some format ("data"), or one of the small     *)
(* structures around them, with the fields that repack sets.  Lengths and  *)
(* page sizes are scaled down; what matters is how they round.             *)
(***************************************************************************)
EXTENDS Integers, Sequences, SequencesExt, FiniteSetsExt, TLC

CONSTANTS Images,     \* original boot images
          RawLen,     \* lengths of the uncompressed components, by identity
          NewFiles,   \* component files a user may put into the directory
          Removable,  \* files a user may delete from it
          MaxEdits    \* bound on such edits

PAGE == 4        \* page_size() of the header and getpagesize()
MTK_SZ == 2      \* sizeof(mtk_hdr)
MAGIC_SZ == 1    \* SEANDROID_MAGIC, LG_BUMP_MAGIC
TRAILER_SZ == 1  \* the DHTB trailer
PRE_SZ == 3      \* dhtb_hdr, blob_hdr and the other non-standard headers
AVB_BLOCK == 8   \* the 4096 bytes of avbtool.py
VBMETA_SZ == 2
FOOTER_SZ == 1
SIG_SZ == 3      \* of the AVB1 signature and of the v4 boot signature
Z_SZ == 1        \* the head of a zImage, its size word, its tail without padding

VARIABLES src,    \* the image that unpack and repack are called with
          files,  \* the current directory
          out,    \* repack's output and what it was made from, or NoOut
          edits

imageVars == <<src, files, out, edits>>

Empty == [f \in {} |-> f]
NoOut == <<>>

align_to(v, a) == ((v + a - 1) \div a) * a

BLOCKS == <<"kernel", "ramdisk", "second", "extra", "recovery_dtbo", "dtb", "signature",
            "vendor_ramdisk_table", "bootconfig">>

\* The size fields that each header has; any other one reads 0 and swallows writes.
Fields(ver) ==
    CASE ver = "v0"   -> {"kernel", "ramdisk", "second", "extra"}
      [] ver = "v1"   -> {"kernel", "ramdisk", "second", "recovery_dtbo"}
      [] ver = "v2"   -> {"kernel", "ramdisk", "second", "recovery_dtbo", "dtb"}
      [] ver = "v3"   -> {"kernel", "ramdisk"}
      [] ver = "v4"   -> {"kernel", "ramdisk", "signature"}
      [] ver = "vnd3" -> {"ramdisk", "dtb"}
      [] ver = "vnd4" -> {"ramdisk", "dtb", "vendor_ramdisk_table", "bootconfig"}

is_vendor(ver) == ver \in {"vnd3", "vnd4"}
hdr_space(ver) == IF is_vendor(ver) THEN 2 * PAGE ELSE PAGE
HasId(ver) == ver \in {"v0", "v1", "v2"}

-----------------------------------------------------------------------------
(* Components and formats. *)

Compressed == {"gzip", "lz4_legacy"}      \* fmt_compressed
CompressedAny == Compressed \cup {"lzop"} \* fmt_compressed_any

Comp(id, fmt) == [k |-> "data", id |-> id, fmt |-> fmt]
decompress(c) == [c EXCEPT !.fmt = "raw"]

\* compress_len unless it is asked not to, not needed or not possible.
Recompress(c, fmt, skip_comp) ==
    IF ~ skip_comp /\ c.fmt \notin CompressedAny /\ fmt \in Compressed
    THEN [c EXCEPT !.fmt = fmt] ELSE c

\* Decompressed unless it is asked not to or not possible.
Dumped_Any(c, skip_decomp) ==
    IF ~ skip_decomp /\ c.fmt \in CompressedAny THEN decompress(c) ELSE c
Dumped(c, skip_decomp) ==
    IF ~ skip_decomp /\ c.fmt \in Compressed THEN decompress(c) ELSE c

ItemLen(i) ==
    CASE i.k = "data"   -> RawLen[i.id] + (IF i.fmt = "raw" THEN 0 ELSE 1)
      [] i.k = "mtk"    -> MTK_SZ
      [] i.k = "magic"  -> MAGIC_SZ
      [] i.k = "dhtb"   -> TRAILER_SZ
      [] i.k = "pre"    -> PRE_SZ
      [] i.k = "vbmeta" -> VBMETA_SZ
      [] i.k = "footer" -> FOOTER_SZ
      [] i.k \in {"sig", "avb1"} -> SIG_SZ
      [] i.k = "table"  -> Len(i.entries)
      [] i.k \in {"zhead", "zsize"} -> Z_SZ
      [] i.k = "ztail"  -> Z_SZ + i.pad

LenOf(items) == FoldLeft(LAMBDA n, i : n + ItemLen(i), 0, items)

-----------------------------------------------------------------------------
(* Reading an image: parse_hdr and parse_image. *)

\* Where the Android image starts, after a non-standard header.
\* CHROMEOS, DHTB, BLOB, NOOKHD and ACCLAIM images have one.
Addr(img) == IF img.pre = "none" THEN 0 ELSE PRE_SZ

\* get_block, one after the other, relative to Addr.
BlockOff(hdr, n) ==
    FoldLeft(LAMBDA o, b : align_to(o + hdr.size[b], PAGE), hdr_space(hdr.ver), SubSeq(BLOCKS, 1, n))

Start(img, b) == Addr(img) + BlockOff(img.hdr, CHOOSE n \in 0..8 : BLOCKS[n + 1] = b)
PayloadEnd(img) == Addr(img) + BlockOff(img.hdr, 9)
map_end(img) == align_to(img.size, PAGE)

\* The items in the bytes p..p+n, or garbage if items do not fill them.
Garbage == <<[k |-> "garbage"]>>
Bytes(img, p, n) ==
    LET inside == {q \in DOMAIN img.at : p <= q /\ q < p + n}
        s == SetToSortSeq(inside, <)
        items == [j \in 1..Len(s) |-> img.at[s[j]]]
    IN  IF LenOf(items) = n /\ (n > 0 => p \in inside) THEN items ELSE Garbage

Block(img, b) == Bytes(img, Start(img, b), img.hdr.size[b])

IsMtk(items) == items # <<>> /\ Head(items).k = "mtk"
Body(items) == IF IsMtk(items) THEN Tail(items) ELSE items

\* A dtb behind the kernel, found by its magic.
IsDtb(i) == i.k = "data" /\ i.id \in {"kdtb", "kdtb2"}
HasKernelDtb(items) == Len(items) > 1 /\ IsDtb(Last(items))
KernelDtb(items) == IF HasKernelDtb(items) THEN <<Last(items)>> ELSE <<>>

\* The kernel block without dtb and MTK header, and the compressed kernel in it:
\* all of it, or the piggy of a zImage without the size word that follows it
\* unless it is gzip.
KernelImage(items) == IF HasKernelDtb(items) THEN Body(Front(items)) ELSE Body(items)
IsZImage(kernel) == kernel # <<>> /\ Head(kernel).k = "zhead" /\ kernel[2].fmt # "raw"
Kernel(kernel) ==
    IF ~ IsZImage(kernel) THEN kernel
    ELSE IF kernel[2].fmt = "gzip" \/ kernel[3].k = "zsize" THEN <<kernel[2]>>
    ELSE Garbage

RamdiskTable(items) == IF items # <<>> /\ Head(items).k = "table" THEN Head(items).entries ELSE <<>>
VndRamdisk(img, e) == Bytes(img, Start(img, "ramdisk") + e.offset, e.size)

FmtOf(items) == IF items # <<>> /\ Head(items).k = "data" THEN Head(items).fmt ELSE "raw"

ItemAt(img, p) == IF p \in DOMAIN img.at THEN img.at[p] ELSE [k |-> "none"]

\* What lies behind the blocks: the start of the tail, and the AVB footer, looked
\* for at the page-aligned end of the file.  verify() is over the payload.
SEANDROID(img, tail) == img.pre = "dhtb" \/ (tail.k = "magic" /\ tail.id = "seandroid")
LG_BUMP(img, tail) == ~ SEANDROID(img, tail) /\ tail.k = "magic" /\ tail.id = "lgbump"
AVB1_SIGNED(img, tail) == tail.k = "avb1" /\ tail.end = PayloadEnd(img)
Footer(img) == ItemAt(img, map_end(img) - FOOTER_SZ)
VbmetaAt(img, footer) == Addr(img) + footer.vbmeta_offset
AVB(img, footer) == footer.k = "footer" /\ ItemAt(img, VbmetaAt(img, footer)).k = "vbmeta"

\* "Corrupted boot image!"
Parses(img) == PayloadEnd(img) <= map_end(img)

\* The boot_img object that unpack and repack work on.
boot_img(img) ==
    LET block == [b \in ToSet(BLOCKS) |-> Block(img, b)]
        table == RamdiskTable(block["vendor_ramdisk_table"])
        tail == ItemAt(img, PayloadEnd(img))
    IN  [hdr |-> img.hdr, pre |-> img.pre, pre_hdr |-> ItemAt(img, 0), map_size |-> img.size,
         block |-> block,
         kernel |-> KernelImage(block["kernel"]),
         kernel_dtb |-> KernelDtb(block["kernel"]),
         ramdisk |-> Body(block["ramdisk"]),
         table |-> table,
         vnd |-> [i \in 1..Len(table) |-> VndRamdisk(img, table[i])],
         seandroid |-> SEANDROID(img, tail), lg_bump |-> LG_BUMP(img, tail),
         avb1_signed |-> AVB1_SIGNED(img, tail), avb |-> AVB(img, Footer(img))]

-----------------------------------------------------------------------------
(* unpack *)

\* dump() writes no file for an empty block.
File(name, items, skip_decomp) ==
    IF items = <<>> THEN Empty ELSE name :> Dumped(Head(items), skip_decomp)

VndFiles(boot, skip_decomp) ==
    [n \in {e.name : e \in ToSet(boot.table)} |->
        LET i == CHOOSE j \in 1..Len(boot.table) : boot.table[j].name = n
        IN  Dumped(Head(boot.vnd[i]), skip_decomp)]

unpack(boot, skip_decomp) ==
    File("kernel", Kernel(boot.kernel), skip_decomp)
    @@ File("kernel_dtb", boot.kernel_dtb, TRUE)
    @@ (IF boot.table # <<>> THEN VndFiles(boot, skip_decomp)
        ELSE File("ramdisk.cpio", boot.ramdisk, skip_decomp))
    @@ File("extra", boot.block["extra"], skip_decomp)
    @@ FoldLeft(LAMBDA fs, f : fs @@ File(f, boot.block[f], TRUE), Empty,
                <<"second", "recovery_dtbo", "dtb", "bootconfig">>)

-----------------------------------------------------------------------------
(* repack *)

Optional(fs, f) == IF f \in DOMAIN fs THEN <<fs[f]>> ELSE <<>>

\* The payload of the kernel; a compressed one in a zImage has a size word.
KernelPayload(boot, c, fmt, skip_comp) ==
    LET new == Recompress(c, fmt, skip_comp)
    IN  <<new>> \o (IF IsZImage(boot.kernel) /\ new # c /\ fmt # "gzip" THEN <<[k |-> "zsize"]>> ELSE <<>>)

\* A zImage around a payload of len bytes.
ZHead(len) == <<[k |-> "zhead", payload |-> len]>>
ZTail(len) == <<[k |-> "ztail", pad |-> align_to(Z_SZ + len, 4) - (Z_SZ + len)]>>

KernelItems(boot, fs, skip_comp) ==
    IF "kernel" \notin DOMAIN fs THEN boot.kernel
    ELSE LET payload == KernelPayload(boot, fs["kernel"], FmtOf(Kernel(boot.kernel)), skip_comp)
         IN  IF IsZImage(boot.kernel)
             THEN ZHead(LenOf(payload)) \o payload \o ZTail(LenOf(payload)) ELSE payload

\* "A v4 boot image ramdisk ... hardcode the format here".
RamdiskFmt(boot, skip_comp) ==
    IF ~ skip_comp /\ boot.hdr.ver = "v4" THEN "lz4_legacy" ELSE FmtOf(boot.ramdisk)

VndItems(boot, fs, skip_comp) ==
    [i \in 1..Len(boot.table) |-> Recompress(fs[boot.table[i].name], FmtOf(boot.vnd[i]), skip_comp)]

RamdiskItems(boot, fs, skip_comp) ==
    IF boot.table # <<>> THEN VndItems(boot, fs, skip_comp)
    ELSE IF "ramdisk.cpio" \in DOMAIN fs
         THEN <<Recompress(fs["ramdisk.cpio"], RamdiskFmt(boot, skip_comp), skip_comp)>>
         ELSE <<>>

ExtraItems(boot, fs, skip_comp) ==
    IF "extra" \in DOMAIN fs
    THEN <<Recompress(fs["extra"], FmtOf(boot.block["extra"]), skip_comp)>> ELSE <<>>

\* The table with the new offsets and sizes, but the size it had.
NewTable(table, r) ==
    IF table = <<>> THEN <<>>
    ELSE <<[k |-> "table",
            entries |-> [i \in 1..Len(table) |->
                            [name |-> table[i].name, size |-> ItemLen(r[i]),
                             offset |-> LenOf(SubSeq(r, 1, i - 1))]]]>>

MtkHdr(block, items) ==
    IF IsMtk(block) THEN <<[k |-> "mtk", size |-> LenOf(items)]>> \o items ELSE items

\* The blocks in the order in which they are written.
NewBlocks(boot, fs, skip_comp) ==
    LET r == RamdiskItems(boot, fs, skip_comp)
    IN  [b \in ToSet(BLOCKS) |->
            CASE b = "kernel" -> MtkHdr(boot.block[b], KernelItems(boot, fs, skip_comp) \o Optional(fs, "kernel_dtb"))
              [] b = "ramdisk" -> IF boot.table = <<>> THEN MtkHdr(boot.block[b], r) ELSE r
              [] b = "extra" -> ExtraItems(boot, fs, skip_comp)
              [] b = "signature" -> boot.block[b]
              [] b = "vendor_ramdisk_table" -> NewTable(boot.table, r)
              [] OTHER -> Optional(fs, b)]

\* Sizes are reset, except those of extra and recovery_dtbo, and set again for
\* what is written.
Kept == {"extra", "recovery_dtbo", "signature", "vendor_ramdisk_table"}
NewSizes(boot, blocks) ==
    [b \in ToSet(BLOCKS) |->
        IF b \notin Fields(boot.hdr.ver) THEN 0
        ELSE IF b \in {"signature", "vendor_ramdisk_table"} \/ (b \in Kept /\ blocks[b] = <<>>)
             THEN boot.hdr.size[b] ELSE LenOf(blocks[b])]

\* What has been written so far and the position.
Emit(w, items) ==
    FoldLeft(LAMBDA v, i : [v EXCEPT !.pos = @ + ItemLen(i), !.at = @ @@ (v.pos :> i)], w, items)
file_align_with(w, base, a) == [w EXCEPT !.pos = base + align_to(@ - base, a)]
EmitBlock(w, base, items) == file_align_with(Emit(w, items), base, PAGE)

\* An MTK header whose ramdisk is missing is not followed by file_align().
Unpadded(items) == items = <<>> \/ (Len(items) = 1 /\ IsMtk(items))

\* "Write blocks": all blocks, noting where each starts.
WriteBlocks(boot, base, blocks) ==
    FoldLeft(LAMBDA w, b :
                 LET v == [w EXCEPT !.off = @ @@ (b :> w.pos)]
                 IN  IF b # "kernel" /\ Unpadded(blocks[b]) THEN Emit(v, blocks[b])
                     ELSE EmitBlock(v, base, blocks[b]),
             [pos |-> base + hdr_space(boot.hdr.ver),
              at |-> IF base = 0 THEN Empty ELSE 0 :> boot.pre_hdr,
              off |-> Empty],
             BLOCKS)

\* "Proprietary stuffs".
TailItems(boot) ==
    (IF boot.seandroid THEN <<[k |-> "magic", id |-> "seandroid"]>> ELSE <<>>)
    \o (IF boot.pre = "dhtb" THEN <<[k |-> "dhtb"]>> ELSE <<>>)
    \o (IF boot.lg_bump THEN <<[k |-> "magic", id |-> "lgbump"]>> ELSE <<>>)

\* The tail, and the vbmeta behind it.
WriteTail(boot, base, w) ==
    LET t == Emit(w, TailItems(boot))
        v == file_align_with(file_align_with(t, base, PAGE), base, AVB_BLOCK)
        off == w.off @@ ("tail" :> t.pos) @@ ("vbmeta" :> v.pos)
        end == IF boot.avb THEN Emit(v, <<[k |-> "vbmeta", image_size |-> t.pos - base]>>)
               ELSE file_align_with(t, base, PAGE)
    IN  [end EXCEPT !.off = off]

\* memcpy over what is there.
Overlay(at, p, i) ==
    LET kept == {q \in DOMAIN at : q + ItemLen(at[q]) <= p \/ p + ItemLen(i) <= q}
    IN  (p :> i) @@ [q \in kept |-> at[q]]

\* The header in front that is copied, of which CHROMEOS has none.
NewPre(boot) == IF boot.pre = "chromeos" THEN "none" ELSE boot.pre

\* Padded to the original size, except CHROMEOS.
NewSize(boot, end) ==
    IF boot.pre # "chromeos" /\ end < boot.map_size THEN boot.map_size ELSE end

\* "Update checksum": the parts of the output that id is the hash of.
IdRegions(ver, size, off) ==
    {<<b, off[b], size[b]>> : b \in {"kernel", "ramdisk", "second"}
                              \cup {b \in {"extra"} : size[b] > 0}
                              \cup {b \in {"recovery_dtbo"} : ver \in {"v1", "v2"}}
                              \cup {b \in {"dtb"} : ver = "v2"}}

\* AVB footer, non-standard header and AVB1 signature, once the blocks are laid out.
PatchAvb_TailOffset(boot, at, size, tail, vbmeta) ==
    IF ~ boot.avb THEN at
    ELSE Overlay(at, size - FOOTER_SZ, [k |-> "footer", vbmeta_offset |-> tail, original_image_size |-> tail])
PatchAvb(boot, at, size, tail, vbmeta) ==
    IF ~ boot.avb THEN at
    ELSE Overlay(at, size - FOOTER_SZ,
                 [k |-> "footer", vbmeta_offset |-> vbmeta, original_image_size |-> tail])
PatchPre(boot, at, tail) ==
    CASE boot.pre = "dhtb" -> Overlay(at, 0, [k |-> "pre", size |-> tail + MAGIC_SZ + TRAILER_SZ])
      [] boot.pre = "blob" -> Overlay(at, 0, [k |-> "pre", size |-> tail])
      [] OTHER -> at
Sign(boot, at, end) ==
    IF boot.avb1_signed THEN Overlay(at, end, [k |-> "avb1", end |-> end]) ELSE at

NewHdr(boot, fs, sizes, off) ==
    LET recovery == IF "recovery_dtbo" \in DOMAIN fs THEN off["recovery_dtbo"]
                    ELSE boot.hdr.recovery_dtbo_offset
    IN  [ver |-> boot.hdr.ver, size |-> sizes, recovery_dtbo_offset |-> recovery,
         id |-> IF HasId(boot.hdr.ver)
                THEN IdRegions(boot.hdr.ver, sizes, [off EXCEPT !["recovery_dtbo"] = recovery]) ELSE {}]

\* "Patch the image".
PatchImage(boot, fs, base, sizes, w) ==
    LET size == NewSize(boot, w.pos)
        signed == w.off["tail"] + SIG_SZ
        aosp_img_size == w.off["tail"] - base
        avb == PatchAvb(boot, w.at, size, aosp_img_size, w.off["vbmeta"])
    IN  [pre |-> NewPre(boot),
         at |-> Sign(boot, PatchPre(boot, avb, aosp_img_size), w.off["tail"]),
         size |-> IF boot.avb1_signed /\ signed > size THEN signed ELSE size,
         hdr |-> NewHdr(boot, fs, sizes, w.off)]

repack(boot, fs, skip_comp) ==
    LET base == IF NewPre(boot) = "none" THEN 0 ELSE PRE_SZ
        blocks == NewBlocks(boot, fs, skip_comp)
    IN  PatchImage(boot, fs, base, NewSizes(boot, blocks),
                   WriteTail(boot, base, WriteBlocks(boot, base, blocks)))

-----------------------------------------------------------------------------
(* What an image should have become. *)

\* The two cases in which repack's output is known not to parse into what was
\* put in: an MTK ramdisk header of which the ramdisk was deleted (the header is
\* not padded to a page), and a file for the kernel of a zImage that is left
\* compressed with another method than gzip (its size word is not appended), or
\* left uncompressed (it is not recognised as a zImage).
Loses(o) ==
    \/ IsMtk(o.from.block["ramdisk"]) /\ "ramdisk.cpio" \notin DOMAIN o.files
    \/ /\ IsZImage(o.from.kernel) /\ "kernel" \in DOMAIN o.files
       /\ \/ o.files["kernel"].fmt \in CompressedAny \ {"gzip"}
          \/ o.files["kernel"].fmt = "raw" /\ o.skip

\* The format a file should have in the image, as the usage text has it: its own
\* with -n and if it is compressed already, or else the original component's.
OriginalFmt(boot, f) ==
    CASE f = "kernel" -> FmtOf(Kernel(boot.kernel))
      [] f = "ramdisk.cpio" -> IF boot.hdr.ver = "v4" THEN "lz4_legacy" ELSE FmtOf(boot.ramdisk)
      [] f = "extra" -> FmtOf(boot.block["extra"])
      [] \E e \in ToSet(boot.table) : e.name = f ->
            FmtOf(boot.vnd[CHOOSE i \in 1..Len(boot.table) : boot.table[i].name = f])
      [] OTHER -> "raw"
InImage(c, fmt, skip) ==
    IF skip \/ c.fmt \in CompressedAny \/ fmt \notin Compressed THEN c ELSE [c EXCEPT !.fmt = fmt]

\* What parse_image finds in the output, by the sizes in the header alone, is
\* every file of the directory in the format it should have, the old kernel if
\* there is none, and nothing else.
ReadsBack(o) ==
    /\ Parses(o.img)
    /\ unpack(boot_img(o.img), TRUE) =
         [f \in DOMAIN o.files |-> InImage(o.files[f], OriginalFmt(o.from, f), o.skip)]
         @@ File("kernel", Kernel(o.from.kernel), TRUE)

-----------------------------------------------------------------------------
(* A user at work in a directory. *)

\* The files that belong to an image, which "should only" be in the directory.
FileNames(img) ==
    LET t == RamdiskTable(Block(img, "vendor_ramdisk_table"))
    IN  {e.name : e \in ToSet(t)}
        \cup (IF t = <<>> THEN {"ramdisk.cpio"} ELSE {})
        \cup (IF img.hdr.size["kernel"] > 0 THEN {"kernel", "kernel_dtb"} ELSE {})
        \cup (Fields(img.hdr.ver) \cap {"second", "extra", "recovery_dtbo", "dtb", "bootconfig"})

ImageInit ==
    /\ src \in Images
    /\ files = Empty
    /\ out = NoOut
    /\ edits = 0

Unpack ==
    /\ files = Empty
    /\ Parses(src)
    /\ \E skip_decomp \in BOOLEAN : files' = unpack(boot_img(src), skip_decomp)
    /\ UNCHANGED <<src, out, edits>>

Edit(fs) ==
    /\ files # Empty /\ edits < MaxEdits
    /\ files' = fs
    /\ edits' = edits + 1
    /\ UNCHANGED <<src, out>>

Replace == \E n \in NewFiles : n.name \in FileNames(src) /\ Edit((n.name :> n.c) @@ files)

Delete ==
    \E f \in Removable \cap DOMAIN files :
        Edit([g \in DOMAIN files \ {f} |-> files[g]])

RepackImage ==
    /\ files # Empty
    /\ \E skip_comp \in BOOLEAN, boot \in {boot_img(src)} :
        out' = [img |-> repack(boot, files, skip_comp), from |-> boot, files |-> files, skip |-> skip_comp]
    /\ UNCHANGED <<src, files, edits>>

cleanup ==
    /\ files' = Empty
    /\ UNCHANGED <<src, out, edits>>

\* An output that reads back is the next original, in a clean directory.
UseOutput ==
    /\ out # NoOut /\ files = Empty /\ edits < MaxEdits
    /\ ReadsBack(out)
    /\ src' = out.img
    /\ out' = NoOut
    /\ edits' = edits + 1
    /\ UNCHANGED files

ImageNext == Unpack \/ Replace \/ Delete \/ RepackImage \/ cleanup \/ UseOutput

ImageSpec == ImageInit /\ [][ImageNext]_imageVars

-----------------------------------------------------------------------------
(* Properties. *)

Disjoint(img) ==
    \A p, q \in DOMAIN img.at : p < q => p + ItemLen(img.at[p]) <= q

\* Sizes are only set in fields the header has, nothing lies over something else
\* or past the end of the file, and the directory has only files of the image.
ImageTypeOK ==
    /\ edits \in 0..MaxEdits
    /\ DOMAIN files \subseteq FileNames(src)
    /\ \A f \in DOMAIN files : files[f].k = "data"
    /\ out # NoOut =>
        /\ \A b \in ToSet(BLOCKS) : out.img.hdr.size[b] \in Nat
        /\ \A b \in ToSet(BLOCKS) \ Fields(out.img.hdr.ver) : out.img.hdr.size[b] = 0
        /\ Disjoint(out.img)
        /\ \A p \in DOMAIN out.img.at : p + ItemLen(out.img.at[p]) <= out.img.size

\* repack's output is laid out properly, parses, and reads back as the files it was
\* made from.
RepackReadsBack == ImageTypeOK /\ (out # NoOut /\ ~ Loses(out) => ReadsBack(out))

\* The id in the header of the output is the hash of exactly the blocks that a
\* bootloader finds by the header: each where the parser looks for it, with MTK
\* headers, and of its full size.
ChecksumCoversBlocks ==
    out # NoOut /\ ~ Loses(out) /\ HasId(out.img.hdr.ver) =>
        LET img == out.img
        IN  /\ \A r \in img.hdr.id : r[3] > 0 => r[2] = Start(img, r[1]) /\ r[3] = img.hdr.size[r[1]]
            /\ \A b \in ToSet(BLOCKS) : img.hdr.size[b] > 0 => \E r \in img.hdr.id : r[1] = b

\* Repacking what unpack wrote gives back each component as it was, in an image
\* with the same sizes, however it was unpacked; a v4 ramdisk is turned into lz4.
UnmodifiedRoundTrip ==
    out # NoOut =>
        \A skip_decomp \in BOOLEAN :
            /\ out.files = unpack(out.from, skip_decomp) /\ ~ Loses(out)
            /\ (skip_decomp \/ ~ out.skip) /\ out.from.hdr.ver # "v4"
            => /\ unpack(boot_img(out.img), TRUE) = unpack(out.from, TRUE)
               /\ out.img.hdr.size = out.from.hdr.size

\* What bootloaders check behind the blocks is found again in the output: the
\* vendor magic, the AVB1 signature, and, if the partition has room for it, the
\* AVB footer, whose vbmeta is intact and both of which name the same size.
TailKept ==
    out # NoOut /\ ~ Loses(out) =>
        LET img == out.img
            i == out.from
            o == boot_img(img)
            footer == Footer(img)
            vbmeta == {p \in DOMAIN img.at : img.at[p].k = "vbmeta"}
        IN  /\ <<o.seandroid, o.lg_bump, o.avb1_signed>> = <<i.seandroid, i.lg_bump, i.avb1_signed>>
            /\ i.avb /\ img.size = i.map_size /\ vbmeta # {} =>
                /\ o.avb
                /\ img.at[VbmetaAt(img, footer)].image_size = footer.original_image_size
                /\ PayloadEnd(img) <= VbmetaAt(img, footer)

=============================================================================
