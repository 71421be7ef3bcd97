---------------------------- MODULE MCMagiskboot ----------------------------
(***************************************************************************)
(* The two halves of unpack and repack for TLC.  A behaviour is one of     *)
(* two:                                                                    *)
(*   "image": BootImage, on the images of MCBootImage;                     *)
(*   "zimage": ZImage, on the kernels of MCZImage, for what repack does    *)
(*      inside a kernel block that is a zImage.                            *)
(***************************************************************************)
EXTENDS MCBootImage, MCZImage

VARIABLE part

-----------------------------------------------------------------------------
(* The half that a behaviour is not about stays where it is. *)
NoImage == src = (CHOOSE img \in Images : TRUE) /\ files = Empty /\ out = NoOut /\ edits = 0
NoZImage ==
    shape = [words |-> <<>>, tail |-> <<>>] /\ piggy = 0 /\ head = <<0>> /\ tail = <<>> /\ repacks = 0

allVars == <<part, imageVars, vars>>

BootInit ==
    \/ part = "image" /\ ImageInit /\ NoZImage
    \/ part = "zimage" /\ Init /\ NoImage

BootNext ==
    \/ part = "image" /\ ImageNext /\ UNCHANGED <<part, vars>>
    \/ part = "zimage" /\ Next /\ UNCHANGED <<part, imageVars>>

BootSpec == BootInit /\ [][BootNext]_allVars

-----------------------------------------------------------------------------
\* The output of repack is laid out properly and reads back as the files it was made
\* from (repack, parse_image), and what bootloaders check behind the blocks, the vendor
\* magic, the AVB1 signature and the AVB footer with its vbmeta, is found again (see
\* RepackReadsBack and TailKept of BootImage).  The id in its header is the hash of
\* exactly the blocks that a bootloader finds (see ChecksumCoversBlocks).
RepackSound == RepackReadsBack /\ TailKept /\ ChecksumCoversBlocks

\* parse finds exactly the payload of a zImage as the linker leaves it, by .table, GOT or
\* tail (see ParseFindsPayload of ZImage).
PayloadFound == part = "zimage" => ParseFindsPayload
=============================================================================
