------------------------------- MODULE SgMeta -------------------------------
(***************************************************************************)
(* The container the SGraph scripts put a file in before they encrypt it   *)
(* (scripts/e2e_sgraph_real_path.py): a magic word, the length of the      *)
(* metadata in four big-endian bytes, the metadata, the file.              *)
(***************************************************************************)
EXTENDS Integers, Sequences, SequencesExt

CONSTANTS
    Magic,        \* SGMETA_MAGIC
    Base,         \* 256, the number of bytes
    IsJson        \* the byte sequences json.loads() accepts, as far as they occur

Bytes == 0 .. Base - 1

SgMetaConstants == Base \in Nat \ {0, 1} /\ Magic \in Seq(Bytes)

\* int.to_bytes(4, "big")
ToBytes(n) ==
    LET quot == n \div Base
        quot2 == quot \div Base
        quot3 == quot2 \div Base
    IN  <<quot3 % Base, quot2 % Base, quot % Base, n % Base>>

\* int.from_bytes(bytes, "big") of four bytes
FromBytes(bytes) == Base * (Base * (Base * bytes[1] + bytes[2]) + bytes[3]) + bytes[4]

\* int.to_bytes raises OverflowError beyond this.
Packs(meta) == Len(meta) < Base * (Base * (Base * Base))

Package(meta, content) == Magic \o ToBytes(Len(meta)) \o meta \o content

Head4 == Len(Magic) + 4
MetaEnd(bytes) == Head4 + FromBytes(SubSeq(bytes, Len(Magic) + 1, Head4))
MetaOf(bytes) == SubSeq(bytes, Head4 + 1, MetaEnd(bytes))

\* A container: long enough, marked, with metadata that fit in it and can be read.
IsContainer(bytes) ==
    /\ Len(bytes) >= Head4
    /\ IsPrefix(Magic, bytes)
    /\ MetaEnd(bytes) <= Len(bytes)
    /\ MetaOf(bytes) \in IsJson

\* Mutant: the length field is counted as part of the metadata.
ExtractShort(bytes) ==
    IF IsContainer(bytes)
    THEN [meta |-> {MetaOf(bytes)}, content |-> SubSeq(bytes, MetaEnd(bytes) - 4 + 1, Len(bytes))]
    ELSE [meta |-> {}, content |-> bytes]

\* The metadata and the file, or no metadata and every byte.
Extract(bytes) ==
    IF IsContainer(bytes)
    THEN [meta |-> {MetaOf(bytes)}, content |-> SubSeq(bytes, MetaEnd(bytes) + 1, Len(bytes))]
    ELSE [meta |-> {}, content |-> bytes]
=============================================================================
