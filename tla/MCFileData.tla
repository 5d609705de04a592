---------------------------- MODULE MCFileData -----------------------------
(***************************************************************************)
(* Instances of FileData for TLC.                                          *)
(***************************************************************************)
EXTENDS FileData, TLC

\* Bytes are only compared.
ByteSymmetry == Permutations(Bytes)

NoFailures == {}

\* Everything that can fail but the two statements that deduplicate: without
\* find_by_content_hash a content is stored again, without increment_ref it is
\* not counted.
FlushFailures == {"upload", "download", "insert", "update"}
=============================================================================
