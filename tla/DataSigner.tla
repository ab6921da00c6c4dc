----------------------------- MODULE DataSigner -----------------------------
(***************************************************************************)
(* The checksums of chapter1/hw2/common.go as terms: a concatenation is a  *)
(* tuple of its parts, a checksum the tagged pair of its name and argument.*)
(* Distinct arguments have distinct checksums here.                        *)
(***************************************************************************)

Empty == <<>>
Crc32(x) == <<"crc32", x>>
Md5(x) == <<"md5", x>>
=============================================================================
