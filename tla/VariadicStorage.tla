------------------------------ MODULE VariadicStorage ------------------------------
(***************************************************************************)
(* VariadicStorage (storecrypt/dynstor.go): a name is stored with the      *)
(* extension of the configuration that wrote it, and read whatever its     *)
(* extension is.  SetupStorage provides all algorithms, so every extension *)
(* is supported.  A variant is "none", "torn" (a Put that has not ended)   *)
(* or "whole".                                                             *)
(***************************************************************************)
EXTENDS Integers, Sequences

\* An extension: .gz or .zst, then .aes.
Ext(compression, aes) == [compression |-> compression, aes |-> aes]
Plain == Ext("", FALSE)

\* The order in which variants are looked for.
supportedExts == <<Ext("gzip", TRUE), Ext("zstd", TRUE), Ext("gzip", FALSE),
                   Ext("zstd", FALSE), Ext("", TRUE), Plain>>
Exts == {supportedExts[i] : i \in DOMAIN supportedExts}

NoVariant == [e \in Exts |-> "none"]
Exists(obj) == \E e \in Exts : obj[e] # "none"

findExistingName(obj) ==
    LET i == CHOOSE i \in DOMAIN supportedExts :
               /\ obj[supportedExts[i]] # "none"
               /\ \A j \in 1..(i - 1) : obj[supportedExts[j]] = "none"
    IN  supportedExts[i]

\* Put creates, and truncates, the variant of the configuration; s3 shows only the end.
PutBegins(obj, ext, atomic) == IF atomic THEN obj ELSE [obj EXCEPT ![ext] = "torn"]
PutEnds(obj, ext) == [obj EXCEPT ![ext] = "whole"]
=================================================================================
