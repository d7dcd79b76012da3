-------------------------- MODULE MCMetadataReader --------------------------
(* Values for the constants of MetadataReader.                             *)
EXTENDS MetadataReader

CONSTANTS i1, i2

(* Names of jobs are built from the images.                                *)
MCRequests == {Push(g) : g \in Images} \union {Meta(g) : g \in Images}
                \union {Thumb(g) : g \in Images}
=============================================================================
