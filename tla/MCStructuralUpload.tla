-------------------------- MODULE MCStructuralUpload --------------------------
(* Two upload commands on one checkpoint of six records, two of which the  *)
(* probe has upserted, in batches of one or two.                           *)
EXTENDS StructuralUpload

MCProbe == {1, 2}
===============================================================================
