----------------------------- MODULE MCCatalog -----------------------------
(* A starter catalog of two items, the second seeded as a draft.           *)
EXTENDS Catalog, TLC

MCSeeds == <<[slug |-> "laptop", published |-> TRUE],
             [slug |-> "camera", published |-> FALSE]>>
=============================================================================
