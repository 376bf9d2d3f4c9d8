------------------------------ MODULE MCCatalogue ------------------------------
(* Instance of Products for TLC: two handlers at a time, and the operations     *)
(* that can disturb each other served together.                                *)
EXTENDS Products, TLC

CONSTANTS c1, c2, u1

MCNews == [about : {"product"}, says : {"pending_approval", "active", "out_of_stock"}]

MCMixes ==
    {{"loading-product", "finding-moderated"}, {"loading-edit", "finding-moderated"},
     {"loading-product", "finding-active", "unwishing", "finding-notice", "marking-all"},
     {"loading-edit", "loading-replaced", "loading-gallery", "removing-image"},
     {"loading-edit", "attaching-paper", "finding-unverified"},
     {"attaching-paper", "finding-unverified", "finding-removed"}}

Symmetry == Permutations(Calls)
=============================================================================
