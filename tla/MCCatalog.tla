------------------------------ MODULE MCCatalog ------------------------------
(* Catalog on a small instance: one book, seeded with a promotion or still  *)
(* to be published, a reader who both reviews and rates, one genre.        *)
EXTENDS Catalog

CONSTANTS b1, ann, novel, sale

MCPromoBook == [d \in {sale} |-> b1]
=============================================================================
