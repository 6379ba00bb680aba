------------------------- MODULE MC_ListUsersPager --------------------------
EXTENDS ListUsersPager

(* The script's own constants, with list sizes around every boundary: an  *)
(* empty list, a short first page, exact multiples of page_size, the     *)
(* spec's 25, and lists just under, at and over page_size * max_pages.   *)
MCUserCounts == {0, 5, 10, 20, 25, 499, 500, 501, 510}

(* Every list size up to twelve pages, for the single-page mode.          *)
MCAllCounts == 0..120

(* A small page size, so that concurrent changes can straddle pages.      *)
MCSmallCounts == {2, 3, 4}

=============================================================================
