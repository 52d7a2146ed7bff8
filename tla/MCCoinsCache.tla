---------------------------- MODULE MCCoinsCache ----------------------------
(***************************************************************************)
(* TLC instance of CoinsCache.  No operation but Flush reads or writes     *)
(* more than one of the maps, so a behaviour is followed only while it has *)
(* touched the coins, the anchors or the nullifiers, not two of them.      *)
(***************************************************************************)
EXTENDS CoinsCache, TLC

CONSTANTS o1, o2, r1, r2, b1, b2

Symmetric ==
    Permutations({o1, o2}) \cup Permutations({r1, r2}) \cup Permutations({b1, b2})

CoinsTouched ==
    \/ db.coins # EmptyDatabase.coins
    \/ \E cache \in {tip, view} : cache.coins # EmptyCache.coins

AnchorsTouched ==
    \/ db.hashAnchor # EmptyDatabase.hashAnchor
    \/ \E cache \in {tip, view} :
         cache.anchors # EmptyCache.anchors \/ cache.hashAnchor # EmptyCache.hashAnchor

NullifiersTouched ==
    \/ db.nullifiers # {}
    \/ db.hashBlock # NULL
    \/ \E cache \in {tip, view} :
         cache.nullifiers # EmptyCache.nullifiers \/ cache.hashBlock # NULL

OneMapTouched ==
    /\ ~(CoinsTouched /\ AnchorsTouched)
    /\ ~(CoinsTouched /\ NullifiersTouched)
    /\ ~(AnchorsTouched /\ NullifiersTouched)
=============================================================================
