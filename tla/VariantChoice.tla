----------------------------- MODULE VariantChoice -----------------------------
(***************************************************************************)
(* The checks of packages/server/sniper2-service/index.js on a snapshot of *)
(* a product: which variant an order takes, and whether its price and its  *)
(* stock still allow the order.  A snapshot is a function from the         *)
(* variants, numbered as the site lists them, to [inStock, price].         *)
(***************************************************************************)
EXTENDS Integers, FiniteSets

CONSTANTS Variants,   \* positions in snapshot.variants
          Prices,     \* unitPriceCents
          Wanted,     \* <<requiredVariants, fallback 1, ...>>, each as the
                      \* set of the variants whose attributes match it
          Cap         \* intent.priceGuard.maxUnitPrice

ASSUME VariantAssumption ==
  /\ Variants \subseteq Nat /\ Prices \subseteq Nat /\ Cap \in Nat
  /\ DOMAIN Wanted \subseteq Nat
  /\ \A i \in DOMAIN Wanted : Wanted[i] \subseteq Variants

Snapshots == [Variants -> [inStock : BOOLEAN, price : Prices]]

Least(S) == CHOOSE n \in S : \A k \in S : n <= k

InStock(snap) == {v \in Variants : snap[v].inStock}

\* The lists, required first, of which something is in stock.
Satisfiable(snap) == {i \in DOMAIN Wanted : Wanted[i] \cap InStock(snap) # {}}

\* The variant an order takes of `snap`, when there is one.
ResolveVariant(snap) ==
  Least(Wanted[Least(Satisfiable(snap))] \cap InStock(snap))

\* checkVariantMatch passes.
VariantMatches(snap) == Satisfiable(snap) # {}

\* checkPriceGuard passes: the cheapest variant in stock is within the cap.
PriceGuardPasses(snap) == \E v \in InStock(snap) : snap[v].price <= Cap
=============================================================================
