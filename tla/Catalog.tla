------------------------------- MODULE Catalog -------------------------------
(***************************************************************************)
(* The product service: one table, products, with a unique sku and a price *)
(* that never is negative.  There is no DELETE.  A product is its sku, and *)
(* the column the other services depend on is the price.                   *)
(***************************************************************************)
EXTENDS Integers

CONSTANTS
  Product,   \* skus
  Cents,     \* the prices the requests carry
  NULL       \* no row

ASSUME CatalogAssumption == Cents \subseteq Int /\ NULL \notin Int

VARIABLE prices   \* products.price_cents of each sku that has a row

CatalogTypeOK == prices \in [Product -> (Cents \cap Nat) \cup {NULL}]

CatalogInit == prices = [p \in Product |-> NULL]

(* GET /products/{id}: the price, or NULL for 404.                         *)
GetProduct(p) == prices[p]

(* GET /products.                                                          *)
ListProducts == {p \in Product : prices[p] # NULL}

(* POST /products: a second row with the sku is refused (409), and so is a *)
(* negative price (422).                                                   *)
CreateProduct(p, c) ==
  /\ c >= 0 /\ prices[p] = NULL
  /\ prices' = [prices EXCEPT ![p] = c]

(* PUT /products/{id}.                                                     *)
UpdateProduct(p, c) ==
  /\ c >= 0 /\ p \in ListProducts
  /\ prices' = [prices EXCEPT ![p] = c]
=============================================================================
